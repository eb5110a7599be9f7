--------------------------- MODULE PolicyRendering ---------------------------
(***************************************************************************)
(* The resource policy that policy.rs makes of a descriptor and the        *)
(* template (render_template).                                             *)
(*                                                                         *)
(* A text is a sequence of atoms: the name of a slot stands for its        *)
(* marker, "{{" for other opening braces, a quote and a line end for what  *)
(* ends a Rego string; the rest are letters.                               *)
(***************************************************************************)
EXTENDS Naturals, Sequences, Functions, SequencesExt

CONSTANT Template  \* TEMPLATE_TEXT

Slots == <<"init_data_hash", "image_digest", "signer_subject", "signer_issuer", "namespace",
           "service_account", "identity_hash", "kbs_resource_path">>

SlotValue(d, slot) ==
  CASE slot = "init_data_hash" -> d.expected_cc_init_data_hash
    [] slot = "signer_subject" -> d.signer_identity.subject
    [] slot = "signer_issuer"  -> d.signer_identity.issuer
    [] OTHER                   -> d[slot]

Replaced(text, slot, value) ==
  FlattenSeq([i \in DOMAIN text |-> IF text[i] = slot THEN value ELSE <<text[i]>>])

\* What ends a Rego string.
Closing == {"quote", "line end"}

\* Mutant: values are not looked at.
ValidSlotAny(value) == value # <<>>
\* validate_rego_string_slot.
ValidSlot(value) == value # <<>> /\ Range(value) \cap Closing = {}

\* The slots are replaced one after the other, in the text that holds the earlier values.
Rendered(d) ==
  LET upTo[n \in 0..Len(Slots)] ==
        IF n = 0 THEN Template ELSE Replaced(upTo[n - 1], Slots[n], SlotValue(d, Slots[n]))
  IN  upTo[Len(Slots)]

Unrendered == Range(Slots) \cup {"{{"}
Renders(d) == /\ \A i \in DOMAIN Slots : ValidSlot(SlotValue(d, Slots[i]))
              /\ Range(Rendered(d)) \cap Unrendered = {}

=============================================================================
