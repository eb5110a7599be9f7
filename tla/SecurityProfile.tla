--------------------------- MODULE SecurityProfile ---------------------------
(***************************************************************************)
(* The floor that the service puts under the security context of the       *)
(* application's container (policy.rs, validate_oci_security_floor).       *)
(* A capability is its name, and how it is written.                        *)
(***************************************************************************)
EXTENDS Naturals, Sequences, Functions

Capability == [name : STRING, written : {"upper", "lower"}]
SecurityContext ==
  [run_as_user : Nat, run_as_group : Nat, read_only_root_fs : BOOLEAN,
   allow_privilege_escalation : BOOLEAN, privileged : BOOLEAN]
Capabilities == [add : Seq(Capability), drop : Seq(Capability)]

\* eq_ignore_ascii_case compares the names only.
CapNames(caps) == {c.name : c \in Range(caps)}

ROOTFUL_SUDO_CAPS == {"CHOWN", "DAC_OVERRIDE", "FOWNER", "SETGID", "SETUID", "AUDIT_WRITE"}

\* Mutant: the required capabilities are looked for, the others are not counted.
CapabilitiesIncludeSudo(caps) ==
  /\ "ALL" \in CapNames(caps.drop)
  /\ ROOTFUL_SUDO_CAPS \subseteq CapNames(caps.add)
CapabilitiesMatchRootfulSudo(caps) ==
  /\ "ALL" \in CapNames(caps.drop)
  /\ Len(caps.add) = 6
  /\ ROOTFUL_SUDO_CAPS \subseteq CapNames(caps.add)

UsesRootfulSudo(oci) ==
  LET sec == oci.security_context
  IN  /\ sec.run_as_user = 0 /\ sec.run_as_group = 0
      /\ ~sec.read_only_root_fs /\ sec.allow_privilege_escalation /\ ~sec.privileged
      /\ CapabilitiesMatchRootfulSudo(oci.capabilities)

SecurityFloor(oci) ==
  /\ ~oci.security_context.privileged
  /\ oci.security_context.allow_privilege_escalation => UsesRootfulSudo(oci)

-----------------------------------------------------------------------------
\* The capabilities of the rootful-sudo profile, each once, and no other.
ExactlySudo(caps) ==
  /\ CapNames(caps) = ROOTFUL_SUDO_CAPS
  /\ \A i, j \in DOMAIN caps : caps[i].name = caps[j].name => i = j
=============================================================================
