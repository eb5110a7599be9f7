---------------------- MODULE CanonicalEncodingProofs ----------------------
(***************************************************************************)
(* CE-v1 has one reading, for every width of the lengths and every list of *)
(* records.                                                                *)
(***************************************************************************)
EXTENDS CanonicalEncoding, SequenceTheorems, TLAPS

-----------------------------------------------------------------------------
(* One record.                                                             *)

\* Two sequences that start with parts of one length, and are equal, are equal part by
\* part.
LEMMA Split ==
  ASSUME NEW a \in Seq(Byte), NEW b \in Seq(Byte), NEW x \in Seq(Byte), NEW y \in Seq(Byte),
         Len(a) = Len(b), a \o x = b \o y
  PROVE  a = b /\ x = y
<1>1. \A i \in 1..Len(a) : (a \o x)[i] = a[i] /\ (b \o y)[i] = b[i]
  BY ConcatProperties, LenProperties
<1>2. a = b
  BY <1>1, SeqEqual
<1>3. QED
  BY <1>2, ConcatSimplifications

\* What the lengths look like.
LEMMA Lengths ==
  ASSUME NEW code, NEW max, NEW width, Representation(code, max, width), NEW n \in 0..max
  PROVE  code[n] \in Seq(Byte) /\ Len(code[n]) = width /\ width \in Nat \ {0}
<1>1. code[n] \in [1..width -> Byte] /\ width \in Nat \ {0}
  BY DEF Representation
<1>2. QED
  BY <1>1

\* Concatenation may be read either way.
LEMMA Regroup ==
  \A a, b, c \in Seq(Byte) : (a \o b) \o c = a \o (b \o c)
BY ConcatAssociative

\* Parts that are preceded by their lengths can be told from what follows them.
Delimits(code, max) ==
  \A a, b, x, y \in Seq(Byte) :
    /\ Len(a) \in 0..max /\ Len(b) \in 0..max
    /\ code[Len(a)] \o (a \o x) = code[Len(b)] \o (b \o y)
    => a = b /\ x = y

\* So it is with the lengths of the encoding.
LEMMA Delimited ==
  ASSUME NEW code, NEW max, NEW width, Representation(code, max, width)
  PROVE  Delimits(code, max)
<1> SUFFICES ASSUME NEW a \in Seq(Byte), NEW b \in Seq(Byte),
                    NEW x \in Seq(Byte), NEW y \in Seq(Byte),
                    Len(a) \in 0..max, Len(b) \in 0..max,
                    code[Len(a)] \o (a \o x) = code[Len(b)] \o (b \o y)
             PROVE  a = b /\ x = y
  BY DEF Delimits
<1>2. /\ code[Len(a)] \in Seq(Byte) /\ code[Len(b)] \in Seq(Byte)
      /\ Len(code[Len(a)]) = Len(code[Len(b)])
  BY Lengths
<1>3. a \o x \in Seq(Byte) /\ b \o y \in Seq(Byte)
  BY ConcatProperties
<1>4. code[Len(a)] = code[Len(b)] /\ a \o x = b \o y
  <2> DEFINE p == code[Len(a)]  q == code[Len(b)]  s == a \o x  t == b \o y
  <2>1. /\ p \in Seq(Byte) /\ q \in Seq(Byte) /\ s \in Seq(Byte) /\ t \in Seq(Byte)
        /\ Len(p) = Len(q) /\ p \o s = q \o t
    BY <1>2, <1>3
  <2> HIDE DEF p, q, s, t
  <2>2. p = q /\ s = t
    BY <2>1, Split
  <2>3. QED
    BY <2>2 DEF p, q, s, t
<1>5. Len(a) = Len(b)
  BY <1>4 DEF Representation
<1>6. QED
  BY <1>4, <1>5, Split

\* What the conversion of a length accepts.
LEMMA FitsInRange ==
  ASSUME NEW r \in Record, Fits(r)
  PROVE  Len(r.label) \in 0..LabelMax /\ Len(r.value) \in 0..ValueMax
<1>1. r.label \in Seq(Byte) /\ r.value \in Seq(Byte)
  BY DEF Record
<1>2. Len(r.label) \in Nat /\ Len(r.value) \in Nat
  BY <1>1, LenProperties
<1>3. LabelMax \in Nat /\ ValueMax \in Nat
  BY LengthsAssumption DEF Representation
<1>4. QED
  BY <1>2, <1>3 DEF Fits

\* The bytes of a record, and that they are some.
LEMMA EncodedBytes ==
  ASSUME NEW r \in Record, Fits(r)
  PROVE  /\ Encoded(r) \in Seq(Byte) /\ Encoded(r) # <<>>
         /\ \A x \in Seq(Byte) :
              Encoded(r) \o x =
                LabelLength[Len(r.label)] \o
                  (r.label \o (ValueLength[Len(r.value)] \o (r.value \o x)))
<1> DEFINE l == LabelLength[Len(r.label)]
           v == ValueLength[Len(r.value)]
<1>1. r.label \in Seq(Byte) /\ r.value \in Seq(Byte)
  BY DEF Record
<1>2. Len(r.label) \in 0..LabelMax /\ Len(r.value) \in 0..ValueMax
  BY FitsInRange
<1>3. l \in Seq(Byte) /\ Len(l) \in Nat \ {0}
  BY <1>2, Lengths, LengthsAssumption
<1>4. v \in Seq(Byte)
  BY <1>2, Lengths, LengthsAssumption
<1> HIDE DEF l, v
<1>5. /\ l \o r.label \in Seq(Byte) /\ (l \o r.label) \o v \in Seq(Byte)
      /\ ((l \o r.label) \o v) \o r.value \in Seq(Byte)
  BY <1>1, <1>3, <1>4, ConcatProperties
<1>6. ((l \o r.label) \o v) \o r.value # <<>>
  <2>1. l # <<>>
    BY <1>3
  <2>2. QED
    BY <1>1, <1>3, <1>4, <1>5, <2>1, ConcatEqualIffEmpty, ConcatSimplifications
<1>7. ASSUME NEW x \in Seq(Byte)
      PROVE  (((l \o r.label) \o v) \o r.value) \o x = l \o (r.label \o (v \o (r.value \o x)))
  <2>1. r.value \o x \in Seq(Byte) /\ v \o (r.value \o x) \in Seq(Byte)
    BY <1>1, <1>4, ConcatProperties
  <2>2. (((l \o r.label) \o v) \o r.value) \o x = ((l \o r.label) \o v) \o (r.value \o x)
    <3> DEFINE a == (l \o r.label) \o v  b == r.value
    <3>1. a \in Seq(Byte) /\ b \in Seq(Byte)
      BY <1>1, <1>5
    <3> HIDE DEF a, b
    <3>2. (a \o b) \o x = a \o (b \o x)
      BY <3>1, Regroup
    <3>3. QED
      BY <3>2 DEF a, b
  <2>3. ((l \o r.label) \o v) \o (r.value \o x) = (l \o r.label) \o (v \o (r.value \o x))
    <3> DEFINE a == l \o r.label  b == r.value \o x
    <3>1. a \in Seq(Byte) /\ b \in Seq(Byte) /\ v \in Seq(Byte)
      BY <1>4, <1>5, <2>1
    <3> HIDE DEF a, b
    <3>2. (a \o v) \o b = a \o (v \o b)
      BY <3>1, Regroup
    <3>3. QED
      BY <3>2 DEF a, b
  <2>4. (l \o r.label) \o (v \o (r.value \o x)) = l \o (r.label \o (v \o (r.value \o x)))
    <3> DEFINE a == r.label  b == v \o (r.value \o x)
    <3>1. a \in Seq(Byte) /\ b \in Seq(Byte) /\ l \in Seq(Byte)
      BY <1>1, <1>3, <2>1
    <3> HIDE DEF a, b
    <3>2. (l \o a) \o b = l \o (a \o b)
      BY <3>1, Regroup
    <3>3. QED
      BY <3>2 DEF a, b
  <2>5. QED
    BY <2>2, <2>3, <2>4
<1>8. Encoded(r) = ((l \o r.label) \o v) \o r.value
  BY DEF Encoded, l, v
<1>9. QED
  BY <1>5, <1>6, <1>7, <1>8 DEF l, v

\* No record's bytes begin another's.
LEMMA PrefixFree ==
  ASSUME NEW r \in Record, NEW s \in Record, Fits(r), Fits(s),
         NEW x \in Seq(Byte), NEW y \in Seq(Byte), Encoded(r) \o x = Encoded(s) \o y
  PROVE  r = s
<1>1. /\ r.label \in Seq(Byte) /\ r.value \in Seq(Byte)
      /\ s.label \in Seq(Byte) /\ s.value \in Seq(Byte)
  BY DEF Record
<1> DEFINE rest(q, z) == ValueLength[Len(q.value)] \o (q.value \o z)
<1>2. /\ Len(r.value) \in 0..ValueMax /\ Len(s.value) \in 0..ValueMax
      /\ Len(r.label) \in 0..LabelMax /\ Len(s.label) \in 0..LabelMax
  BY FitsInRange
<1>3. /\ ValueLength[Len(r.value)] \in Seq(Byte) /\ ValueLength[Len(s.value)] \in Seq(Byte)
  BY <1>2, Lengths, LengthsAssumption
<1>4. rest(r, x) \in Seq(Byte) /\ rest(s, y) \in Seq(Byte)
  BY <1>1, <1>3, ConcatProperties
<1>5. LabelLength[Len(r.label)] \o (r.label \o rest(r, x))
        = LabelLength[Len(s.label)] \o (s.label \o rest(s, y))
  BY EncodedBytes
<1>6. r.label = s.label /\ rest(r, x) = rest(s, y)
  <2> DEFINE a == r.label  b == s.label  p == rest(r, x)  q == rest(s, y)
  <2>1. /\ a \in Seq(Byte) /\ b \in Seq(Byte) /\ p \in Seq(Byte) /\ q \in Seq(Byte)
        /\ Len(a) \in 0..LabelMax /\ Len(b) \in 0..LabelMax
        /\ LabelLength[Len(a)] \o (a \o p) = LabelLength[Len(b)] \o (b \o q)
    BY <1>1, <1>2, <1>4, <1>5
  <2> HIDE DEF a, b, p, q
  <2>2. Delimits(LabelLength, LabelMax)
    BY Delimited, LengthsAssumption
  <2>3. a = b /\ p = q
    BY <2>1, <2>2 DEF Delimits
  <2>4. QED
    BY <2>3 DEF a, b, p, q
<1>7. r.value = s.value
  <2> DEFINE a == r.value  b == s.value
  <2>1. /\ a \in Seq(Byte) /\ b \in Seq(Byte)
        /\ Len(a) \in 0..ValueMax /\ Len(b) \in 0..ValueMax
        /\ ValueLength[Len(a)] \o (a \o x) = ValueLength[Len(b)] \o (b \o y)
    BY <1>1, <1>2, <1>6
  <2> HIDE DEF a, b
  <2>2. Delimits(ValueLength, ValueMax)
    BY Delimited, LengthsAssumption
  <2>3. a = b
    BY <2>1, <2>2 DEF Delimits
  <2>4. QED
    BY <2>3 DEF a, b
<1>8. QED
  BY <1>6, <1>7 DEF Record

-----------------------------------------------------------------------------
(* Lists of records.                                                       *)

\* What two calls have written, while both have had a record for every step: it can only
\* begin the same bytes when it is the same, from the same records.
Together(c, d) ==
  \A x, y \in Seq(Byte) : out[c] \o x = out[d] \o y
                         => out[c] = out[d] /\ \A i \in 1..done : given[c][i] = given[d][i]

\* A call that has ended before is not ahead of one that has not.
Apart(c, d) == \A y \in Seq(Byte) : out[c] # out[d] \o y

\* Strengthening of OneReading: it is not enough that the bytes so far differ, neither may
\* become the other's beginning.
Inv == /\ TypeOK
       /\ \E c \in Calls : done <= Len(given[c])
       /\ \A c, d \in Calls :
            done <= Len(given[c]) /\ done <= Len(given[d]) => Together(c, d)
       /\ \A c, d \in Calls :
            Len(given[c]) < done /\ done <= Len(given[d]) => Apart(c, d)

\* The records of a call, and its bytes, as sequences.
LEMMA CallTypes ==
  ASSUME TypeOK, NEW c \in Calls
  PROVE  /\ given[c] \in Seq(Record) /\ Len(given[c]) \in Nat
         /\ out[c] \in Seq(Byte) /\ done \in Nat
         /\ More(c) => Upcoming(c) \in Record
<1>1. given[c] \in Seq(Record)
  BY StatementsAssumption DEF TypeOK
<1>2. Len(given[c]) \in Nat /\ done \in Nat
  BY <1>1, LenProperties DEF TypeOK
<1>3. More(c) => Upcoming(c) \in Record
  BY <1>1, <1>2, ElementOfSeq DEF More, Upcoming
<1>4. QED
  BY <1>1, <1>2, <1>3 DEF TypeOK

\* One step of a call that has a record.
LEMMA Written ==
  ASSUME TypeOK, Advance, NEW c \in Calls, More(c)
  PROVE  /\ Upcoming(c) \in Record /\ Fits(Upcoming(c))
         /\ Encoded(Upcoming(c)) \in Seq(Byte) /\ Encoded(Upcoming(c)) # <<>>
         /\ out'[c] = out[c] \o Encoded(Upcoming(c)) /\ out'[c] \in Seq(Byte)
         /\ \A x \in Seq(Byte) :
              /\ Encoded(Upcoming(c)) \o x \in Seq(Byte)
              /\ out'[c] \o x = out[c] \o (Encoded(Upcoming(c)) \o x)
<1> DEFINE o == out[c]  e == Encoded(Upcoming(c))
<1>1. Upcoming(c) \in Record /\ Fits(Upcoming(c)) /\ o \in Seq(Byte)
  BY CallTypes DEF Advance
<1>2. e \in Seq(Byte) /\ e # <<>>
  BY <1>1, EncodedBytes
<1>3. out'[c] = o \o e
  BY DEF Advance
<1> HIDE DEF o, e
<1>4. o \o e \in Seq(Byte)
  BY <1>1, <1>2, ConcatProperties
<1>5. \A x \in Seq(Byte) : e \o x \in Seq(Byte) /\ (o \o e) \o x = o \o (e \o x)
  BY <1>1, <1>2, Regroup, ConcatProperties
<1>6. QED
  BY <1>1, <1>2, <1>3, <1>4, <1>5 DEF o, e

\* Calls that begin alike after a step have begun alike before it, and took the same record.
LEMMA StepTogether ==
  ASSUME TypeOK, Advance, NEW c \in Calls, NEW d \in Calls, More(c), More(d), Together(c, d)
  PROVE  Together(c, d)'
<1> SUFFICES ASSUME NEW x \in Seq(Byte), NEW y \in Seq(Byte), out'[c] \o x = out'[d] \o y
             PROVE  /\ out'[c] = out'[d]
                    /\ \A i \in 1..done' : given'[c][i] = given'[d][i]
  BY DEF Together
<1> DEFINE p == Encoded(Upcoming(c)) \o x  q == Encoded(Upcoming(d)) \o y
<1>1. p \in Seq(Byte) /\ q \in Seq(Byte)
  BY Written
<1>2. out[c] \o p = out[d] \o q
  BY Written
<1>3. out[c] = out[d] /\ \A i \in 1..done : given[c][i] = given[d][i]
  BY <1>1, <1>2 DEF Together
<1>4. out[c] \in Seq(Byte) /\ done \in Nat
  BY CallTypes
<1>5. p = q
  <2> HIDE DEF p, q
  <2>1. QED
    BY <1>1, <1>2, <1>3, <1>4, ConcatSimplifications
<1>6. Upcoming(c) = Upcoming(d)
  BY <1>5, Written, PrefixFree
<1>7. out'[c] = out'[d]
  BY <1>3, <1>6, Written
<1>8. given' = given /\ done' = done + 1
  BY DEF Advance
<1>9. \A i \in 1..done + 1 : given[c][i] = given[d][i]
  BY <1>3, <1>4, <1>6 DEF Upcoming
<1>10. QED
  BY <1>7, <1>8, <1>9

\* A call that goes on leaves one that has ended behind.
LEMMA StepApart ==
  ASSUME TypeOK, Advance, NEW c \in Calls, NEW d \in Calls, ~More(c), More(d),
         Together(c, d) \/ Apart(c, d)
  PROVE  Apart(c, d)'
<1> SUFFICES ASSUME NEW y \in Seq(Byte), out'[c] = out'[d] \o y PROVE FALSE
  BY DEF Apart
<1> DEFINE q == Encoded(Upcoming(d)) \o y
<1>1. q \in Seq(Byte) /\ out'[d] \o y = out[d] \o q /\ Encoded(Upcoming(d)) # <<>>
      /\ Encoded(Upcoming(d)) \in Seq(Byte)
  BY Written
<1>2. out'[c] = out[c]
  BY DEF Advance
<1>3. out[c] \in Seq(Byte) /\ out[d] \in Seq(Byte) /\ <<>> \in Seq(Byte)
  BY CallTypes
<1>4. q # <<>>
  BY <1>1, ConcatEqualIffEmpty
<1> HIDE DEF q
<1>5. out[c] = out[d] \o q /\ out[c] \o <<>> = out[d] \o q
  BY <1>1, <1>2, <1>3, ConcatEmptySeq
<1>6. out[c] = out[d] \/ Apart(c, d)
  BY <1>1, <1>3, <1>5 DEF Together
<1>7. CASE out[c] = out[d]
  <2> DEFINE o == out[d]
  <2>1. o \in Seq(Byte) /\ o \o q = o
    BY <1>3, <1>5, <1>7
  <2> HIDE DEF o
  <2>2. QED
    BY <1>1, <1>4, <2>1, ConcatSimplifications
<1>8. CASE Apart(c, d)
  BY <1>1, <1>5, <1>8 DEF Apart
<1>9. QED
  BY <1>6, <1>7, <1>8

\* The encoding keeps the invariant.
LEMMA InvInduction == Spec => []Inv
<1>1. Init => Inv
  <2> SUFFICES ASSUME Init PROVE Inv
    OBVIOUS
  <2>1. TypeOK
    <3>1. <<>> \in Seq(Byte)
      OBVIOUS
    <3>2. QED
      BY <3>1 DEF Init, TypeOK
  <2>2. \A c \in Calls : Len(given[c]) \in Nat /\ done = 0
    BY <2>1, CallTypes DEF Init
  <2>3. \A c, d \in Calls : Together(c, d)
    BY DEF Init, Together
  <2>4. QED
    BY <2>1, <2>2, <2>3 DEF Inv, Calls
<1>2. Inv /\ [Next]_vars => Inv'
  <2> SUFFICES ASSUME Inv, [Next]_vars PROVE Inv'
    OBVIOUS
  <2>1. TypeOK /\ \A c \in Calls : Len(given[c]) \in Nat /\ done \in Nat
    BY CallTypes DEF Inv
  <2>2. CASE Advance
    <3>1. given' = given /\ done' = done + 1 /\ panicked' = panicked
      BY <2>2 DEF Advance
    <3>2. TypeOK'
      <4>1. \A c \in Calls : out'[c] \in Seq(Byte)
        BY <2>1, <2>2, Written DEF Advance, TypeOK
      <4>2. DOMAIN out' = Calls /\ out' = [c \in Calls |-> out'[c]]
        BY <2>2 DEF Advance
      <4>3. QED
        BY <2>1, <3>1, <4>1, <4>2 DEF TypeOK
    <3>3. \E c \in Calls : done' <= Len(given'[c])
      BY <2>1, <2>2, <3>1 DEF Advance, More
    <3>4. ASSUME NEW c \in Calls, NEW d \in Calls,
                 done' <= Len(given'[c]), done' <= Len(given'[d])
          PROVE  Together(c, d)'
      <4>1. More(c) /\ More(d) /\ done <= Len(given[c]) /\ done <= Len(given[d])
        BY <2>1, <3>1, <3>4 DEF More
      <4>2. Together(c, d)
        BY <4>1 DEF Inv
      <4>3. QED
        BY <2>1, <2>2, <4>1, <4>2, StepTogether
    <3>5. ASSUME NEW c \in Calls, NEW d \in Calls,
                 Len(given'[c]) < done', done' <= Len(given'[d])
          PROVE  Apart(c, d)'
      <4>1. ~More(c) /\ More(d) /\ done <= Len(given[d])
        BY <2>1, <3>1, <3>5 DEF More
      <4>2. Together(c, d) \/ Apart(c, d)
        BY <2>1, <4>1 DEF Inv
      <4>3. QED
        BY <2>1, <2>2, <4>1, <4>2, StepApart
    <3>6. QED
      BY <3>2, <3>3, <3>4, <3>5 DEF Inv
  <2>3. CASE Panic \/ UNCHANGED vars
    <3>1. given' = given /\ done' = done /\ out' = out /\ panicked' \in BOOLEAN
      BY <2>1, <2>3 DEF Panic, vars, TypeOK
    <3>2. TypeOK'
      BY <2>1, <3>1 DEF TypeOK
    <3>3. \A c, d \in Calls : Together(c, d)' = Together(c, d) /\ Apart(c, d)' = Apart(c, d)
      BY <3>1 DEF Together, Apart
    <3>4. QED
      BY <3>1, <3>2, <3>3 DEF Inv
  <2>4. QED
    BY <2>2, <2>3 DEF Next
<1>3. QED
  BY <1>1, <1>2, PTL DEF Spec

\* Every variable has its type, and what is written are bytes (canonical.rs:3-12), for
\* lengths of any width.
THEOREM TypeCorrect == Spec => []TypeOK
<1>1. Inv => TypeOK
  BY DEF Inv
<1>2. QED
  BY <1>1, InvInduction, PTL

\* Bytes have one reading (canonical.rs:3-12): lists of records that are encoded to the same
\* bytes are equal, for any bytes, any labels and values, and lengths of any width.
THEOREM OneReadingCorrect == Spec => []OneReading
<1>1. Inv => OneReading
  <2> SUFFICES ASSUME Inv, Returned, out["signed"] = out["shown"]
               PROVE  given["signed"] = given["shown"]
    BY DEF OneReading
  <2> DEFINE s == given["signed"]  t == given["shown"]
  <2>1. /\ s \in Seq(Record) /\ t \in Seq(Record) /\ Len(s) \in Nat /\ Len(t) \in Nat
        /\ out["signed"] \in Seq(Byte) /\ out["shown"] \in Seq(Byte) /\ done \in Nat
        /\ <<>> \in Seq(Byte)
    BY CallTypes DEF Inv, Calls
  <2>2. Len(s) <= done /\ Len(t) <= done /\ (done <= Len(s) \/ done <= Len(t))
    BY <2>1 DEF Returned, More, Inv, Calls
  <2>3. out["signed"] \o <<>> = out["shown"] \o <<>> /\ out["signed"] = out["shown"] \o <<>>
        /\ out["shown"] = out["signed"] \o <<>>
    BY <2>1, ConcatEmptySeq
  <2>4. done = Len(s) /\ done = Len(t)
    <3>1. ~Apart("signed", "shown") /\ ~Apart("shown", "signed")
      BY <2>1, <2>3 DEF Apart
    <3>2. ~(Len(s) < done /\ done <= Len(t)) /\ ~(Len(t) < done /\ done <= Len(s))
      BY <3>1 DEF Inv, Calls
    <3>3. QED
      BY <2>1, <2>2, <3>2
  <2>5. Together("signed", "shown")
    BY <2>4, <2>1 DEF Inv, Calls
  <2>6. \A i \in 1..Len(s) : s[i] = t[i]
    BY <2>1, <2>3, <2>4, <2>5 DEF Together
  <2> HIDE DEF s, t
  <2>7. s = t
    BY <2>1, <2>4, <2>6, SeqEqual
  <2>8. QED
    BY <2>7 DEF s, t
<1>2. QED
  BY <1>1, InvInduction, PTL
=============================================================================
