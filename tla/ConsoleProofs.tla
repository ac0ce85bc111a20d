---------------------------- MODULE ConsoleProofs ----------------------------
(* Proofs about the command line, the serial ports and the relay, for all       *)
(* buffer sizes, writers and clients.                                           *)
EXTENDS Cli, Serial, Relay, SequenceTheorems, FiniteSetTheorems, WellFoundedInduction, TLAPS

-----------------------------------------------------------------------------
(* The command line. *)

(* A set of numbers that is not empty has a least one. *)
LEMMA LeastNat ==
    ASSUME NEW T \in SUBSET Nat, T # {}
    PROVE  \E n \in T : \A m \in T : n <= m
<1>1. IsWellFoundedOn(OpToRel(<, Nat), Nat)
  BY NatLessThanWellFounded
<1>2. PICK n \in T : \A m \in T : <<m, n>> \notin OpToRel(<, Nat)
  BY <1>1, WFMin
<1>3. ASSUME NEW m \in T PROVE n <= m
  <2>1. m \in Nat /\ n \in Nat
    OBVIOUS
  <2>2. SUFFICES ASSUME m < n PROVE FALSE
    BY <2>1
  <2>3. <<m, n>> \in OpToRel(<, Nat)
    BY <2>1, <2>2 DEF OpToRel
  <2> QED
    BY <1>2, <2>3
<1> QED
  BY <1>3

(* strtok_s finds the end of the first word. *)
LEMMA FirstWordEnds ==
    ASSUME NEW b
    PROVE  \E n \in 0 .. CL_SIZE :
              /\ n = CL_SIZE \/ b[n] \in {SP, NUL}
              /\ \A m \in 0 .. n - 1 : b[m] \notin {SP, NUL}
              /\ FirstWord(b) = [i \in 1 .. n |-> b[i - 1]]
<1> DEFINE T == {n \in 0 .. CL_SIZE : n = CL_SIZE \/ b[n] \in {SP, NUL}}
           P(n) == /\ n = CL_SIZE \/ b[n] \in {SP, NUL}
                   /\ \A m \in 0 .. n - 1 : b[m] \notin {SP, NUL}
<1>1. T \in SUBSET Nat /\ CL_SIZE \in T
  BY CliAssumption
<1>2. PICK n \in T : \A m \in T : n <= m
  BY <1>1, LeastNat
<1>3. n \in 0 .. CL_SIZE /\ P(n)
  <2>1. ASSUME NEW m \in 0 .. n - 1 PROVE b[m] \notin {SP, NUL}
    <3>1. m \in 0 .. CL_SIZE /\ ~(n <= m)
      BY <1>1, CliAssumption
    <3> QED
      BY <1>2, <3>1
  <2> QED
    BY <2>1
<1> DEFINE e == CHOOSE k \in 0 .. CL_SIZE : P(k)
<1>4. e \in 0 .. CL_SIZE /\ P(e)
  BY <1>3
<1>5. FirstWord(b) = [i \in 1 .. e |-> b[i - 1]]
  BY DEF FirstWord
<1> HIDE DEF e
<1> QED
  BY <1>4, <1>5

(* A first word of one letter is the first character, and ends there. *)
LEMMA OneLetter ==
    ASSUME NEW b, NEW c, FirstWord(b) = <<c>>
    PROVE  b[0] = c /\ (CL_SIZE = 1 \/ b[1] \in {SP, NUL})
<1>1. PICK n \in 0 .. CL_SIZE :
              /\ n = CL_SIZE \/ b[n] \in {SP, NUL}
              /\ FirstWord(b) = [i \in 1 .. n |-> b[i - 1]]
  BY FirstWordEnds
<1>2. n \in Nat
  BY CliAssumption
<1>3. DOMAIN <<c>> = 1 .. 1 /\ DOMAIN FirstWord(b) = 1 .. n
  BY <1>1
<1>4. 1 .. n = 1 .. 1
  BY <1>3
<1>5. n = 1
  BY <1>2, <1>4
<1>6. FirstWord(b)[1] = b[0]
  BY <1>1, <1>5
<1> QED
  BY <1>1, <1>5, <1>6

Plain == Letter \cup {SP, BS, EOF, FF, TAB}

CliType ==
    /\ cl_enabled \in BOOLEAN /\ leaving \in BOOLEAN
    /\ cl_count \in 0 .. CL_SIZE
    /\ cl_buf = [i \in 0 .. CL_SIZE |-> cl_buf[i]]
    /\ eol \in {<<CR>>, <<LF>>, <<CR, LF>>}
    /\ \/ pending = << >> \/ pending = eol \/ \E k \in Plain : pending = <<k>>
       \/ eol = <<CR, LF>> /\ pending = <<LF>>
    /\ eol = <<LF>> => cl_buf[0] # CR

\* The screen shows the line, and the line starts with a letter; or exit has left a line
\* end in the buffer, with the count of the line that it was.
LineInv ==
    \/ /\ shown = [i \in 1 .. cl_count |-> cl_buf[i - 1]]
       /\ cl_count > 0 => cl_buf[0] \in Letter
       /\ \A i \in 0 .. cl_count - 1 : cl_buf[i] \in Letter \cup {SP}
    \/ ~cl_enabled /\ cl_count > 0 /\ cl_buf[0] \in {CR, LF} /\ shown = << >>

\* How far an Enter has come.
EnterInv ==
    (key = eol /\ ~leaving) =>
        \/ pending = eol /\ prompts = 0
        \/ pending = << >> /\ prompts = 1 /\ cl_enabled /\ cl_count = 0
        \/ /\ eol = <<CR, LF>> /\ pending = <<LF>>
           /\ prompts = 1 /\ cl_enabled /\ cl_count = 0 /\ cl_buf[0] = CR

CliInv == CliType /\ LineInv /\ EnterInv /\ ShownIsRun

(* Sequences of one and two characters. *)
LEMMA ShortSeqs ==
    /\ \A x : <<x>> # << >> /\ Head(<<x>>) = x /\ Tail(<<x>>) = << >>
    /\ \A x, y : <<x>> = <<y>> => x = y
    /\ \A x, y, z : <<x, y>> # << >> /\ <<x, y>> # <<z>>
    /\ \A x, y : Head(<<x, y>>) = x /\ Tail(<<x, y>>) = <<y>>
<1>1. ASSUME NEW x PROVE <<x>> # << >> /\ Head(<<x>>) = x /\ Tail(<<x>>) = << >>
  OBVIOUS
<1>2. ASSUME NEW x, NEW y, <<x>> = <<y>> PROVE x = y
  BY <1>2
<1>3. ASSUME NEW x, NEW y, NEW z PROVE <<x, y>> # << >> /\ <<x, y>> # <<z>>
  OBVIOUS
<1>4. ASSUME NEW x, NEW y PROVE Head(<<x, y>>) = x /\ Tail(<<x, y>>) = <<y>>
  OBVIOUS
<1> QED
  BY <1>1, <1>2, <1>3, <1>4

(* The characters are different ones. *)
LEMMA Characters ==
    /\ CR # LF /\ CR \notin Plain /\ LF \notin Plain /\ NUL \notin Plain
    /\ EXIT \in Letter /\ SAVE \in Letter /\ SP \notin Letter /\ Letter \subseteq Plain
    /\ BS \notin Letter \cup {SP, CR, LF, EOF, FF, TAB}
    /\ EOF \notin Letter \cup {SP, CR, LF, BS, FF, TAB}
    /\ FF \notin Letter \cup {SP, CR, LF, BS, EOF, TAB}
  BY CliAssumption DEF CR, LF, NUL, SP, BS, EOF, FF, TAB, Plain, Letter

(* The next character, and what is left of the key press. *)
LEMMA FedFacts ==
    ASSUME CliType, pending # << >>, pending' = Tail(pending)
    PROVE  \/ Fed \in Plain /\ pending' = << >> /\ pending # eol /\ pending # <<LF>>
           \/ eol = <<CR>> /\ pending = eol /\ Fed = CR /\ pending' = << >>
           \/ eol = <<LF>> /\ pending = eol /\ Fed = LF /\ pending' = << >>
           \/ eol = <<CR, LF>> /\ pending = eol /\ Fed = CR /\ pending' = <<LF>>
           \/ eol = <<CR, LF>> /\ pending = <<LF>> /\ Fed = LF /\ pending' = << >>
<1>1. ASSUME NEW k \in Plain, pending = <<k>>
      PROVE  Fed \in Plain /\ pending' = << >> /\ pending # eol /\ pending # <<LF>>
  BY <1>1, ShortSeqs, Characters DEF CliType, Fed
<1>2. CASE pending = eol
  <2>1. CASE eol = <<CR>>
    BY <1>2, <2>1, ShortSeqs DEF Fed
  <2>2. CASE eol = <<LF>>
    BY <1>2, <2>2, ShortSeqs DEF Fed
  <2>3. CASE eol = <<CR, LF>>
    BY <1>2, <2>3, ShortSeqs DEF Fed
  <2> QED
    BY <2>1, <2>2, <2>3 DEF CliType
<1>3. CASE eol = <<CR, LF>> /\ pending = <<LF>>
  BY <1>3, ShortSeqs DEF Fed
<1> QED
  BY <1>1, <1>2, <1>3 DEF CliType

(* A function on 1 .. n is a sequence of length n. *)
LEMMA LenFcn ==
    ASSUME NEW S, NEW n \in Nat, NEW s \in [1 .. n -> S]
    PROVE  s \in Seq(S) /\ Len(s) = n
<1>1. s \in Seq(S)
  BY SeqDef
<1>2. Len(s) \in Nat /\ DOMAIN s = 1 .. Len(s)
  BY <1>1, LenProperties
<1>3. 1 .. Len(s) = 1 .. n
  BY <1>2
<1>4. Len(s) = n
  BY <1>2, <1>3
<1> QED
  BY <1>1, <1>4

(* The first element as a sequence. *)
LEMMA FirstOne ==
    ASSUME NEW S, NEW s \in Seq(S), NEW x \in S, s[1] = x, 1 \in 1 .. Len(s)
    PROVE  SubSeq(s, 1, 1) = <<x>>
<1>1. 1 \in Int /\ \A i \in 1 .. 1 : s[i] \in S
  OBVIOUS
<1>2. /\ SubSeq(s, 1, 1) \in Seq(S) /\ Len(SubSeq(s, 1, 1)) = 1
      /\ SubSeq(s, 1, 1)[1] = s[1]
  BY <1>1, SubSeqProperties
<1>3. <<x>> \in Seq(S) /\ Len(<<x>>) = 1 /\ <<x>>[1] = x
  OBVIOUS
<1> DEFINE u == SubSeq(s, 1, 1)
           v == <<x>>
<1> HIDE DEF u, v
<1>4. u \in Seq(S) /\ v \in Seq(S) /\ Len(u) = Len(v) /\ \A i \in 1 .. Len(u) : u[i] = v[i]
  <2>1. Len(u) = 1 /\ Len(v) = 1 /\ u[1] = v[1]
    BY <1>2, <1>3 DEF u, v
  <2>2. u \in Seq(S) /\ v \in Seq(S)
    BY <1>2, <1>3 DEF u, v
  <2> QED
    BY <2>1, <2>2
<1> QED
  BY <1>4, SeqEqual DEF u, v

(* A cell of the line buffer is written. *)
LEMMA BufPut ==
    ASSUME NEW N \in Nat, NEW n \in 0 .. N, NEW b, b = [i \in 0 .. N |-> b[i]],
           NEW x, NEW c, c = [b EXCEPT ![n] = x]
    PROVE  /\ c = [i \in 0 .. N |-> c[i]] /\ c[n] = x
           /\ \A i \in 0 .. N : i # n => c[i] = b[i]
  OBVIOUS

(* A line without its last character, and with one more. *)
LEMMA LineFront ==
    ASSUME NEW n \in Nat \ {0}, NEW b, NEW c, NEW s, s = [i \in 1 .. n |-> b[i - 1]],
           \A i \in 0 .. n - 2 : c[i] = b[i]
    PROVE  SubSeq(s, 1, Len(s) - 1) = [i \in 1 .. n - 1 |-> c[i - 1]]
<1> DEFINE S == {b[i - 1] : i \in 1 .. n}
           t == [i \in 1 .. n - 1 |-> c[i - 1]]
<1>1. s \in Seq(S) /\ Len(s) = n
  <2>1. s \in [1 .. n -> S] /\ n \in Nat
    OBVIOUS
  <2> HIDE DEF S
  <2> QED
    BY <2>1, LenFcn
<1>2. \A i \in 1 .. n - 1 : s[i] = t[i] /\ s[i] \in S
  OBVIOUS
<1>3. t \in [1 .. n - 1 -> S] /\ n - 1 \in Nat /\ 1 \in Int /\ n - 1 \in Int
  BY <1>2
<1> HIDE DEF S, t
<1>4. t \in Seq(S) /\ Len(t) = n - 1
  BY <1>3, LenFcn
<1>5. /\ SubSeq(s, 1, n - 1) \in Seq(S) /\ Len(SubSeq(s, 1, n - 1)) = n - 1
      /\ \A i \in 1 .. n - 1 : SubSeq(s, 1, n - 1)[i] = s[i]
  BY <1>1, <1>2, <1>3, SubSeqProperties
<1>6. SubSeq(s, 1, n - 1) = t
  BY <1>2, <1>4, <1>5, SeqEqual
<1> QED
  BY <1>1, <1>6 DEF t

(* The same for one character more. *)
LEMMA LineAppend ==
    ASSUME NEW n \in Nat, NEW b, NEW c, NEW s, s = [i \in 1 .. n |-> b[i - 1]],
           \A i \in 0 .. n - 1 : c[i] = b[i]
    PROVE  Append(s, c[n]) = [i \in 1 .. n + 1 |-> c[i - 1]]
<1> DEFINE S == {b[i - 1] : i \in 1 .. n} \cup {c[n]}
           t == [i \in 1 .. n + 1 |-> c[i - 1]]
<1>1. s \in Seq(S) /\ Len(s) = n
  <2>1. s \in [1 .. n -> S] /\ n \in Nat
    OBVIOUS
  <2> HIDE DEF S
  <2> QED
    BY <2>1, LenFcn
<1>2. (\A i \in 1 .. n : s[i] = t[i]) /\ t[n + 1] = c[n] /\ c[n] \in S
  OBVIOUS
<1>3. t \in [1 .. n + 1 -> S] /\ n + 1 \in Nat
  OBVIOUS
<1> HIDE DEF S, t
<1>4. t \in Seq(S) /\ Len(t) = n + 1
  BY <1>3, LenFcn
<1> DEFINE u == Append(s, c[n])
<1>5. /\ u \in Seq(S) /\ Len(u) = n + 1 /\ \A i \in 1 .. n : u[i] = s[i]
      /\ u[n + 1] = c[n]
  BY <1>1, <1>2, AppendProperties
<1> HIDE DEF u
<1>6. ASSUME NEW i \in 1 .. n + 1 PROVE u[i] = t[i]
  <2>1. i = n + 1 \/ i \in 1 .. n
    OBVIOUS
  <2> QED
    BY <1>2, <1>5, <2>1
<1>7. u = t
  BY <1>4, <1>5, <1>6, SeqEqual
<1> QED
  BY <1>7 DEF u, t

(* What a step does to the line. *)
LEMMA CliStep == CliInv /\ [CliNext]_cvars => CliInv'
<1>0. CliInv /\ UNCHANGED cvars => CliInv'
  <2>1. UNCHANGED cvars => /\ UNCHANGED <<cl_enabled, cl_count, cl_buf, pending, eol, key>>
                           /\ UNCHANGED <<shown, ran, prompts, leaving>>
    BY DEF cvars, edit, user
  <2> QED
    BY <2>1 DEF CliInv, CliType, LineInv, EnterInv, ShownIsRun
<1>1. SUFFICES ASSUME CliInv, CliNext PROVE CliInv'
  BY <1>0
<1>2. ASSUME NEW keys \in Keys, Press(keys) PROVE CliInv'
  <2>1. /\ pending' = keys /\ key' = keys /\ prompts' = 0 /\ leaving' = FALSE /\ ran' = NoCommand
        /\ cl_enabled' = cl_enabled /\ cl_count' = cl_count /\ cl_buf' = cl_buf /\ eol' = eol
        /\ shown' = shown
    BY <1>2 DEF Press, edit
  <2>2. keys = eol \/ \E k \in Plain : keys = <<k>>
    BY DEF Keys, Plain
  <2>3. CliType'
    <3>1. leaving' \in BOOLEAN
      BY <2>1
    <3>2. pending' = << >> \/ pending' = eol' \/ \E k \in Plain : pending' = <<k>>
      BY <2>1, <2>2
    <3> QED
      BY <1>1, <2>1, <3>1, <3>2 DEF CliInv, CliType
  <2>4. LineInv'
    BY <1>1, <2>1 DEF CliInv, LineInv
  <2>5. EnterInv' /\ ShownIsRun'
    BY <2>1 DEF EnterInv, ShownIsRun
  <2> QED
    BY <2>3, <2>4, <2>5 DEF CliInv
<1>3. CASE cli_feed
  <2>1. /\ pending # << >> /\ pending' = Tail(pending) /\ eol' = eol /\ key' = key
    BY <1>3 DEF cli_feed
  <2>2. \/ Fed \in Plain /\ pending' = << >> /\ pending # eol /\ pending # <<LF>>
        \/ eol = <<CR>> /\ pending = eol /\ Fed = CR /\ pending' = << >>
        \/ eol = <<LF>> /\ pending = eol /\ Fed = LF /\ pending' = << >>
        \/ eol = <<CR, LF>> /\ pending = eol /\ Fed = CR /\ pending' = <<LF>>
        \/ eol = <<CR, LF>> /\ pending = <<LF>> /\ Fed = LF /\ pending' = << >>
    BY <1>1, <2>1, FedFacts DEF CliInv
  <2>3. /\ pending' = << >> \/ (eol' = <<CR, LF>> /\ pending' = <<LF>>)
        /\ Fed \in {CR, LF} => Fed \notin Plain
        /\ eol = <<LF>> => Fed # CR
    BY <2>1, <2>2, ShortSeqs, Characters
  \* While a plain character is fed no Enter is under way.
  <2>4. ASSUME Fed \in Plain, leaving => leaving' PROVE EnterInv'
    <3>1. ~(key = eol /\ ~leaving)
      BY <1>1, <2>1, <2>2, <2>3, <2>4, Characters DEF CliInv, EnterInv
    <3> QED
      BY <2>1, <2>4, <3>1 DEF EnterInv
  <2>5. ASSUME Ignored, Fed \in Plain PROVE CliInv'
    <3>1. /\ cl_enabled' = cl_enabled /\ cl_count' = cl_count /\ cl_buf' = cl_buf
          /\ shown' = shown /\ ran' = ran /\ prompts' = prompts /\ leaving' = leaving
      BY <2>5 DEF Ignored, edit
    <3>2. EnterInv'
      BY <2>4, <2>5, <3>1
    <3> QED
      BY <1>1, <2>1, <2>3, <3>1, <3>2 DEF CliInv, CliType, LineInv, ShownIsRun
  <2>6. CASE Fed \in {CR, LF} /\ RunLine
    <3> DEFINE b == Terminated
               word == FirstWord(b)
    <3>1. /\ cl_count # 0 /\ cl_count \in 0 .. CL_SIZE
          /\ ran' = IF word \in {<<EXIT>>, <<SAVE>>} THEN [name |-> word, shown |-> shown] ELSE ran
          /\ cl_buf' = [i \in 0 .. CL_SIZE |-> IF i = 0 THEN Fed ELSE IF i < CL_SIZE THEN NUL ELSE b[CL_SIZE]]
      BY <1>1, <2>6 DEF RunLine, CliInv, CliType
    <3>2. \/ cl_enabled' = FALSE /\ leaving' = TRUE /\ shown' = << >> /\ UNCHANGED <<cl_count, prompts>>
          \/ cl_count' = 0 /\ cl_enabled' = TRUE /\ shown' = << >> /\ prompts' = prompts + 1
                /\ leaving' = leaving
      BY <2>6 DEF RunLine, cli_cmd_exit, cli_prompt
    <3>3. /\ cl_buf'[0] = Fed /\ cl_buf' = [i \in 0 .. CL_SIZE |-> cl_buf'[i]]
      BY <3>1, CliAssumption
    <3>4. CliType'
      <4>1. cl_count' \in 0 .. CL_SIZE
        BY <3>1, <3>2, CliAssumption
      <4>2. cl_enabled' \in BOOLEAN /\ leaving' \in BOOLEAN
        BY <1>1, <3>2 DEF CliInv, CliType
      <4> QED
        BY <1>1, <2>1, <2>3, <3>3, <4>1, <4>2 DEF CliInv, CliType
    <3>5. LineInv'
      <4>1. CASE cl_enabled' = FALSE /\ shown' = << >> /\ cl_count' = cl_count
        BY <2>6, <3>1, <3>3, <4>1 DEF LineInv
      <4>2. CASE cl_count' = 0 /\ shown' = << >>
        <5>1. shown' = [i \in 1 .. cl_count' |-> cl_buf'[i - 1]]
          BY <4>2
        <5> QED
          BY <4>2, <5>1 DEF LineInv
      <4> QED
        BY <3>2, <4>1, <4>2
    <3>6. EnterInv'
      <4>1. SUFFICES ASSUME key = eol, ~leaving, ~leaving' PROVE EnterInv'
        BY <2>1, <3>2 DEF EnterInv
      <4>2. cl_count' = 0 /\ cl_enabled' = TRUE /\ prompts' = prompts + 1
        BY <3>2, <4>1
      <4>3. pending = eol /\ prompts = 0
        BY <1>1, <2>1, <3>1, <4>1 DEF CliInv, EnterInv
      <4>4. pending' = << >> \/ (eol = <<CR, LF>> /\ Fed = CR /\ pending' = <<LF>>)
        BY <2>2, <2>3, <2>6, <4>3, ShortSeqs
      <4> QED
        BY <2>1, <3>3, <4>2, <4>3, <4>4 DEF EnterInv
    <3>7. ShownIsRun'
      <4>1. CASE word \notin {<<EXIT>>, <<SAVE>>}
        BY <1>1, <3>1, <4>1 DEF CliInv, ShownIsRun
      <4>2. CASE word \in {<<EXIT>>, <<SAVE>>}
        <5>1. PICK c \in Letter : word = <<c>>
          BY <4>2, Characters
        <5> HIDE DEF b
        <5>2. b[0] = c /\ (CL_SIZE = 1 \/ b[1] \in {SP, NUL})
          BY <5>1, OneLetter
        <5> USE DEF b
        <5>3. /\ cl_buf[0] = c
              /\ cl_count > 1 => cl_buf[1] \in {SP, NUL}
          BY <1>1, <3>1, <5>2, CliAssumption DEF CliInv, CliType, Terminated
        <5>4. /\ shown = [i \in 1 .. cl_count |-> cl_buf[i - 1]]
              /\ \A i \in 0 .. cl_count - 1 : cl_buf[i] \in Letter \cup {SP}
          BY <1>1, <5>3, Characters DEF CliInv, LineInv
        <5>5. /\ cl_count > 1 => cl_buf[1] = SP
          BY <3>1, <5>3, <5>4, Characters
        <5>6. ran'.name = <<c>> /\ ran'.shown = shown
          BY <3>1, <4>2, <5>1
        <5> DEFINE S == {cl_buf[i - 1] : i \in 1 .. cl_count}
        <5>7. shown \in Seq(S) /\ Len(shown) = cl_count
          <6>1. cl_count \in Nat /\ shown \in [1 .. cl_count -> S]
            BY <3>1, <5>4
          <6> HIDE DEF S
          <6> QED
            BY <6>1, LenFcn
        <5>8. shown[1] = c /\ (cl_count > 1 => shown[2] = SP)
          BY <3>1, <5>3, <5>4, <5>5
        <5>9. SubSeq(shown, 1, 1) = <<c>>
          <6>0. cl_count \in Nat /\ 1 \in 1 .. cl_count
            BY <3>1, CliAssumption
          <6>1. shown[1] \in S /\ 1 \in 1 .. cl_count
            BY <5>4, <6>0
          <6> HIDE DEF S
          <6>2. SubSeq(shown, 1, 1) = <<shown[1]>>
            BY <5>7, <6>1, FirstOne
          <6> QED
            BY <5>8, <6>2
        <5> QED
          BY <3>1, <5>6, <5>7, <5>8, <5>9 DEF ShownIsRun
      <4> QED
        BY <4>1, <4>2
    <3> QED
      BY <3>4, <3>5, <3>6, <3>7 DEF CliInv
  <2>7. CASE Fed \in {CR, LF} /\ EmptyLine
    <3>1. cl_count = 0 /\ leaving' = leaving /\ ran' = ran /\ cl_enabled' = TRUE /\ cl_count' = 0
      BY <2>7 DEF EmptyLine, cli_prompt
    <3>2. \/ Fed = LF /\ cl_buf[0] = CR /\ UNCHANGED <<cl_buf, shown, prompts>>
          \/ /\ ~(Fed = LF /\ cl_buf[0] = CR)
             /\ cl_buf' = [cl_buf EXCEPT ![0] = Fed] /\ shown' = << >> /\ prompts' = prompts + 1
      BY <2>7 DEF EmptyLine, cli_prompt
    <3>3. cl_buf' = [i \in 0 .. CL_SIZE |-> cl_buf'[i]] /\ cl_buf'[0] \in {Fed, cl_buf[0]}
          /\ (prompts' # prompts => cl_buf'[0] = Fed)
      BY <1>1, <3>2, CliAssumption DEF CliInv, CliType
    <3>4. CliType'
      BY <1>1, <2>1, <2>3, <3>1, <3>3, CliAssumption DEF CliInv, CliType
    <3>5. shown' = << >>
      <4>1. cl_count = 0 => shown = << >>
        BY <1>1 DEF CliInv, LineInv
      <4> QED
        BY <3>1, <3>2, <4>1
    <3>6. LineInv' /\ ShownIsRun'
      <4>1. shown' = [i \in 1 .. cl_count' |-> cl_buf'[i - 1]]
        BY <3>1, <3>5
      <4> QED
        BY <1>1, <3>1, <4>1 DEF CliInv, LineInv, ShownIsRun
    <3>7. EnterInv'
      <4>1. SUFFICES ASSUME key = eol, ~leaving PROVE EnterInv'
        BY <2>1, <3>1 DEF EnterInv
      <4>2. CASE pending = eol /\ prompts = 0
        <5>1. ~(Fed = LF /\ cl_buf[0] = CR)
          BY <1>1, <2>2, <4>2, ShortSeqs, Characters DEF CliInv, CliType
        <5>2. cl_buf'[0] = Fed /\ prompts' = 1
          BY <1>1, <3>2, <4>2, <5>1, CliAssumption DEF CliInv, CliType
        <5>3. pending' = << >> \/ (eol = <<CR, LF>> /\ Fed = CR /\ pending' = <<LF>>)
          BY <2>2, <2>3, <2>7, <4>2, ShortSeqs
        <5> QED
          BY <2>1, <3>1, <5>2, <5>3 DEF EnterInv
      <4>3. CASE eol = <<CR, LF>> /\ pending = <<LF>> /\ prompts = 1 /\ cl_buf[0] = CR
        <5>1. Fed = LF /\ pending' = << >>
          BY <2>2, <2>3, <2>7, <4>3, ShortSeqs
        <5> QED
          BY <2>1, <3>1, <3>2, <4>3, <5>1 DEF EnterInv
      <4> QED
        BY <1>1, <2>1, <4>1, <4>2, <4>3 DEF CliInv, EnterInv
    <3> QED
      BY <3>4, <3>6, <3>7 DEF CliInv
  <2>8. CASE CtrlD \/ ClearScreen \/ Backspace \/ Printable \/ (Fed = TAB /\ Ignored)
    <3>0. Fed \in Plain
      BY <2>8 DEF CtrlD, ClearScreen, Backspace, Printable, Plain
    <3>1. CASE Ignored
      BY <2>5, <3>0, <3>1
    <3>2. CASE CtrlD /\ cl_count = 0
      <4>1. cl_enabled' = FALSE /\ leaving' = TRUE /\ UNCHANGED <<cl_count, cl_buf, shown, ran, prompts>>
        BY <3>2 DEF CtrlD, cli_cmd_exit
      <4>2. CliType'
        BY <1>1, <2>1, <2>3, <4>1 DEF CliInv, CliType
      <4>3. LineInv' /\ ShownIsRun'
        BY <1>1, <3>2, <4>1 DEF CliInv, LineInv, ShownIsRun
      <4> QED
        BY <2>4, <3>0, <4>1, <4>2, <4>3 DEF CliInv
    <3>3. CASE ClearScreen
      <4>1. /\ cl_count' = 0 /\ cl_enabled' = TRUE /\ shown' = << >> /\ UNCHANGED <<cl_buf, ran, leaving>>
        BY <3>3 DEF ClearScreen, cli_prompt
      <4>2. CliType'
        BY <1>1, <2>1, <2>3, <4>1, CliAssumption DEF CliInv, CliType
      <4>3. LineInv' /\ ShownIsRun'
        <5>1. shown' = [i \in 1 .. cl_count' |-> cl_buf'[i - 1]]
          BY <4>1
        <5> QED
          BY <1>1, <4>1, <5>1 DEF CliInv, LineInv, ShownIsRun
      <4> QED
        BY <2>4, <3>0, <4>1, <4>2, <4>3 DEF CliInv
    <3>4. CASE Backspace /\ cl_count > 0 /\ cl_enabled
      <4>1. /\ cl_count' = cl_count - 1 /\ cl_buf' = [cl_buf EXCEPT ![cl_count - 1] = NUL]
            /\ shown' = SubSeq(shown, 1, Len(shown) - 1)
            /\ UNCHANGED <<cl_enabled, ran, prompts, leaving>>
        BY <3>4 DEF Backspace, Front
      <4>2. cl_count \in 1 .. CL_SIZE /\ cl_count' \in 0 .. CL_SIZE
        BY <1>1, <3>4, <4>1, CliAssumption DEF CliInv, CliType
      <4>3. /\ cl_buf' = [i \in 0 .. CL_SIZE |-> cl_buf'[i]]
            /\ \A i \in 0 .. cl_count - 2 : cl_buf'[i] = cl_buf[i]
            /\ cl_buf'[0] \in {cl_buf[0], NUL}
        <5> DEFINE n == cl_count - 1
        <5>1. CL_SIZE \in Nat /\ n \in 0 .. CL_SIZE /\ 0 \in 0 .. CL_SIZE
          BY <4>2, CliAssumption
        <5>2. cl_buf = [i \in 0 .. CL_SIZE |-> cl_buf[i]]
          BY <1>1 DEF CliInv, CliType
        <5>3. \A i \in 0 .. cl_count - 2 : i \in 0 .. CL_SIZE /\ i # n
          BY <4>2, CliAssumption
        <5> HIDE DEF n
        <5>4. /\ cl_buf' = [i \in 0 .. CL_SIZE |-> cl_buf'[i]] /\ cl_buf'[n] = NUL
              /\ \A i \in 0 .. CL_SIZE : i # n => cl_buf'[i] = cl_buf[i]
          BY <4>1, <5>1, <5>2, BufPut DEF n
        <5> QED
          BY <5>1, <5>3, <5>4
      <4>4. CliType'
        <5>1. NUL # CR
          BY DEF NUL, CR
        <5> QED
          BY <1>1, <2>1, <2>3, <4>1, <4>2, <4>3, <5>1 DEF CliInv, CliType
      <4>5. /\ shown = [i \in 1 .. cl_count |-> cl_buf[i - 1]]
            /\ cl_buf[0] \in Letter
            /\ \A i \in 0 .. cl_count - 1 : cl_buf[i] \in Letter \cup {SP}
        BY <1>1, <3>4 DEF CliInv, LineInv
      <4>6. shown' = [i \in 1 .. cl_count' |-> cl_buf'[i - 1]]
        BY <4>1, <4>2, <4>3, <4>5, LineFront
      <4>7. LineInv'
        <5>1. /\ cl_count' > 0 => cl_buf'[0] \in Letter
              /\ \A i \in 0 .. cl_count' - 1 : cl_buf'[i] \in Letter \cup {SP}
          BY <4>1, <4>2, <4>3, <4>5
        <5> QED
          BY <4>6, <5>1 DEF LineInv
      <4> QED
        BY <1>1, <2>4, <3>0, <4>1, <4>4, <4>7 DEF CliInv, ShownIsRun
    <3>5. CASE Printable /\ cl_enabled /\ cl_count < CL_SIZE /\ ~(cl_count = 0 /\ Fed = SP)
      <4>1. /\ cl_count' = cl_count + 1 /\ cl_buf' = [cl_buf EXCEPT ![cl_count] = Fed]
            /\ shown' = Append(shown, Fed)
            /\ UNCHANGED <<cl_enabled, ran, prompts, leaving>>
            /\ Fed \in Letter \cup {SP}
        BY <3>5 DEF Printable
      <4>2. cl_count \in 0 .. CL_SIZE - 1 /\ cl_count' \in 1 .. CL_SIZE
        BY <1>1, <3>5, <4>1, CliAssumption DEF CliInv, CliType
      <4>3. /\ cl_buf' = [i \in 0 .. CL_SIZE |-> cl_buf'[i]]
            /\ \A i \in 0 .. cl_count - 1 : cl_buf'[i] = cl_buf[i]
            /\ cl_buf'[cl_count] = Fed
        <5>1. CL_SIZE \in Nat /\ cl_count \in 0 .. CL_SIZE
          BY <4>2, CliAssumption
        <5>2. cl_buf = [i \in 0 .. CL_SIZE |-> cl_buf[i]]
          BY <1>1 DEF CliInv, CliType
        <5>3. \A i \in 0 .. cl_count - 1 : i \in 0 .. CL_SIZE /\ i # cl_count
          BY <4>2, CliAssumption
        <5>4. /\ cl_buf' = [i \in 0 .. CL_SIZE |-> cl_buf'[i]] /\ cl_buf'[cl_count] = Fed
              /\ \A i \in 0 .. CL_SIZE : i # cl_count => cl_buf'[i] = cl_buf[i]
          BY <4>1, <5>1, <5>2, BufPut
        <5> QED
          BY <5>3, <5>4
      <4>5. /\ shown = [i \in 1 .. cl_count |-> cl_buf[i - 1]]
            /\ cl_count > 0 => cl_buf[0] \in Letter
            /\ \A i \in 0 .. cl_count - 1 : cl_buf[i] \in Letter \cup {SP}
        BY <1>1, <3>5 DEF CliInv, LineInv
      <4>4. /\ cl_buf'[0] \in Letter
            /\ \A i \in 0 .. cl_count' - 1 : cl_buf'[i] \in Letter \cup {SP}
        <5>1. CASE cl_count = 0
          BY <3>5, <4>1, <4>2, <4>3, <5>1
        <5>2. CASE cl_count > 0
          BY <4>1, <4>2, <4>3, <4>5, <5>2
        <5>3. cl_count = 0 \/ cl_count > 0
          BY <4>2, CliAssumption
        <5> QED
          BY <5>1, <5>2, <5>3
      <4>6. shown' = [i \in 1 .. cl_count' |-> cl_buf'[i - 1]]
        BY <4>1, <4>2, <4>3, <4>5, LineAppend
      <4>7. LineInv'
        BY <4>4, <4>6 DEF LineInv
      <4>8. CliType'
        <5>1. cl_buf'[0] # CR /\ cl_count' \in 0 .. CL_SIZE
          BY <4>2, <4>4, CliAssumption, Characters
        <5> QED
          BY <1>1, <2>1, <2>3, <4>1, <4>3, <5>1 DEF CliInv, CliType
      <4> QED
        BY <1>1, <2>4, <3>0, <4>1, <4>7, <4>8 DEF CliInv, ShownIsRun
    <3>6. cl_enabled \/ Ignored
      BY <1>3, <2>3, <3>0, Characters DEF cli_feed
    <3> QED
      BY <2>8, <3>1, <3>2, <3>3, <3>4, <3>5, <3>6 DEF CtrlD, Backspace, Printable
  <2>9. Ignored /\ ~cl_enabled /\ Fed \notin {CR, LF} => CliInv'
    BY <2>2, <2>5
  <2> QED
    BY <1>3, <2>6, <2>7, <2>8, <2>9 DEF cli_feed, Enter
<1> QED
  BY <1>1, <1>2, <1>3 DEF CliNext

(* The line on the screen is the line that is run. *)
THEOREM LineOnScreenIsRun == CliSpec => []EnterRunsShown
<1>1. CliInit => CliInv
  <2>1. SUFFICES ASSUME CliInit PROVE CliInv
    OBVIOUS
  <2>2. CliType
    <3>1. cl_buf[0] = NUL /\ cl_count \in 0 .. CL_SIZE /\ cl_buf = [i \in 0 .. CL_SIZE |-> cl_buf[i]]
      BY <2>1, CliAssumption DEF CliInit
    <3>2. NUL # CR /\ cl_enabled \in BOOLEAN /\ leaving \in BOOLEAN
      BY <2>1 DEF CliInit, NUL, CR
    <3> QED
      BY <2>1, <3>1, <3>2 DEF CliInit, CliType
  <2>3. LineInv
    <3>1. shown = [i \in 1 .. cl_count |-> cl_buf[i - 1]]
      BY <2>1 DEF CliInit
    <3> QED
      BY <2>1, <3>1 DEF CliInit, LineInv
  <2>4. EnterInv /\ ShownIsRun
    <3>1. key # eol
      BY <2>1, ShortSeqs DEF CliInit
    <3> QED
      BY <2>1, <3>1 DEF CliInit, EnterInv, ShownIsRun
  <2> QED
    BY <2>2, <2>3, <2>4 DEF CliInv
<1>2. CliInv => EnterRunsShown
  <2>1. SUFFICES ASSUME CliInv, pending = << >>, key = eol, ~leaving
                 PROVE  prompts = 1 /\ cl_enabled /\ cl_count = 0
    BY DEF CliInv, EnterRunsShown, EnterOnce
  <2>2. << >> # eol /\ << >> # <<LF>>
    <3>1. eol \in {<<CR>>, <<LF>>, <<CR, LF>>}
      BY <2>1 DEF CliInv, CliType
    <3> QED
      BY <3>1, ShortSeqs
  <2> QED
    BY <2>1, <2>2 DEF CliInv, EnterInv
<1> QED
  BY <1>1, <1>2, CliStep, PTL DEF CliSpec

-----------------------------------------------------------------------------
(* The serial ports: how a byte passes from one place to the next. *)

(* The byte in the shift register is sent. *)
LEMMA PassSent ==
    ASSUME NEW S, NEW a \in Seq(S), NEW x \in S, NEW r \in Seq(S)
    PROVE  a \o (<<x>> \o r) = Append(a, x) \o (<< >> \o r)
<1>1. <<x>> \in Seq(S)
  OBVIOUS
<1>2. Append(a, x) = a \o <<x>> /\ << >> \o r = r
  BY AppendIsConcat, ConcatEmptySeq
<1> DEFINE u == <<x>>
<1> HIDE DEF u
<1>3. u \in Seq(S)
  BY <1>1 DEF u
<1>4. (a \o u) \o r = a \o (u \o r)
  BY <1>3, ConcatAssociative
<1> QED
  BY <1>2, <1>4 DEF u

(* A sequence is its first element and the rest. *)
LEMMA HeadAndTail ==
    ASSUME NEW S, NEW q \in Seq(S), q # << >>
    PROVE  q = <<Head(q)>> \o Tail(q) /\ <<Head(q)>> \in Seq(S) /\ Tail(q) \in Seq(S)
<1> DEFINE n == Len(q)
<1>1. n \in Nat \ {0} /\ 1 \in 1 .. n /\ n \in 1 .. n
  BY EmptySeq
<1> HIDE DEF n
<1>2. SubSeq(q, 1, n) = <<q[1]>> \o SubSeq(q, 2, n)
  <2>1. 1 \in 1 .. Len(q) /\ n \in 1 .. Len(q)
    BY <1>1 DEF n
  <2> QED
    BY <2>1, SubSeqRecursiveFirst
<1>3. SubSeq(q, 1, n) = q /\ SubSeq(q, 2, n) = Tail(q)
  BY SubSeqFull, TailIsSubSeq DEF n
<1>4. Head(q) = q[1] /\ Tail(q) \in Seq(S) /\ Head(q) \in S
  <2>1. 1 \in 1 .. Len(q) /\ n \in 1 .. Len(q)
    BY <1>1 DEF n
  <2>2. Head(SubSeq(q, 1, n)) = q[1]
    BY <2>1, HeadTailOfSubSeq
  <2> QED
    BY <1>3, <2>2, HeadTailProperties
<1> QED
  BY <1>2, <1>3, <1>4

(* The first byte of a transfer, or of the transmit queue, goes to the data register. *)
LEMMA PassFirst ==
    ASSUME NEW S, NEW q \in Seq(S), q # << >>, NEW r \in Seq(S)
    PROVE  << >> \o (q \o r) = <<Head(q)>> \o (Tail(q) \o r)
<1> DEFINE u == <<Head(q)>>
           t == Tail(q)
<1>1. q = u \o t /\ u \in Seq(S) /\ t \in Seq(S)
  BY HeadAndTail
<1> HIDE DEF u, t
<1>2. (u \o t) \o r = u \o (t \o r) /\ q \o r \in Seq(S)
  BY <1>1, ConcatAssociative, ConcatProperties
<1>3. << >> \o (q \o r) = q \o r
  BY <1>2, ConcatEmptySeq
<1>4. << >> \o (q \o r) = u \o (t \o r)
  BY <1>1, <1>2, <1>3
<1> QED
  BY <1>4 DEF u, t

(* The first byte of a message goes to the transmit queue. *)
LEMMA PassQueued ==
    ASSUME NEW S, NEW q \in Seq(S), NEW m \in Seq(S), m # << >>
    PROVE  q \o m = Append(q, Head(m)) \o Tail(m)
<1> DEFINE u == <<Head(m)>>
           t == Tail(m)
<1>1. m = u \o t /\ u \in Seq(S) /\ t \in Seq(S) /\ Head(m) \in S
  BY HeadAndTail, HeadTailProperties
<1>2. Append(q, Head(m)) = q \o u
  BY <1>1, AppendIsConcat
<1> HIDE DEF u, t
<1>3. (q \o u) \o t = q \o (u \o t)
  BY <1>1, ConcatAssociative
<1>4. q \o m = Append(q, Head(m)) \o t
  BY <1>1, <1>2, <1>3
<1> QED
  BY <1>4 DEF t

(* What comes first is a prefix. *)
LEMMA ConcatPrefix ==
    ASSUME NEW S, NEW a \in Seq(S), NEW r \in Seq(S)
    PROVE  IsPrefix(a, a \o r)
<1> DEFINE n == Len(a)
           k == Len(r)
           c == a \o r
<1>1. n \in Nat /\ k \in Nat /\ Len(c) = n + k /\ c \in Seq(S)
  BY LenProperties, ConcatProperties
<1>2. SubSeq(a, 1, n) = SubSeq(c, 1, n)
  <2>1. CASE n = 0
    <3>1. SubSeq(a, 1, 0) = << >> /\ SubSeq(c, 1, 0) = << >>
      BY SubSeqEmpty
    <3> QED
      BY <2>1, <3>1
  <2>2. CASE n # 0
    <3>1. 1 \in 1 .. n /\ n \in 1 .. n
      BY <1>1, <2>2
    <3> QED
      BY <3>1, SubSeqOfConcat1
  <2> QED
    BY <2>1, <2>2
<1> HIDE DEF n, k, c
<1>3. n <= Len(c)
  BY <1>1
<1> QED
  BY <1>2, <1>3 DEF IsPrefix, n, c

Opt(x) == IF x = NULL THEN << >> ELSE <<x>>
Moving(p) == IF dma[p] # NULL THEN dma[p] ELSE tx_q[p]
Rest(p) == IF mutex[p] # NULL /\ wpc[mutex[p]] \in {"write", "putc", "txeie"}
           THEN wmsg[mutex[p]] ELSE << >>

ISR == [port : Port, RXNE : BOOLEAN, TXE : BOOLEAN]

SerialType ==
    /\ mutex \in [Port -> Writer \cup {NULL}]
    /\ tcie_sem \in [Port -> BOOLEAN] /\ txeie \in [Port -> BOOLEAN]
    /\ tx_q \in [Port -> Seq(Byte)] /\ dma \in [Port -> Bytes \cup {NULL}]
    /\ dr \in [Port -> Byte \cup {NULL}] /\ shift \in [Port -> Byte \cup {NULL}]
    /\ sent \in [Port -> Seq(Byte)] /\ claimed \in [Port -> Seq(Byte)]
    /\ wpc \in [Writer -> {"idle", "take", "write", "sem", "putc", "txeie", "drain", "give"}]
    /\ wport \in [Writer -> Port] /\ wmsg \in [Writer -> Bytes]
    /\ writes \in [Writer -> 0 .. MaxWrites]
    /\ isr \in ISR \cup {NULL} /\ rxne \in [Port -> BOOLEAN]

\* What was handed over is on the wire, on its way, or still with the writer.
FlowInv(p) == claimed[p] = sent[p] \o (Opt(shift[p]) \o (Opt(dr[p]) \o (Moving(p) \o Rest(p))))

HolderAt(p, l) == mutex[p] # NULL /\ wpc[mutex[p]] = l

\* What each carrier implies about the writer that waits for it.
CarrierInv(p) ==
    /\ tx_dma(p) => tx_q[p] = << >>
    /\ ~tx_dma(p) => dma[p] = NULL
    /\ dma[p] # NULL => HolderAt(p, "sem") /\ ~tcie_sem[p]
    /\ tcie_sem[p] => HolderAt(p, "sem")
    /\ tx_q[p] # << >> => txeie[p] \/ HolderAt(p, "txeie")
    /\ (isr # NULL /\ isr.port = p /\ isr.TXE /\ ~tx_dma(p)) => dr[p] = NULL

\* A writer holds the mutex of its port from the write to the give.
WriterInv(w) ==
    /\ wpc[w] \in {"write", "sem", "putc", "txeie", "drain", "give"} <=> mutex[wport[w]] = w
    /\ \A p \in Port : mutex[p] = w => wport[w] = p
    /\ wpc[w] = "sem" => dma[wport[w]] # NULL \/ tcie_sem[wport[w]]
    /\ wpc[w] \in {"putc", "txeie"} => ~tx_dma(wport[w])
    /\ wpc[w] \in {"write", "putc"} => wmsg[w] # << >>

SendInv == /\ SerialType /\ (\A p \in Port : FlowInv(p) /\ CarrierInv(p))
           /\ \A w \in Writer : WriterInv(w)

ReceiveInv ==
    /\ rx_q \in [Port -> 0 .. SERIAL_RX_SIZE] /\ qs \in Seq(Port)
    /\ mpc \in {"select", "get"} /\ (mpc = "get" => active \in Port)
    /\ \A p \in Port : Entries(p) + (IF mpc = "get" /\ active = p THEN 1 ELSE 0) <= rx_q[p]
    /\ \A p \in Read \cap Port : Entries(p) + (IF mpc = "get" /\ active = p THEN 1 ELSE 0) = rx_q[p]

(* A port that a step leaves alone, with its holder. *)
LEMMA PortFrame ==
    ASSUME NEW q \in Port, FlowInv(q), CarrierInv(q),
           mutex'[q] = mutex[q], tcie_sem'[q] = tcie_sem[q], txeie'[q] = txeie[q], tx_q'[q] = tx_q[q],
           dma'[q] = dma[q], dr'[q] = dr[q], shift'[q] = shift[q], sent'[q] = sent[q],
           claimed'[q] = claimed[q],
           mutex[q] # NULL => wpc'[mutex[q]] = wpc[mutex[q]] /\ wmsg'[mutex[q]] = wmsg[mutex[q]],
           isr' = isr \/ isr' = NULL \/ isr'.port # q \/ (isr'.TXE => dr[q] = NULL)
    PROVE  FlowInv(q)' /\ CarrierInv(q)'
<1>1. Rest(q)' = Rest(q) /\ Moving(q)' = Moving(q)
  BY DEF Rest, Moving
<1>2. FlowInv(q)'
  BY <1>1 DEF FlowInv
<1>3. \A l : HolderAt(q, l)' <=> HolderAt(q, l)
  BY DEF HolderAt
<1>4. CarrierInv(q)'
  BY <1>3 DEF CarrierInv
<1> QED
  BY <1>2, <1>4

(* A writer that a step leaves alone. *)
LEMMA WriterFrame ==
    ASSUME NEW v \in Writer, WriterInv(v), wport[v] \in Port,
           wpc'[v] = wpc[v], wport'[v] = wport[v], wmsg'[v] = wmsg[v],
           \A q \in Port : mutex'[q] = v <=> mutex[q] = v,
           wpc[v] = "sem" /\ (dma[wport[v]] # NULL \/ tcie_sem[wport[v]])
              => (dma'[wport[v]] # NULL \/ tcie_sem'[wport[v]])
    PROVE  WriterInv(v)'
  BY DEF WriterInv

(* The holder of a port is the writer that is between write and give there. *)
LEMMA Holders ==
    ASSUME SendInv, NEW w \in Writer
    PROVE  /\ wport[w] \in Port /\ w # NULL
           /\ wpc[w] \in {"idle", "take"} => \A q \in Port : mutex[q] # w
           /\ wpc[w] \notin {"idle", "take"}
                => mutex[wport[w]] = w /\ \A q \in Port \ {wport[w]} : mutex[q] # w
<1>1. wport[w] \in Port /\ w # NULL /\ WriterInv(w)
  BY NullAssumption DEF SendInv, SerialType
<1>2. wpc[w] \in {"idle", "take", "write", "sem", "putc", "txeie", "drain", "give"}
  BY DEF SendInv, SerialType
<1> QED
  BY <1>1, <1>2 DEF WriterInv

(* What is in a message, and in a register. *)
LEMMA BytesFacts ==
    /\ Bytes \subseteq Seq(Byte) /\ NULL \notin Bytes /\ NULL \notin Byte /\ << >> \in Bytes
    /\ \A m \in Bytes : m # << >> => Tail(m) \in Bytes /\ Head(m) \in Byte
<1>1. ASSUME NEW n \in 0 .. 2, NEW m \in [1 .. n -> Byte] PROVE m \in Seq(Byte) /\ Len(m) = n
  BY LenFcn
<1>2. Bytes \subseteq Seq(Byte)
  BY <1>1 DEF Bytes
<1>3. ASSUME NEW m \in Bytes, m # << >> PROVE Tail(m) \in Bytes /\ Head(m) \in Byte
  <2>1. PICK n \in 0 .. 2 : m \in [1 .. n -> Byte]
    BY DEF Bytes
  <2>2. m \in Seq(Byte) /\ Len(m) = n
    BY <1>1, <2>1
  <2>3. /\ Head(m) \in Byte /\ Tail(m) \in Seq(Byte) /\ Len(Tail(m)) = n - 1
    BY <1>3, <2>2, HeadTailProperties
  <2>4. n - 1 \in 0 .. 2
    <3>1. Len(m) # 0
      BY <1>3, <2>2, EmptySeq
    <3> QED
      BY <2>2, <3>1
  <2>5. Tail(m) \in [1 .. n - 1 -> Byte]
    BY <2>3, LenProperties
  <2> QED
    BY <2>3, <2>4, <2>5 DEF Bytes
<1>4. << >> \in Bytes
  <2>1. << >> \in [1 .. 0 -> Byte] /\ 0 \in 0 .. 2
    OBVIOUS
  <2> QED
    BY <2>1 DEF Bytes
<1> QED
  BY <1>2, <1>3, <1>4, NullAssumption

(* The places of a port hold sequences of bytes. *)
LEMMA Places ==
    ASSUME SendInv, NEW p \in Port
    PROVE  /\ sent[p] \in Seq(Byte) /\ Opt(shift[p]) \in Seq(Byte) /\ Opt(dr[p]) \in Seq(Byte)
           /\ Moving(p) \in Seq(Byte) /\ Rest(p) \in Seq(Byte)
<1>1. << >> \in Seq(Byte) /\ \A x \in Byte : <<x>> \in Seq(Byte)
  OBVIOUS
<1>2. sent[p] \in Seq(Byte) /\ tx_q[p] \in Seq(Byte) /\ dma[p] \in Bytes \cup {NULL}
      /\ shift[p] \in Byte \cup {NULL} /\ dr[p] \in Byte \cup {NULL}
      /\ mutex[p] \in Writer \cup {NULL}
  BY DEF SendInv, SerialType
<1>3. Opt(shift[p]) \in Seq(Byte) /\ Opt(dr[p]) \in Seq(Byte)
  BY <1>1, <1>2 DEF Opt
<1>4. Moving(p) \in Seq(Byte)
  BY <1>2, BytesFacts DEF Moving
<1>5. Rest(p) \in Seq(Byte)
  BY <1>1, <1>2, BytesFacts DEF Rest, SendInv, SerialType
<1> QED
  BY <1>2, <1>3, <1>4, <1>5

(* The DMA channel moves a byte. *)
LEMMA DmaMoveStep == ASSUME SendInv, NEW p \in Port, DmaMove(p) PROVE SendInv'
<1>1. /\ dma[p] \in Bytes /\ dma[p] # NULL /\ dma[p] # << >> /\ dr[p] = NULL
      /\ Tail(dma[p]) \in Bytes /\ Head(dma[p]) \in Byte /\ Head(dma[p]) # NULL /\ Tail(dma[p]) # NULL
  <2>1. dma[p] \in Bytes /\ dma[p] # NULL /\ dma[p] # << >> /\ dr[p] = NULL
    BY DEF SendInv, SerialType, DmaMove
  <2> QED
    BY <2>1, BytesFacts
<1>2. /\ UNCHANGED <<rxne, mutex, tcie_sem, txeie, tx_q, shift, sent, claimed, wpc, wport, wmsg, writes, isr>>
      /\ dr' = [dr EXCEPT ![p] = Head(dma[p])] /\ dma' = [dma EXCEPT ![p] = Tail(dma[p])]
  BY DEF DmaMove, writers
<1>3. SerialType'
  BY <1>1, <1>2 DEF SendInv, SerialType
<1>4. /\ dr'[p] = Head(dma[p]) /\ dma'[p] = Tail(dma[p])
      /\ \A q \in Port \ {p} : dr'[q] = dr[q] /\ dma'[q] = dma[q]
  BY <1>2 DEF SendInv, SerialType
<1>5. ASSUME NEW q \in Port \ {p} PROVE FlowInv(q)' /\ CarrierInv(q)'
  BY <1>2, <1>4, PortFrame DEF SendInv
<1>6. FlowInv(p)'
  <2> DEFINE q == dma[p]
             r == Rest(p)
  <2>1. /\ Rest(p)' = r /\ Moving(p)' = Tail(q) /\ Moving(p) = q
        /\ Opt(dr[p]) = << >> /\ Opt(dr'[p]) = <<Head(q)>>
    BY <1>1, <1>2, <1>4 DEF Rest, Moving, Opt
  <2>2. << >> \o (q \o r) = <<Head(q)>> \o (Tail(q) \o r)
    BY <1>1, Places, PassFirst, BytesFacts
  <2> QED
    BY <1>2, <2>1, <2>2 DEF FlowInv, SendInv
<1>7. CarrierInv(p)'
  BY <1>1, <1>2, <1>4 DEF CarrierInv, SendInv, HolderAt
<1>8. ASSUME NEW v \in Writer PROVE WriterInv(v)'
  BY <1>1, <1>2, <1>4, Holders, WriterFrame DEF SendInv
<1> QED
  BY <1>3, <1>5, <1>6, <1>7, <1>8 DEF SendInv

(* The end of a transfer. *)
LEMMA TransferEnds == ASSUME SendInv, NEW p \in Port, usart_tcie(p) PROVE SendInv'
<1>1. /\ dma[p] = << >> /\ dma[p] # NULL
  BY BytesFacts DEF usart_tcie
<1>2. /\ UNCHANGED <<rxne, mutex, txeie, tx_q, dr, shift, sent, claimed, wpc, wport, wmsg, writes, isr>>
      /\ dma' = [dma EXCEPT ![p] = NULL] /\ tcie_sem' = [tcie_sem EXCEPT ![p] = TRUE]
  BY DEF usart_tcie, writers
<1>3. SerialType'
  <2>1. TRUE \in BOOLEAN /\ NULL \in Bytes \cup {NULL}
    OBVIOUS
  <2>2. tcie_sem' \in [Port -> BOOLEAN] /\ dma' \in [Port -> Bytes \cup {NULL}]
    BY <1>2, <2>1 DEF SendInv, SerialType
  <2> QED
    BY <1>2, <2>2 DEF SendInv, SerialType
<1>4. /\ tcie_sem'[p] = TRUE /\ dma'[p] = NULL
      /\ \A q \in Port \ {p} : tcie_sem'[q] = tcie_sem[q] /\ dma'[q] = dma[q]
  BY <1>2 DEF SendInv, SerialType
<1>5. ASSUME NEW q \in Port \ {p} PROVE FlowInv(q)' /\ CarrierInv(q)'
  BY <1>2, <1>4, PortFrame DEF SendInv
<1>6. HolderAt(p, "sem") /\ tx_q[p] = << >> /\ tx_dma(p)
  BY <1>1 DEF SendInv, CarrierInv
<1>7. FlowInv(p)'
  <2>1. Rest(p)' = Rest(p) /\ Moving(p)' = Moving(p)
    BY <1>1, <1>2, <1>4, <1>6 DEF Rest, Moving
  <2> QED
    BY <1>2, <2>1 DEF FlowInv, SendInv
<1>8. CarrierInv(p)'
  BY <1>2, <1>4, <1>6 DEF CarrierInv, SendInv, HolderAt
<1>9. ASSUME NEW v \in Writer PROVE WriterInv(v)'
  BY <1>1, <1>2, <1>4, Holders, WriterFrame DEF SendInv
<1> QED
  BY <1>3, <1>5, <1>7, <1>8, <1>9 DEF SendInv

(* The transmitter takes a byte, and sends one. *)
LEMMA TransmitterStep ==
    ASSUME SendInv, NEW p \in Port, LoadShift(p) \/ SendByte(p) PROVE SendInv'
<1>1. CASE LoadShift(p)
  <2>1. /\ dr[p] # NULL /\ shift[p] = NULL /\ dr[p] \in Byte
    BY <1>1 DEF SendInv, SerialType, LoadShift
  <2>2. /\ UNCHANGED <<rxne, mutex, tcie_sem, txeie, tx_q, dma, sent, claimed, wpc, wport, wmsg, writes, isr>>
        /\ shift' = [shift EXCEPT ![p] = dr[p]] /\ dr' = [dr EXCEPT ![p] = NULL]
    BY <1>1 DEF LoadShift, writers
  <2>3. SerialType'
    BY <2>1, <2>2 DEF SendInv, SerialType
  <2>4. /\ dr'[p] = NULL /\ shift'[p] = dr[p]
        /\ \A q \in Port \ {p} : dr'[q] = dr[q] /\ shift'[q] = shift[q]
    BY <2>2 DEF SendInv, SerialType
  <2>5. ASSUME NEW q \in Port \ {p} PROVE FlowInv(q)' /\ CarrierInv(q)'
    BY <2>2, <2>4, PortFrame DEF SendInv
  <2>6. FlowInv(p)'
    <3> DEFINE r == Moving(p) \o Rest(p)
    <3>1. /\ Rest(p)' = Rest(p) /\ Moving(p)' = Moving(p)
          /\ Opt(dr[p]) = <<dr[p]>> /\ Opt(dr'[p]) = << >>
          /\ Opt(shift[p]) = << >> /\ Opt(shift'[p]) = <<dr[p]>>
      BY <2>1, <2>2, <2>4 DEF Rest, Moving, Opt
    <3>2. r \in Seq(Byte) /\ <<dr[p]>> \in Seq(Byte)
      BY <2>1, Places, ConcatProperties
    <3>3. << >> \o (<<dr[p]>> \o r) = <<dr[p]>> \o (<< >> \o r)
      <4> DEFINE u == <<dr[p]>>
      <4> HIDE DEF r, u
      <4>1. u \in Seq(Byte) /\ r \in Seq(Byte)
        BY <3>2 DEF u
      <4>2. u \o r \in Seq(Byte)
        BY <4>1, ConcatProperties
      <4>3. << >> \o (u \o r) = u \o r /\ << >> \o r = r
        BY <4>1, <4>2, ConcatEmptySeq
      <4>4. << >> \o (u \o r) = u \o (<< >> \o r)
        BY <4>3
      <4> QED
        BY <4>4 DEF u
    <3> QED
      BY <2>2, <3>1, <3>3 DEF FlowInv, SendInv
  <2>7. CarrierInv(p)'
    BY <2>2, <2>4 DEF CarrierInv, SendInv, HolderAt
  <2>8. ASSUME NEW v \in Writer PROVE WriterInv(v)'
    BY <2>2, <2>4, Holders, WriterFrame DEF SendInv
  <2> QED
    BY <2>3, <2>5, <2>6, <2>7, <2>8 DEF SendInv
<1>2. CASE SendByte(p)
  <2>1. shift[p] # NULL /\ shift[p] \in Byte /\ sent[p] \in Seq(Byte)
    BY <1>2 DEF SendInv, SerialType, SendByte
  <2>2. /\ UNCHANGED <<rxne, mutex, tcie_sem, txeie, tx_q, dma, dr, claimed, wpc, wport, wmsg, writes, isr>>
        /\ shift' = [shift EXCEPT ![p] = NULL]
        /\ sent' = [sent EXCEPT ![p] = Append(sent[p], shift[p])]
    BY <1>2 DEF SendByte, writers
  <2>3. Append(sent[p], shift[p]) \in Seq(Byte)
    BY <2>1, AppendProperties
  <2>4. SerialType'
    BY <2>2, <2>3 DEF SendInv, SerialType
  <2>5. /\ shift'[p] = NULL /\ sent'[p] = Append(sent[p], shift[p])
        /\ \A q \in Port \ {p} : sent'[q] = sent[q] /\ shift'[q] = shift[q]
    BY <2>2 DEF SendInv, SerialType
  <2>6. ASSUME NEW q \in Port \ {p} PROVE FlowInv(q)' /\ CarrierInv(q)'
    BY <2>2, <2>5, PortFrame DEF SendInv
  <2>7. FlowInv(p)'
    <3> DEFINE r == Opt(dr[p]) \o (Moving(p) \o Rest(p))
               m == Moving(p) \o Rest(p)
    <3>1. /\ Rest(p)' = Rest(p) /\ Moving(p)' = Moving(p)
          /\ Opt(shift[p]) = <<shift[p]>> /\ Opt(shift'[p]) = << >>
      BY <2>1, <2>2, <2>5 DEF Rest, Moving, Opt
    <3>2. m \in Seq(Byte)
      BY Places, ConcatProperties
    <3>3. r \in Seq(Byte)
      <4> HIDE DEF m
      <4>1. Opt(dr[p]) \o m \in Seq(Byte)
        BY <3>2, Places, ConcatProperties
      <4> QED
        BY <4>1 DEF m
    <3> HIDE DEF r
    <3>4. sent[p] \o (<<shift[p]>> \o r) = Append(sent[p], shift[p]) \o (<< >> \o r)
      <4> DEFINE a == sent[p]
                 x == shift[p]
      <4>1. a \in Seq(Byte) /\ x \in Byte
        BY <2>1
      <4> HIDE DEF a, x
      <4>2. a \o (<<x>> \o r) = Append(a, x) \o (<< >> \o r)
        BY <3>3, <4>1, PassSent
      <4> QED
        BY <4>2 DEF a, x
    <3> QED
      BY <2>2, <2>5, <3>1, <3>4 DEF FlowInv, SendInv, r
  <2>8. CarrierInv(p)'
    BY <2>2, <2>5 DEF CarrierInv, SendInv, HolderAt
  <2>9. ASSUME NEW v \in Writer PROVE WriterInv(v)'
    BY <2>2, <2>5, Holders, WriterFrame DEF SendInv
  <2> QED
    BY <2>4, <2>6, <2>7, <2>8, <2>9 DEF SendInv
<1> QED
  BY <1>1, <1>2

(* The interrupt reads SR, and then serves the transmitter. *)
LEMMA InterruptStep ==
    ASSUME SendInv, NEW p \in Port, ReadSR(p) \/ usart_irq(p) PROVE SendInv'
<1>1. CASE ReadSR(p)
  <2> DEFINE i == [port |-> p, RXNE |-> rxne[p], TXE |-> dr[p] = NULL]
  <2>1. /\ UNCHANGED <<rxne, mutex, tcie_sem, txeie, tx_q, dma, dr, shift, sent, claimed, wpc, wport, wmsg, writes>>
        /\ isr' = i
    BY <1>1 DEF ReadSR, writers
  <2>2. i.port = p /\ (i.TXE => dr[p] = NULL)
    OBVIOUS
  <2>3. isr' \in ISR
    BY <1>1 DEF ReadSR, ISR, SendInv, SerialType
  <2>4. SerialType'
    BY <2>1, <2>3 DEF SendInv, SerialType
  <2>5. ASSUME NEW q \in Port PROVE FlowInv(q)' /\ CarrierInv(q)'
    <3>1. isr'.port # q \/ (isr'.TXE => dr[q] = NULL)
      BY <2>1, <2>2
    <3> QED
      BY <2>1, <3>1, PortFrame DEF SendInv
  <2>6. ASSUME NEW v \in Writer PROVE WriterInv(v)'
    BY <2>1, Holders, WriterFrame DEF SendInv
  <2> QED
    BY <2>4, <2>5, <2>6 DEF SendInv
<1>2. CASE usart_irq(p)
  <2>1. /\ UNCHANGED <<mutex, tcie_sem, dma, shift, sent, claimed, wpc, wport, wmsg, writes>>
        /\ isr \in ISR /\ isr # NULL /\ isr.port = p /\ isr' = NULL
        /\ rxne' = [rxne EXCEPT ![p] = FALSE]
    BY <1>2 DEF usart_irq, writers, SendInv, SerialType
  <2>2. rxne' \in [Port -> BOOLEAN]
    <3>1. FALSE \in BOOLEAN
      OBVIOUS
    <3> QED
      BY <2>1, <3>1 DEF SendInv, SerialType
  <2>3. CASE isr.TXE /\ tx_q[p] # << >>
    <3>1. /\ dr' = [dr EXCEPT ![p] = Head(tx_q[p])] /\ tx_q' = [tx_q EXCEPT ![p] = Tail(tx_q[p])]
          /\ txeie' = txeie
      BY <1>2, <2>3 DEF usart_irq
    <3>2. ~tx_dma(p) /\ dma[p] = NULL /\ dr[p] = NULL
      BY <2>1, <2>3 DEF SendInv, CarrierInv
    <3>3. /\ tx_q[p] \in Seq(Byte) /\ Head(tx_q[p]) \in Byte /\ Tail(tx_q[p]) \in Seq(Byte)
          /\ Head(tx_q[p]) # NULL
      <4>1. tx_q[p] \in Seq(Byte)
        BY DEF SendInv, SerialType
      <4> QED
        BY <2>3, <4>1, HeadTailProperties, BytesFacts
    <3>4. SerialType'
      BY <2>1, <2>2, <3>1, <3>3 DEF SendInv, SerialType
    <3>5. /\ dr'[p] = Head(tx_q[p]) /\ tx_q'[p] = Tail(tx_q[p])
          /\ \A q \in Port \ {p} : dr'[q] = dr[q] /\ tx_q'[q] = tx_q[q]
      BY <3>1 DEF SendInv, SerialType
    <3>6. ASSUME NEW q \in Port \ {p} PROVE FlowInv(q)' /\ CarrierInv(q)'
      BY <2>1, <3>1, <3>5, PortFrame DEF SendInv
    <3>7. FlowInv(p)'
      <4> DEFINE q == tx_q[p]
                 m == Rest(p)
      <4>1. /\ Rest(p)' = m /\ Moving(p)' = Tail(q) /\ Moving(p) = q
            /\ Opt(dr[p]) = << >> /\ Opt(dr'[p]) = <<Head(q)>>
        BY <2>1, <3>2, <3>3, <3>5 DEF Rest, Moving, Opt
      <4>2. << >> \o (q \o m) = <<Head(q)>> \o (Tail(q) \o m)
        BY <2>3, <3>3, Places, PassFirst
      <4> QED
        BY <2>1, <4>1, <4>2 DEF FlowInv, SendInv
    <3>8. CarrierInv(p)'
      BY <2>1, <2>3, <3>1, <3>2, <3>5 DEF CarrierInv, SendInv, HolderAt
    <3>9. ASSUME NEW v \in Writer PROVE WriterInv(v)'
      BY <2>1, Holders, WriterFrame DEF SendInv
    <3> QED
      BY <3>4, <3>6, <3>7, <3>8, <3>9 DEF SendInv
  <2>4. CASE ~(isr.TXE /\ tx_q[p] # << >>)
    <3>1. dr' = dr /\ tx_q' = tx_q /\ txeie' = [txeie EXCEPT ![p] = txeie[p] /\ ~isr.TXE]
      BY <1>2, <2>4 DEF usart_irq
    <3>2. /\ txeie'[p] <=> txeie[p] /\ ~isr.TXE
          /\ \A q \in Port \ {p} : txeie'[q] = txeie[q]
      BY <3>1 DEF SendInv, SerialType
    <3>3. SerialType'
      <4>1. (txeie[p] /\ ~isr.TXE) \in BOOLEAN
        OBVIOUS
      <4>2. txeie' \in [Port -> BOOLEAN]
        BY <3>1, <4>1 DEF SendInv, SerialType
      <4> QED
        BY <2>1, <2>2, <3>1, <4>2 DEF SendInv, SerialType
    <3>4. ASSUME NEW q \in Port \ {p} PROVE FlowInv(q)' /\ CarrierInv(q)'
      BY <2>1, <3>1, <3>2, PortFrame DEF SendInv
    <3>5. FlowInv(p)'
      <4>1. Rest(p)' = Rest(p) /\ Moving(p)' = Moving(p)
        BY <2>1, <3>1 DEF Rest, Moving
      <4> QED
        BY <2>1, <3>1, <4>1 DEF FlowInv, SendInv
    <3>6. CarrierInv(p)'
      <4>1. \A l : HolderAt(p, l)' <=> HolderAt(p, l)
        BY <2>1 DEF HolderAt
      <4> QED
        BY <2>1, <2>4, <3>1, <3>2, <4>1 DEF CarrierInv, SendInv
    <3>7. ASSUME NEW v \in Writer PROVE WriterInv(v)'
      BY <2>1, Holders, WriterFrame DEF SendInv
    <3> QED
      BY <3>3, <3>4, <3>5, <3>6, <3>7 DEF SendInv
  <2> QED
    BY <2>3, <2>4
<1> QED
  BY <1>1, <1>2

(* What concerns neither the transmitters nor the writers. *)
LEMMA OtherStep ==
    ASSUME SendInv, rxne' \in [Port -> BOOLEAN],
           UNCHANGED <<mutex, tcie_sem, txeie, tx_q, dma, dr, shift, sent, claimed>>,
           UNCHANGED <<wpc, wport, wmsg, writes, isr>>
    PROVE  SendInv'
<1>1. SerialType'
  BY DEF SendInv, SerialType
<1>2. ASSUME NEW q \in Port PROVE FlowInv(q)' /\ CarrierInv(q)'
  BY PortFrame DEF SendInv
<1>3. ASSUME NEW v \in Writer PROVE WriterInv(v)'
  BY Holders, WriterFrame DEF SendInv
<1> QED
  BY <1>1, <1>2, <1>3 DEF SendInv

(* A writer calls, takes the mutex, and gives it back. *)
LEMMA MutexStep ==
    ASSUME SendInv, NEW w \in Writer,
           \/ \E p \in Port : Call(w, p, 2) \/ Call(w, p, 0)
           \/ TakeMutex(w) \/ Drain(w) \/ GiveMutex(w)
    PROVE  SendInv'
<1> DEFINE P == wport[w]
<1>0. P \in Port /\ w # NULL /\ WriterInv(w)
  BY Holders DEF SendInv
<1>1. ASSUME NEW p \in Port, NEW n \in {0, 2}, Call(w, p, n) PROVE SendInv'
  <2> DEFINE m == [i \in 1 .. n |-> <<w, writes[w], i>>]
  <2>1. /\ wpc[w] = "idle" /\ wpc' = [wpc EXCEPT ![w] = "take"]
        /\ wport' = [wport EXCEPT ![w] = p] /\ wmsg' = [wmsg EXCEPT ![w] = m]
        /\ writes' = [writes EXCEPT ![w] = writes[w] + 1] /\ writes[w] < MaxWrites
        /\ UNCHANGED <<rxne, mutex, tcie_sem, txeie, tx_q, dma, dr, shift, sent, claimed, isr>>
    BY <1>1 DEF Call, Goto, usart
  <2>2. m \in Bytes
    <3>0. writes[w] \in 0 .. MaxWrites /\ \A i \in 1 .. n : i \in 1 .. 2
      BY DEF SendInv, SerialType
    <3>1. \A i \in 1 .. n : <<w, writes[w], i>> \in Byte
      BY <3>0 DEF Byte
    <3>2. m \in [1 .. n -> Byte] /\ n \in 0 .. 2
      BY <3>1
    <3> QED
      BY <3>2 DEF Bytes
  <2>3. writes[w] + 1 \in 0 .. MaxWrites
    BY <2>1, SerialAssumption, SMTT(40) DEF SendInv, SerialType
  <2> HIDE DEF m
  <2>4. SerialType'
    BY <2>1, <2>2, <2>3 DEF SendInv, SerialType
  <2>5. /\ wpc'[w] = "take" /\ wport'[w] = p
        /\ \A v \in Writer \ {w} : wpc'[v] = wpc[v] /\ wport'[v] = wport[v] /\ wmsg'[v] = wmsg[v]
    BY <2>1 DEF SendInv, SerialType
  <2>6. \A q \in Port : mutex[q] # w /\ mutex[q] \in Writer \cup {NULL}
    BY <2>1, Holders DEF SendInv, SerialType
  <2>7. ASSUME NEW q \in Port PROVE FlowInv(q)' /\ CarrierInv(q)'
    <3>1. mutex[q] # NULL => mutex[q] \in Writer \ {w}
      BY <2>6
    <3> QED
      BY <2>1, <2>5, <3>1, PortFrame DEF SendInv
  <2>8. ASSUME NEW v \in Writer PROVE WriterInv(v)'
    <3>1. CASE v = w
      BY <2>1, <2>5, <2>6, <3>1 DEF WriterInv
    <3>2. CASE v # w
      BY <2>1, <2>5, <3>2, Holders, WriterFrame DEF SendInv
    <3> QED
      BY <3>1, <3>2
  <2> QED
    BY <2>4, <2>7, <2>8 DEF SendInv
<1>2. CASE TakeMutex(w)
  <2> DEFINE l == IF wmsg[w] = << >> THEN "drain" ELSE "write"
             c == claimed[P] \o wmsg[w]
  <2>1. /\ wpc[w] = "take" /\ mutex[P] = NULL /\ wpc' = [wpc EXCEPT ![w] = l]
        /\ mutex' = [mutex EXCEPT ![P] = w] /\ claimed' = [claimed EXCEPT ![P] = c]
        /\ UNCHANGED <<rxne, wport, wmsg, writes, tcie_sem, txeie, tx_q, dma, dr, shift, sent, isr>>
    BY <1>2 DEF TakeMutex, Goto, usart
  <2>2. claimed[P] \in Seq(Byte) /\ wmsg[w] \in Bytes /\ wmsg[w] \in Seq(Byte) /\ l \in {"drain", "write"}
    BY <1>0, BytesFacts DEF SendInv, SerialType
  <2>3. c \in Seq(Byte)
    BY <2>2, ConcatProperties
  <2>4. SerialType'
    <3> HIDE DEF c, l
    <3> QED
      BY <1>0, <2>1, <2>2, <2>3 DEF SendInv, SerialType
  <2>5. /\ wpc'[w] = l /\ mutex'[P] = w /\ claimed'[P] = c
        /\ \A v \in Writer \ {w} : wpc'[v] = wpc[v]
        /\ \A q \in Port \ {P} : mutex'[q] = mutex[q] /\ claimed'[q] = claimed[q]
    BY <1>0, <2>1 DEF SendInv, SerialType
  <2>6. \A q \in Port : mutex[q] # w /\ mutex[q] \in Writer \cup {NULL}
    BY <2>1, Holders DEF SendInv, SerialType
  <2>7. ASSUME NEW q \in Port \ {P} PROVE FlowInv(q)' /\ CarrierInv(q)'
    <3>1. mutex[q] # NULL => mutex[q] \in Writer \ {w}
      BY <2>6
    <3> QED
      BY <2>1, <2>5, <3>1, PortFrame DEF SendInv
  <2>8. FlowInv(P)'
    <3>1. Rest(P) = << >> /\ Rest(P)' = wmsg[w] /\ Moving(P)' = Moving(P)
      BY <1>0, <2>1, <2>5 DEF Rest, Moving
    <3>2. claimed[P] = sent[P] \o (Opt(shift[P]) \o (Opt(dr[P]) \o (Moving(P) \o << >>)))
      BY <1>0, <3>1 DEF SendInv, FlowInv
    <3>3. c = sent[P] \o (Opt(shift[P]) \o (Opt(dr[P]) \o (Moving(P) \o wmsg[w])))
      <4> DEFINE a == sent[P]
                 b == Opt(shift[P])
                 d == Opt(dr[P])
                 q == Moving(P)
                 m == wmsg[w]
      <4>1. a \in Seq(Byte) /\ b \in Seq(Byte) /\ d \in Seq(Byte) /\ q \in Seq(Byte) /\ m \in Seq(Byte)
        BY <1>0, <2>2, Places
      <4> HIDE DEF a, b, d, q, m
      <4>2. (a \o (b \o (d \o (q \o << >>)))) \o m = a \o (b \o (d \o (q \o m)))
        <5> DEFINE u == d \o q
                   v == b \o u
        <5>1. u \in Seq(Byte)
          BY <4>1, ConcatProperties
        <5>2. u \o m = d \o (q \o m)
          <6>1. d \in Seq(Byte) /\ q \in Seq(Byte) /\ m \in Seq(Byte)
            BY <4>1
          <6>2. (d \o q) \o m = d \o (q \o m)
            BY <6>1, ConcatAssociative
          <6> QED
            BY <6>2
        <5>3. q \o << >> = q
          BY <4>1, ConcatEmptySeq
        <5> HIDE DEF u
        <5>4. v \in Seq(Byte)
          BY <4>1, <5>1, ConcatProperties
        <5>5. v \o m = b \o (u \o m)
          BY <4>1, <5>1, ConcatAssociative, SMTT(40)
        <5> HIDE DEF v
        <5>6. (a \o v) \o m = a \o (v \o m)
          BY <4>1, <5>4, ConcatAssociative, SMTT(40)
        <5> QED
          BY <5>2, <5>3, <5>5, <5>6 DEF u, v
      <4> QED
        BY <3>2, <4>2 DEF a, b, d, q, m
    <3> QED
      BY <2>1, <2>5, <3>1, <3>3 DEF FlowInv
  <2>9. CarrierInv(P)'
    <3>1. dma[P] = NULL /\ ~tcie_sem[P] /\ (tx_q[P] # << >> => txeie[P])
      BY <1>0, <2>1 DEF SendInv, CarrierInv, HolderAt
    <3> QED
      BY <1>0, <2>1, <3>1 DEF SendInv, CarrierInv
  <2>10. ASSUME NEW v \in Writer PROVE WriterInv(v)'
    <3>1. CASE v = w
      BY <2>1, <2>5, <2>6, <3>1 DEF WriterInv
    <3>2. CASE v # w
      <4>1. \A q \in Port : mutex'[q] = v <=> mutex[q] = v
        BY <2>1, <2>5, <3>2, NullAssumption
      <4> QED
        BY <2>1, <2>5, <3>2, <4>1, Holders, WriterFrame DEF SendInv
    <3> QED
      BY <3>1, <3>2
  <2>11. \A q \in Port : FlowInv(q)' /\ CarrierInv(q)'
    BY <1>0, <2>1, <2>7, <2>8, <2>9
  <2> QED
    BY <2>4, <2>10, <2>11 DEF SendInv
<1>3. CASE Drain(w)
  <2>1. /\ wpc[w] = "drain" /\ wpc' = [wpc EXCEPT ![w] = "give"]
        /\ UNCHANGED <<rxne, mutex, wport, wmsg, writes, tcie_sem, txeie, tx_q, dma, dr, shift, sent>>
        /\ UNCHANGED <<claimed, isr>>
    BY <1>3 DEF Drain, Goto, usart
  <2>2. SerialType'
    BY <2>1 DEF SendInv, SerialType
  <2>3. wpc'[w] = "give" /\ \A v \in Writer \ {w} : wpc'[v] = wpc[v]
    BY <2>1 DEF SendInv, SerialType
  <2>4. mutex[P] = w /\ \A q \in Port \ {P} : mutex[q] # w /\ mutex[q] \in Writer \cup {NULL}
    BY <2>1, Holders, ZenonT(40) DEF SendInv, SerialType
  <2>5. ASSUME NEW q \in Port \ {P} PROVE FlowInv(q)' /\ CarrierInv(q)'
    <3>1. mutex[q] # NULL => mutex[q] \in Writer \ {w}
      BY <2>4
    <3> QED
      BY <2>1, <2>3, <3>1, PortFrame DEF SendInv
  <2>6. FlowInv(P)'
    <3>1. Rest(P)' = Rest(P) /\ Moving(P)' = Moving(P)
      BY <1>0, <2>1, <2>3, <2>4 DEF Rest, Moving
    <3> QED
      BY <1>0, <2>1, <3>1 DEF SendInv, FlowInv
  <2>7. CarrierInv(P)'
    <3>1. ~HolderAt(P, "sem") /\ ~HolderAt(P, "txeie")
      BY <2>1, <2>4 DEF HolderAt
    <3> QED
      BY <1>0, <2>1, <3>1 DEF SendInv, CarrierInv
  <2>8. ASSUME NEW v \in Writer PROVE WriterInv(v)'
    <3>1. CASE v = w
      BY <1>0, <2>1, <2>3, <3>1 DEF WriterInv
    <3>2. CASE v # w
      BY <2>1, <2>3, <3>2, Holders, WriterFrame DEF SendInv
    <3> QED
      BY <3>1, <3>2
  <2>9. \A q \in Port : FlowInv(q)' /\ CarrierInv(q)'
    BY <1>0, <2>1, <2>5, <2>6, <2>7
  <2> QED
    BY <2>2, <2>8, <2>9 DEF SendInv
<1>4. CASE GiveMutex(w)
  <2>1. /\ wpc[w] = "give" /\ wpc' = [wpc EXCEPT ![w] = "idle"]
        /\ mutex' = [mutex EXCEPT ![P] = NULL]
        /\ UNCHANGED <<rxne, wport, wmsg, writes, tcie_sem, txeie, tx_q, dma, dr, shift, sent>>
        /\ UNCHANGED <<claimed, isr>>
    BY <1>4 DEF GiveMutex, Goto, usart
  <2>2. SerialType'
    BY <2>1 DEF SendInv, SerialType
  <2>3. /\ wpc'[w] = "idle" /\ mutex'[P] = NULL
        /\ \A v \in Writer \ {w} : wpc'[v] = wpc[v]
        /\ \A q \in Port \ {P} : mutex'[q] = mutex[q]
    BY <1>0, <2>1 DEF SendInv, SerialType
  <2>4. mutex[P] = w /\ \A q \in Port \ {P} : mutex[q] # w /\ mutex[q] \in Writer \cup {NULL}
    BY <2>1, Holders, ZenonT(40) DEF SendInv, SerialType
  <2>5. ASSUME NEW q \in Port \ {P} PROVE FlowInv(q)' /\ CarrierInv(q)'
    <3>1. mutex[q] # NULL => mutex[q] \in Writer \ {w}
      BY <2>4
    <3> QED
      BY <2>1, <2>3, <3>1, PortFrame DEF SendInv
  <2>6. FlowInv(P)'
    <3>1. Rest(P)' = << >> /\ Rest(P) = << >> /\ Moving(P)' = Moving(P)
      BY <1>0, <2>1, <2>3, <2>4 DEF Rest, Moving
    <3> QED
      BY <1>0, <2>1, <3>1 DEF SendInv, FlowInv
  <2>7. CarrierInv(P)'
    <3>1. ~HolderAt(P, "sem") /\ ~HolderAt(P, "txeie")
      BY <2>1, <2>4 DEF HolderAt
    <3> QED
      BY <1>0, <2>1, <3>1 DEF SendInv, CarrierInv
  <2>8. ASSUME NEW v \in Writer PROVE WriterInv(v)'
    <3>1. CASE v = w
      <4>1. \A q \in Port : mutex'[q] # w
        BY <1>0, <2>3, <2>4
      <4> QED
        BY <1>0, <2>1, <2>3, <3>1, <4>1 DEF WriterInv
    <3>2. CASE v # w
      <4>1. \A q \in Port : mutex'[q] = v <=> mutex[q] = v
        BY <2>3, <2>4, <3>2, NullAssumption
      <4> QED
        BY <2>1, <2>3, <3>2, <4>1, Holders, WriterFrame DEF SendInv
    <3> QED
      BY <3>1, <3>2
  <2>9. \A q \in Port : FlowInv(q)' /\ CarrierInv(q)'
    BY <1>0, <2>1, <2>5, <2>6, <2>7
  <2> QED
    BY <2>2, <2>8, <2>9 DEF SendInv
<1> QED
  BY <1>1, <1>2, <1>3, <1>4

(* A step of the holder of a port leaves the other ports and writers alone. *)
LEMMA Elsewhere ==
    ASSUME SendInv, NEW w \in Writer, wpc[w] \notin {"idle", "take"},
           UNCHANGED <<mutex, wport, isr>>,
           \A v \in Writer \ {w} : wpc'[v] = wpc[v] /\ wmsg'[v] = wmsg[v],
           \A q \in Port \ {wport[w]} :
               /\ tcie_sem'[q] = tcie_sem[q] /\ txeie'[q] = txeie[q] /\ tx_q'[q] = tx_q[q]
               /\ dma'[q] = dma[q] /\ dr'[q] = dr[q] /\ shift'[q] = shift[q]
               /\ sent'[q] = sent[q] /\ claimed'[q] = claimed[q]
    PROVE  /\ \A q \in Port \ {wport[w]} : FlowInv(q)' /\ CarrierInv(q)'
           /\ \A v \in Writer \ {w} : WriterInv(v)'
<1>1. /\ mutex[wport[w]] = w /\ w # NULL
      /\ \A q \in Port \ {wport[w]} : mutex[q] # w /\ mutex[q] \in Writer \cup {NULL}
  BY Holders DEF SendInv, SerialType
<1>2. ASSUME NEW q \in Port \ {wport[w]} PROVE FlowInv(q)' /\ CarrierInv(q)'
  <2>1. mutex[q] # NULL => mutex[q] \in Writer \ {w}
    BY <1>1
  <2>2. mutex[q] # NULL => wpc'[mutex[q]] = wpc[mutex[q]] /\ wmsg'[mutex[q]] = wmsg[mutex[q]]
    BY <2>1
  <2>3. mutex'[q] = mutex[q] /\ FlowInv(q) /\ CarrierInv(q)
    BY DEF SendInv
  <2> QED
    BY <2>2, <2>3, PortFrame
<1>3. ASSUME NEW v \in Writer \ {w} PROVE WriterInv(v)'
  <2>1. wpc[v] = "sem" => wport[v] \in Port \ {wport[w]}
    BY <1>1, Holders
  <2>2. wport[v] \in Port /\ WriterInv(v) /\ wport'[v] = wport[v]
    BY Holders DEF SendInv
  <2> QED
    BY <2>1, <2>2, WriterFrame
<1> QED
  BY <1>2, <1>3

(* A writer hands its bytes to the DMA channel or to the transmit queue. *)
LEMMA WriteStep ==
    ASSUME SendInv, NEW w \in Writer, StartWrite(w) \/ TakeSem(w) \/ Putc(w) \/ EnableTxe(w)
    PROVE  SendInv'
<1> DEFINE P == wport[w]
<1>0. /\ P \in Port /\ w # NULL /\ WriterInv(w) /\ FlowInv(P) /\ CarrierInv(P)
      /\ wpc[w] \in {"write", "sem", "putc", "txeie"}
  BY Holders DEF SendInv, StartWrite, TakeSem, Putc, EnableTxe
<1>1. mutex[P] = w /\ wpc[w] \notin {"idle", "take"} /\ wmsg[w] \in Bytes /\ wmsg[w] \in Seq(Byte)
  BY <1>0, Holders, BytesFacts DEF SendInv, SerialType
<1>2. CASE StartWrite(w) /\ tx_dma(P)
  <2>1. /\ wpc[w] = "write" /\ wpc' = [wpc EXCEPT ![w] = "sem"] /\ dma' = [dma EXCEPT ![P] = wmsg[w]]
        /\ UNCHANGED <<rxne, mutex, wport, wmsg, writes, tcie_sem, txeie, tx_q, dr, shift, sent>>
        /\ UNCHANGED <<claimed, isr>>
    BY <1>2 DEF StartWrite, Goto
  <2>2. SerialType'
    BY <1>0, <1>1, <2>1 DEF SendInv, SerialType
  <2>3. /\ wpc'[w] = "sem" /\ dma'[P] = wmsg[w] /\ \A v \in Writer \ {w} : wpc'[v] = wpc[v]
        /\ \A q \in Port \ {P} : dma'[q] = dma[q]
    BY <1>0, <2>1 DEF SendInv, SerialType
  <2>4. /\ \A q \in Port \ {P} : FlowInv(q)' /\ CarrierInv(q)'
        /\ \A v \in Writer \ {w} : WriterInv(v)'
    BY <1>1, <2>1, <2>3, Elsewhere
  <2>5. dma[P] = NULL /\ ~tcie_sem[P] /\ tx_q[P] = << >> /\ wmsg[w] # NULL
    BY <1>0, <1>1, <1>2, <2>1, BytesFacts DEF CarrierInv, HolderAt
  <2>6. FlowInv(P)'
    <3>1. Moving(P) = << >> /\ Rest(P) = wmsg[w] /\ Moving(P)' = wmsg[w] /\ Rest(P)' = << >>
      BY <1>0, <1>1, <2>1, <2>3, <2>5 DEF Moving, Rest
    <3>2. << >> \o wmsg[w] = wmsg[w] \o << >>
      BY <1>1, ConcatEmptySeq
    <3> QED
      BY <1>0, <2>1, <3>1, <3>2 DEF FlowInv
  <2>7. CarrierInv(P)'
    BY <1>0, <1>1, <1>2, <2>1, <2>3, <2>5 DEF CarrierInv, HolderAt
  <2>8. WriterInv(w)'
    BY <1>0, <1>1, <2>1, <2>3, <2>5 DEF WriterInv
  <2>9. \A q \in Port : FlowInv(q)' /\ CarrierInv(q)'
    BY <1>0, <2>1, <2>4, <2>6, <2>7
  <2>10. \A v \in Writer : WriterInv(v)'
    BY <2>4, <2>8
  <2> QED
    BY <2>2, <2>9, <2>10 DEF SendInv
<1>3. CASE StartWrite(w) /\ ~tx_dma(P)
  <2>1. /\ wpc[w] = "write" /\ wpc' = [wpc EXCEPT ![w] = "putc"]
        /\ UNCHANGED <<rxne, mutex, wport, wmsg, writes, tcie_sem, txeie, tx_q, dma, dr, shift, sent>>
        /\ UNCHANGED <<claimed, isr>>
    BY <1>3 DEF StartWrite, Goto
  <2>2. SerialType'
    BY <2>1 DEF SendInv, SerialType
  <2>3. wpc'[w] = "putc" /\ \A v \in Writer \ {w} : wpc'[v] = wpc[v]
    BY <2>1 DEF SendInv, SerialType
  <2>4. /\ \A q \in Port \ {P} : FlowInv(q)' /\ CarrierInv(q)'
        /\ \A v \in Writer \ {w} : WriterInv(v)'
    BY <1>1, <2>1, <2>3, Elsewhere
  <2>6. FlowInv(P)'
    <3>1. Moving(P)' = Moving(P) /\ Rest(P)' = Rest(P)
      BY <1>0, <1>1, <2>1, <2>3 DEF Moving, Rest
    <3> QED
      BY <1>0, <2>1, <3>1 DEF FlowInv
  <2>7. CarrierInv(P)'
    BY <1>0, <1>1, <1>3, <2>1, <2>3 DEF CarrierInv, HolderAt
  <2>8. WriterInv(w)'
    BY <1>0, <1>1, <1>3, <2>1, <2>3 DEF WriterInv
  <2>9. \A q \in Port : FlowInv(q)' /\ CarrierInv(q)'
    BY <1>0, <2>1, <2>4, <2>6, <2>7
  <2>10. \A v \in Writer : WriterInv(v)'
    BY <2>4, <2>8
  <2> QED
    BY <2>2, <2>9, <2>10 DEF SendInv
<1>4. CASE TakeSem(w)
  <2>1. /\ wpc[w] = "sem" /\ wpc' = [wpc EXCEPT ![w] = "give"]
        /\ tcie_sem[P] /\ tcie_sem' = [tcie_sem EXCEPT ![P] = FALSE]
        /\ UNCHANGED <<rxne, mutex, wport, wmsg, writes, txeie, tx_q, dma, dr, shift, sent>>
        /\ UNCHANGED <<claimed, isr>>
    BY <1>4 DEF TakeSem, Goto, usart
  <2>2. SerialType'
    <3>1. FALSE \in BOOLEAN
      OBVIOUS
    <3>2. tcie_sem' \in [Port -> BOOLEAN]
      BY <2>1, <3>1 DEF SendInv, SerialType
    <3> QED
      BY <2>1, <3>2 DEF SendInv, SerialType
  <2>3. /\ wpc'[w] = "give" /\ ~tcie_sem'[P] /\ \A v \in Writer \ {w} : wpc'[v] = wpc[v]
        /\ \A q \in Port \ {P} : tcie_sem'[q] = tcie_sem[q]
    BY <1>0, <2>1 DEF SendInv, SerialType
  <2>4. /\ \A q \in Port \ {P} : FlowInv(q)' /\ CarrierInv(q)'
        /\ \A v \in Writer \ {w} : WriterInv(v)'
    BY <1>1, <2>1, <2>3, Elsewhere
  <2>5. dma[P] = NULL
    BY <1>0, <2>1 DEF CarrierInv
  <2>6. FlowInv(P)'
    <3>1. Moving(P)' = Moving(P) /\ Rest(P)' = Rest(P)
      BY <1>0, <1>1, <2>1, <2>3 DEF Moving, Rest
    <3> QED
      BY <1>0, <2>1, <3>1 DEF FlowInv
  <2>7. CarrierInv(P)'
    <3>1. ~HolderAt(P, "txeie")
      BY <1>1, <2>1 DEF HolderAt
    <3> QED
      BY <1>0, <2>1, <2>3, <2>5, <3>1 DEF CarrierInv
  <2>8. WriterInv(w)'
    BY <1>0, <1>1, <2>1, <2>3 DEF WriterInv
  <2>9. \A q \in Port : FlowInv(q)' /\ CarrierInv(q)'
    BY <1>0, <2>1, <2>4, <2>6, <2>7
  <2>10. \A v \in Writer : WriterInv(v)'
    BY <2>4, <2>8
  <2> QED
    BY <2>2, <2>9, <2>10 DEF SendInv
<1>5. CASE Putc(w)
  <2> DEFINE a == Append(tx_q[P], Head(wmsg[w]))
             t == Tail(wmsg[w])
  <2>1. /\ wpc[w] = "putc" /\ wpc' = [wpc EXCEPT ![w] = "txeie"]
        /\ tx_q' = [tx_q EXCEPT ![P] = a] /\ wmsg' = [wmsg EXCEPT ![w] = t]
        /\ UNCHANGED <<rxne, mutex, wport, writes, tcie_sem, txeie, dma, dr, shift, sent>>
        /\ UNCHANGED <<claimed, isr>>
    BY <1>5 DEF Putc, Goto, usart
  <2>2. ~tx_dma(P) /\ wmsg[w] # << >> /\ dma[P] = NULL /\ tx_q[P] \in Seq(Byte)
    BY <1>0, <2>1 DEF WriterInv, CarrierInv, SendInv, SerialType
  <2>3. t \in Bytes /\ Head(wmsg[w]) \in Byte
    BY <1>1, <2>2, BytesFacts
  <2>4. a \in Seq(Byte)
    BY <2>2, <2>3, AppendProperties
  <2>5. tx_q[P] \o wmsg[w] = a \o t
    <3> DEFINE q == tx_q[P]
               m == wmsg[w]
    <3>1. q \in Seq(Byte) /\ m \in Seq(Byte) /\ m # << >>
      BY <1>1, <2>2
    <3> HIDE DEF q, m
    <3>2. q \o m = Append(q, Head(m)) \o Tail(m)
      BY <3>1, PassQueued
    <3> QED
      BY <3>2 DEF q, m
  <2> HIDE DEF a, t
  <2>6. SerialType'
    BY <1>0, <2>1, <2>3, <2>4 DEF SendInv, SerialType
  <2>7. /\ wpc'[w] = "txeie" /\ wmsg'[w] = t /\ tx_q'[P] = a
        /\ \A v \in Writer \ {w} : wpc'[v] = wpc[v] /\ wmsg'[v] = wmsg[v]
        /\ \A q \in Port \ {P} : tx_q'[q] = tx_q[q]
    BY <1>0, <2>1 DEF SendInv, SerialType
  <2>8. /\ \A q \in Port \ {P} : FlowInv(q)' /\ CarrierInv(q)'
        /\ \A v \in Writer \ {w} : WriterInv(v)'
    BY <1>1, <2>1, <2>7, Elsewhere
  <2>9. FlowInv(P)'
    <3>1. Moving(P) = tx_q[P] /\ Rest(P) = wmsg[w] /\ Moving(P)' = a /\ Rest(P)' = t
      BY <1>0, <1>1, <2>1, <2>2, <2>7 DEF Moving, Rest
    <3> QED
      BY <1>0, <2>1, <2>5, <3>1 DEF FlowInv
  <2>10. CarrierInv(P)'
    BY <1>0, <1>1, <2>1, <2>2, <2>7 DEF CarrierInv, HolderAt
  <2>11. WriterInv(w)'
    BY <1>0, <1>1, <2>1, <2>2, <2>7 DEF WriterInv
  <2>12. \A q \in Port : FlowInv(q)' /\ CarrierInv(q)'
    BY <1>0, <2>1, <2>8, <2>9, <2>10
  <2>13. \A v \in Writer : WriterInv(v)'
    BY <2>8, <2>11
  <2> QED
    BY <2>6, <2>12, <2>13 DEF SendInv
<1>6. CASE EnableTxe(w)
  <2> DEFINE l == IF wmsg[w] = << >> THEN "give" ELSE "putc"
  <2>1. /\ wpc[w] = "txeie" /\ wpc' = [wpc EXCEPT ![w] = l] /\ txeie' = [txeie EXCEPT ![P] = TRUE]
        /\ UNCHANGED <<rxne, mutex, wport, wmsg, writes, tcie_sem, tx_q, dma, dr, shift, sent>>
        /\ UNCHANGED <<claimed, isr>>
    BY <1>6 DEF EnableTxe, Goto
  <2>2. SerialType'
    <3>1. TRUE \in BOOLEAN /\ l \in {"give", "putc"}
      OBVIOUS
    <3> HIDE DEF l
    <3>2. txeie' \in [Port -> BOOLEAN]
      BY <2>1, <3>1 DEF SendInv, SerialType
    <3> QED
      BY <2>1, <3>1, <3>2 DEF SendInv, SerialType
  <2>3. /\ wpc'[w] = l /\ txeie'[P] /\ \A v \in Writer \ {w} : wpc'[v] = wpc[v]
        /\ \A q \in Port \ {P} : txeie'[q] = txeie[q]
    BY <1>0, <2>1 DEF SendInv, SerialType
  <2>4. /\ \A q \in Port \ {P} : FlowInv(q)' /\ CarrierInv(q)'
        /\ \A v \in Writer \ {w} : WriterInv(v)'
    BY <1>1, <2>1, <2>3, Elsewhere
  <2>5. ~tx_dma(P) /\ dma[P] = NULL /\ ~tcie_sem[P]
    BY <1>0, <1>1, <2>1 DEF WriterInv, CarrierInv, HolderAt
  <2>6. FlowInv(P)'
    <3>1. Moving(P)' = Moving(P) /\ Rest(P)' = Rest(P)
      BY <1>0, <1>1, <2>1, <2>3 DEF Moving, Rest
    <3> QED
      BY <1>0, <2>1, <3>1 DEF FlowInv
  <2>7. CarrierInv(P)'
    BY <1>0, <2>1, <2>3, <2>5 DEF CarrierInv
  <2>8. WriterInv(w)'
    BY <1>0, <1>1, <2>1, <2>3, <2>5 DEF WriterInv
  <2>9. \A q \in Port : FlowInv(q)' /\ CarrierInv(q)'
    BY <1>0, <2>1, <2>4, <2>6, <2>7
  <2>10. \A v \in Writer : WriterInv(v)'
    BY <2>4, <2>8
  <2> QED
    BY <2>2, <2>9, <2>10 DEF SendInv
<1> QED
  BY <1>2, <1>3, <1>4, <1>5, <1>6

(* Every step of the serial ports keeps the invariant of the sending side. *)
LEMMA SendStep == ASSUME SendInv, SerialNext \/ UNCHANGED svars PROVE SendInv'
<1>1. ASSUME NEW w \in Writer, NEW p \in Port, NEW n \in {0, 2}, Call(w, p, n) PROVE SendInv'
  BY <1>1, MutexStep
<1>2. ASSUME NEW w \in Writer, WriterStep(w) PROVE SendInv'
  BY <1>2, MutexStep, WriteStep DEF WriterStep
<1>3. rxne \in [Port -> BOOLEAN]
  BY DEF SendInv, SerialType
<1>4. CASE ReaderStep \/ UNCHANGED svars
  BY <1>3, <1>4, OtherStep DEF ReaderStep, Select, Get, svars, usart, writers
<1>5. ASSUME NEW p \in Port, HearByte(p) PROVE SendInv'
  <2>1. TRUE \in BOOLEAN
    OBVIOUS
  <2>2. rxne' \in [Port -> BOOLEAN]
    BY <1>3, <1>5, <2>1 DEF HearByte
  <2> QED
    BY <1>5, <2>2, OtherStep DEF HearByte, writers
<1>6. ASSUME NEW p \in Port, Hardware(p) \/ ReadSR(p) \/ usart_irq(p) \/ usart_tcie(p) PROVE SendInv'
  BY <1>6, DmaMoveStep, TransmitterStep, InterruptStep, TransferEnds DEF Hardware
<1>7. cli_serial \in Port
  BY SerialAssumption DEF cli_serial
<1> QED
  BY <1>1, <1>2, <1>4, <1>5, <1>6, <1>7 DEF SerialNext

-----------------------------------------------------------------------------
(* The receiving side: the queue set and the receive queues. *)

\* Where s holds p.
At(s, p) == {i \in DOMAIN s : s[i] = p}

(* The places of p are finitely many. *)
LEMMA AtFinite ==
    ASSUME NEW S, NEW s \in Seq(S), NEW p
    PROVE  IsFiniteSet(At(s, p)) /\ Cardinality(At(s, p)) \in Nat
<1>1. DOMAIN s = 1 .. Len(s) /\ Len(s) \in Nat
  BY LenProperties
<1>2. IsFiniteSet(1 .. Len(s)) /\ At(s, p) \in SUBSET (1 .. Len(s))
  BY <1>1, FS_Interval DEF At
<1>3. IsFiniteSet(At(s, p))
  BY <1>2, FS_Subset
<1> QED
  BY <1>3, FS_CardinalityType

(* A port is announced. *)
LEMMA AtAppend ==
    ASSUME NEW S, NEW s \in Seq(S), NEW x \in S, NEW p
    PROVE  Cardinality(At(Append(s, x), p))
              = Cardinality(At(s, p)) + (IF x = p THEN 1 ELSE 0)
<1> DEFINE n == Len(s)
           a == Append(s, x)
<1>1. /\ n \in Nat /\ DOMAIN s = 1 .. n /\ DOMAIN a = 1 .. n + 1
      /\ a[n + 1] = x /\ \A i \in 1 .. n : a[i] = s[i]
  BY LenProperties, AppendProperties
<1>2. IsFiniteSet(At(s, p)) /\ Cardinality(At(s, p)) \in Nat
  BY AtFinite
<1> HIDE DEF n, a
<1>3. n + 1 \notin At(s, p) /\ \A i : i \in 1 .. n + 1 <=> i \in 1 .. n \/ i = n + 1
  BY <1>1 DEF At
<1>4. CASE x = p
  <2>1. At(a, p) = At(s, p) \cup {n + 1}
    BY <1>1, <1>3, <1>4 DEF At
  <2>2. Cardinality(At(s, p) \cup {n + 1}) = Cardinality(At(s, p)) + 1
    BY <1>2, <1>3, FS_AddElement
  <2> QED
    BY <1>4, <2>1, <2>2 DEF a
<1>5. CASE x # p
  <2>1. At(a, p) = At(s, p)
    BY <1>1, <1>3, <1>5 DEF At
  <2> QED
    BY <1>2, <1>5, <2>1 DEF a
<1> QED
  BY <1>4, <1>5

(* The first announcement is taken. *)
LEMMA AtTail ==
    ASSUME NEW S, NEW s \in Seq(S), s # << >>, NEW p
    PROVE  Cardinality(At(s, p))
              = Cardinality(At(Tail(s), p)) + (IF Head(s) = p THEN 1 ELSE 0)
<1> DEFINE n == Len(s)
           t == Tail(s)
           A == At(s, p)
           T == At(t, p)
           f == [i \in T |-> i + 1]
<1>1. /\ n \in Nat /\ DOMAIN s = 1 .. n /\ DOMAIN t = 1 .. n - 1
      /\ Head(s) = s[1] /\ t \in Seq(S) /\ n # 0
  <2>1. /\ n \in Nat /\ DOMAIN s = 1 .. n /\ n # 0
    BY LenProperties, EmptySeq
  <2>2. t \in Seq(S) /\ Len(t) = n - 1 /\ Head(s) = s[1]
    BY HeadTailProperties
  <2>3. DOMAIN t = 1 .. n - 1
    BY <2>2, LenProperties
  <2> QED
    BY <2>1, <2>2, <2>3
<1>2. \A i \in 1 .. n - 1 : t[i] = s[i + 1]
  BY <1>1
<1>3. IsFiniteSet(A) /\ Cardinality(A) \in Nat /\ IsFiniteSet(T) /\ Cardinality(T) \in Nat
  BY <1>1, AtFinite
<1> HIDE DEF n, t
<1>4. \A i \in T : i \in 1 .. n - 1 /\ i + 1 \in A \ {1}
  <2>1. ASSUME NEW i \in T PROVE i \in 1 .. n - 1 /\ i + 1 \in A \ {1}
    <3>1. i \in 1 .. n - 1 /\ t[i] = p
      BY <1>1 DEF At
    <3>2. i + 1 \in 1 .. n /\ i + 1 # 1 /\ s[i + 1] = p
      BY <1>1, <1>2, <3>1
    <3> QED
      BY <1>1, <3>1, <3>2 DEF At
  <2> QED
    BY <2>1
<1>5. \A k \in A \ {1} : k \in Nat /\ k - 1 \in T
  <2>1. ASSUME NEW k \in A \ {1} PROVE k \in Nat /\ k - 1 \in T
    <3>1. k \in 1 .. n /\ k # 1 /\ s[k] = p
      BY <1>1 DEF At
    <3>2. k - 1 \in 1 .. n - 1 /\ (k - 1) + 1 = k /\ k \in Nat
      BY <1>1, <3>1
    <3>3. t[k - 1] = p
      BY <1>2, <3>1, <3>2
    <3> QED
      BY <1>1, <3>2, <3>3 DEF At
  <2> QED
    BY <2>1
<1> HIDE DEF A, T
<1>6. ExistsBijection(T, A \ {1})
  <2>1. f \in [T -> A \ {1}]
    BY <1>4
  <2>2. \A i, j \in T : f[i] = f[j] => i = j
    BY <1>4
  <2>3. \A k \in A \ {1} : \E i \in T : f[i] = k
    <3>1. ASSUME NEW k \in A \ {1} PROVE \E i \in T : f[i] = k
      <4>1. k \in Nat /\ k - 1 \in T /\ (k - 1) + 1 = k
        BY <1>5
      <4>2. f[k - 1] = k
        BY <4>1
      <4> QED
        BY <4>1, <4>2
    <3> QED
      BY <3>1
  <2> HIDE DEF f
  <2>4. f \in Bijection(T, A \ {1})
    BY <2>1, <2>2, <2>3 DEF Bijection, Injection, Surjection, IsInjective
  <2> QED
    BY <2>4 DEF ExistsBijection
<1>7. Cardinality(A \ {1}) = Cardinality(T)
  BY <1>3, <1>6, FS_Bijection
<1>8. Cardinality(A \ {1}) = IF 1 \in A THEN Cardinality(A) - 1 ELSE Cardinality(A)
  BY <1>3, FS_RemoveElement
<1>9. 1 \in A <=> Head(s) = p
  <2>1. 1 \in 1 .. n
    BY <1>1
  <2> QED
    BY <1>1, <2>1 DEF A, At
<1> QED
  BY <1>3, <1>7, <1>8, <1>9 DEF A, T, t

\* One for the port whose byte the main thread is about to get.
Taking(p) == IF mpc = "get" /\ active = p THEN 1 ELSE 0

(* What the receive invariant counts with. *)
LEMMA Counts ==
    ASSUME ReceiveInv, NEW p \in Port
    PROVE  /\ Entries(p) = Cardinality(At(qs, p)) /\ Entries(p) \in Nat
           /\ Taking(p) \in {0, 1} /\ rx_q[p] \in 0 .. SERIAL_RX_SIZE
           /\ Entries(p) + Taking(p) <= rx_q[p]
           /\ p \in Read => Entries(p) + Taking(p) = rx_q[p]
<1>1. Entries(p) = Cardinality(At(qs, p))
  BY DEF Entries, At
<1>2. qs \in Seq(Port) /\ rx_q[p] \in 0 .. SERIAL_RX_SIZE
  BY DEF ReceiveInv
<1>3. Cardinality(At(qs, p)) \in Nat
  BY <1>2, AtFinite
<1>4. /\ Entries(p) + Taking(p) <= rx_q[p]
      /\ p \in Read => Entries(p) + Taking(p) = rx_q[p]
  BY DEF ReceiveInv, Taking
<1> QED
  BY <1>1, <1>2, <1>3, <1>4 DEF Taking

(* The interrupt queues a byte and announces it, or drops it without. *)
LEMMA QueueByteStep ==
    ASSUME ReceiveInv, NEW p \in Port, QueueByte(p), UNCHANGED <<mpc, active, gps_serial>>
    PROVE  ReceiveInv'
<1>1. CASE rx_q' = rx_q /\ qs' = qs
  BY <1>1 DEF ReceiveInv, Entries, Read
<1>2. CASE isr.RXNE /\ rx_q[p] < SERIAL_RX_SIZE
  <2> DEFINE k == rx_q[p] + 1
  <2>1. rx_q' = [rx_q EXCEPT ![p] = k] /\ qs' = Append(qs, p)
    BY <1>2 DEF QueueByte, NotifySet
  <2>2. k \in 0 .. SERIAL_RX_SIZE
    BY <1>2, SerialAssumption DEF ReceiveInv
  <2> HIDE DEF k
  <2>3. rx_q' \in [Port -> 0 .. SERIAL_RX_SIZE] /\ qs \in Seq(Port)
    BY <2>1, <2>2 DEF ReceiveInv
  <2>4. qs' \in Seq(Port)
    BY <2>1, <2>3, AppendProperties
  <2>5. ASSUME NEW q \in Port
        PROVE  /\ Entries(q)' + Taking(q)' <= rx_q'[q]
               /\ q \in Read => Entries(q)' + Taking(q)' = rx_q'[q]
    <3>1. Entries(q)' = Cardinality(At(qs', q)) /\ Taking(q)' = Taking(q)
      BY DEF Entries, At, Taking
    <3>2. Cardinality(At(Append(qs, p), q)) = Cardinality(At(qs, q)) + (IF p = q THEN 1 ELSE 0)
      BY <2>3, AtAppend
    <3>3. Entries(q)' = Entries(q) + (IF p = q THEN 1 ELSE 0)
      BY <2>1, <3>1, <3>2, Counts
    <3>4. rx_q'[q] = rx_q[q] + (IF p = q THEN 1 ELSE 0)
      BY <2>1, Counts DEF k, ReceiveInv
    <3> QED
      BY <3>1, <3>3, <3>4, Counts, SerialAssumption
  <2>6. Read' = Read
    BY DEF Read
  <2> QED
    BY <2>3, <2>4, <2>5, <2>6 DEF ReceiveInv, Taking
<1>3. CASE isr.RXNE /\ ~(rx_q[p] < SERIAL_RX_SIZE)
  <2>1. qs' = qs /\ rx_q' = [rx_q EXCEPT ![p] = rx_q[p]]
    BY <1>3 DEF QueueByte, NotifySet
  <2>2. rx_q' = rx_q
    BY <2>1 DEF ReceiveInv
  <2> QED
    BY <1>1, <2>1, <2>2
<1> QED
  BY <1>1, <1>2, <1>3 DEF QueueByte

(* The main thread selects a port and gets its byte. *)
LEMMA ReaderSteps ==
    ASSUME ReceiveInv, Select \/ Get PROVE ReceiveInv'
<1>0. /\ rx_q \in [Port -> 0 .. SERIAL_RX_SIZE] /\ qs \in Seq(Port) /\ Read' = Read
      /\ SERIAL_RX_SIZE \in Nat
  BY SerialAssumption DEF ReceiveInv, Select, Get, Read
<1>1. CASE Select
  <2>1. /\ mpc = "select" /\ qs # << >> /\ active' = Head(qs) /\ qs' = Tail(qs) /\ mpc' = "get"
        /\ rx_q' = rx_q
    BY <1>1 DEF Select
  <2>2. Head(qs) \in Port /\ Tail(qs) \in Seq(Port)
    BY <1>0, <2>1, HeadTailProperties
  <2>3. ASSUME NEW q \in Port PROVE Entries(q)' + Taking(q)' = Entries(q) + Taking(q)
    <3>1. Entries(q)' = Cardinality(At(Tail(qs), q)) /\ Taking(q) = 0
      BY <2>1 DEF Entries, At, Taking
    <3>2. Taking(q)' = IF Head(qs) = q THEN 1 ELSE 0
      BY <2>1 DEF Taking
    <3>3. Cardinality(At(qs, q)) = Cardinality(At(Tail(qs), q)) + (IF Head(qs) = q THEN 1 ELSE 0)
      BY <1>0, <2>1, AtTail
    <3>4. Cardinality(At(Tail(qs), q)) \in Nat /\ Cardinality(At(qs, q)) \in Nat
      BY <1>0, <2>2, AtFinite
    <3> QED
      BY <3>1, <3>2, <3>3, <3>4, Counts
  <2>4. ASSUME NEW q \in Port
        PROVE  /\ Entries(q)' + Taking(q)' <= rx_q'[q]
               /\ q \in Read => Entries(q)' + Taking(q)' = rx_q'[q]
    BY <2>1, <2>3, Counts
  <2> QED
    BY <1>0, <2>1, <2>2, <2>4 DEF ReceiveInv, Taking
<1>2. CASE Get
  <2> DEFINE k == IF active \in Read /\ rx_q[active] > 0 THEN rx_q[active] - 1 ELSE rx_q[active]
  <2>1. /\ mpc = "get" /\ mpc' = "select" /\ rx_q' = [rx_q EXCEPT ![active] = k] /\ qs' = qs
        /\ active' = active
    BY <1>2 DEF Get
  <2>2. active \in Port /\ Taking(active) = 1 /\ rx_q[active] \in 0 .. SERIAL_RX_SIZE
    BY <2>1 DEF ReceiveInv, Taking
  <2>3. k \in 0 .. SERIAL_RX_SIZE
    BY <1>0, <2>2
  <2>4. rx_q[active] > 0
    BY <1>0, <2>2, Counts
  <2>5. k = IF active \in Read THEN rx_q[active] - 1 ELSE rx_q[active]
    BY <2>4
  <2> HIDE DEF k
  <2>6. rx_q' \in [Port -> 0 .. SERIAL_RX_SIZE]
    BY <1>0, <2>1, <2>3
  <2>7. ASSUME NEW q \in Port
        PROVE  /\ Entries(q)' + Taking(q)' <= rx_q'[q]
               /\ q \in Read => Entries(q)' + Taking(q)' = rx_q'[q]
    <3>1. Entries(q)' = Entries(q) /\ Taking(q)' = 0
      BY <2>1 DEF Entries, Taking
    <3>2. CASE q = active
      <4>1. rx_q'[q] = k
        BY <1>0, <2>1, <2>2, <3>2
      <4> QED
        BY <1>0, <2>2, <2>5, <3>1, <3>2, <4>1, Counts
    <3>3. CASE q # active
      <4>1. rx_q'[q] = rx_q[q] /\ Taking(q) = 0
        BY <1>0, <2>1, <2>2, <3>3 DEF Taking
      <4> QED
        BY <3>1, <4>1, Counts
    <3> QED
      BY <3>2, <3>3
  <2> QED
    BY <1>0, <2>1, <2>6, <2>7 DEF ReceiveInv, Taking
<1> QED
  BY <1>1, <1>2

(* Every step of the serial ports keeps the invariant of the receiving side. *)
LEMMA ReceivingStep == ASSUME ReceiveInv, SerialNext \/ UNCHANGED svars PROVE ReceiveInv'
<1>1. CASE UNCHANGED <<rx_q, qs, mpc, active, gps_serial>>
  BY <1>1 DEF ReceiveInv, Entries, Read
<1>2. ASSUME NEW p \in Port, usart_irq(p) PROVE ReceiveInv'
  BY <1>2, QueueByteStep DEF usart_irq
<1>3. CASE ReaderStep
  BY <1>3, ReaderSteps DEF ReaderStep
<1>4. ASSUME NEW w \in Writer, NEW p \in Port, NEW n \in {0, 2}, Call(w, p, n) PROVE ReceiveInv'
  BY <1>1, <1>4 DEF Call, reader
<1>5. ASSUME NEW w \in Writer, WriterStep(w) PROVE ReceiveInv'
  BY <1>1, <1>5 DEF WriterStep, TakeMutex, StartWrite, TakeSem, Putc, EnableTxe, Drain, GiveMutex, reader
<1>6. ASSUME NEW p \in Port, Hardware(p) \/ ReadSR(p) \/ HearByte(p) \/ usart_tcie(p) PROVE ReceiveInv'
  BY <1>1, <1>6 DEF Hardware, DmaMove, LoadShift, SendByte, ReadSR, HearByte, usart_tcie, reader
<1>7. CASE UNCHANGED svars
  BY <1>1, <1>7 DEF svars, reader
<1>8. cli_serial \in Port
  BY SerialAssumption DEF cli_serial
<1> QED
  BY <1>2, <1>3, <1>4, <1>5, <1>6, <1>7, <1>8 DEF SerialNext

(* The ports start with nothing on its way and nothing announced. *)
LEMMA PortsStart == SerialInit => SendInv /\ ReceiveInv
<1> SUFFICES ASSUME SerialInit PROVE SendInv /\ ReceiveInv
  OBVIOUS
<1>0. cli_serial \in Port /\ {SERIAL_RX_SIZE, MaxWrites} \subseteq Nat
  BY SerialAssumption DEF cli_serial
<1>1. SerialType
  <2>1. << >> \in Seq(Byte) /\ << >> \in Bytes /\ FALSE \in BOOLEAN
    BY BytesFacts
  <2>2. /\ tcie_sem \in [Port -> BOOLEAN] /\ txeie \in [Port -> BOOLEAN] /\ rxne \in [Port -> BOOLEAN]
    BY <2>1 DEF SerialInit
  <2>3. writes \in [Writer -> 0 .. MaxWrites] /\ wport \in [Writer -> Port] /\ wmsg \in [Writer -> Bytes]
    BY <1>0, <2>1 DEF SerialInit
  <2>4. /\ tx_q \in [Port -> Seq(Byte)] /\ sent \in [Port -> Seq(Byte)] /\ claimed \in [Port -> Seq(Byte)]
    BY <2>1 DEF SerialInit
  <2> QED
    BY <2>2, <2>3, <2>4 DEF SerialInit, SerialType
<1>2. ASSUME NEW p \in Port PROVE FlowInv(p) /\ CarrierInv(p)
  <2>1. /\ mutex[p] = NULL /\ dma[p] = NULL /\ tx_q[p] = << >> /\ dr[p] = NULL /\ shift[p] = NULL
        /\ sent[p] = << >> /\ claimed[p] = << >> /\ ~tcie_sem[p] /\ ~txeie[p] /\ isr = NULL
    BY DEF SerialInit
  <2>2. << >> \o << >> = << >>
    <3>1. << >> \in Seq(Byte)
      OBVIOUS
    <3> QED
      BY <3>1, ConcatEmptySeq
  <2>3. FlowInv(p)
    BY <2>1, <2>2 DEF FlowInv, Opt, Moving, Rest
  <2>4. CarrierInv(p)
    BY <2>1 DEF CarrierInv
  <2> QED
    BY <2>3, <2>4
<1>3. ASSUME NEW w \in Writer PROVE WriterInv(w)
  <2>1. wpc[w] = "idle" /\ wport[w] \in Port /\ w # NULL /\ \A p \in Port : mutex[p] = NULL
    BY <1>0, NullAssumption DEF SerialInit
  <2> QED
    BY <2>1 DEF WriterInv
<1>4. ReceiveInv
  <2>1. rx_q \in [Port -> 0 .. SERIAL_RX_SIZE] /\ qs \in Seq(Port)
    <3>1. << >> \in Seq(Port)
      OBVIOUS
    <3> QED
      BY <1>0, <3>1 DEF SerialInit
  <2>2. ASSUME NEW p \in Port PROVE Entries(p) = 0 /\ rx_q[p] = 0
    <3>1. {i \in DOMAIN qs : qs[i] = p} = {}
      BY DEF SerialInit
    <3> QED
      BY <3>1, FS_EmptySet DEF Entries, SerialInit
  <2> QED
    BY <2>1, <2>2 DEF SerialInit, ReceiveInv
<1> QED
  BY <1>1, <1>2, <1>3, <1>4 DEF SendInv

(* What leaves a port is what was handed over, from the first byte on. *)
LEMMA BytesAreWhole == SendInv => BytesWhole
<1> SUFFICES ASSUME SendInv, NEW p \in Port
             PROVE  /\ IsPrefix(sent[p], claimed[p])
                    /\ (mutex[p] = NULL /\ dr[p] = NULL /\ shift[p] = NULL /\ ~txeie[p])
                       => sent[p] = claimed[p]
  BY DEF BytesWhole
<1> DEFINE a == sent[p]
           b == Opt(shift[p])
           d == Opt(dr[p])
           q == Moving(p)
           r == Rest(p)
<1>1. a \in Seq(Byte) /\ b \in Seq(Byte) /\ d \in Seq(Byte) /\ q \in Seq(Byte) /\ r \in Seq(Byte)
  BY Places
<1>2. claimed[p] = a \o (b \o (d \o (q \o r)))
  BY DEF SendInv, FlowInv
<1>3. (mutex[p] = NULL /\ dr[p] = NULL /\ shift[p] = NULL /\ ~txeie[p])
      => b = << >> /\ d = << >> /\ q = << >> /\ r = << >>
  <2>1. CarrierInv(p)
    BY DEF SendInv
  <2> QED
    BY <2>1 DEF CarrierInv, HolderAt, Opt, Moving, Rest
<1> HIDE DEF a, b, d, q, r
<1> DEFINE u == q \o r
           v == d \o u
           x == b \o v
<1>4. u \in Seq(Byte)
  BY <1>1, ConcatProperties
<1> HIDE DEF u
<1>5. v \in Seq(Byte)
  BY <1>1, <1>4, ConcatProperties
<1> HIDE DEF v
<1>6. x \in Seq(Byte)
  BY <1>1, <1>5, ConcatProperties
<1> HIDE DEF x
<1>7. IsPrefix(a, a \o x)
  BY <1>1, <1>6, ConcatPrefix
<1>8. b = << >> /\ d = << >> /\ q = << >> /\ r = << >> => a = a \o x
  <2>1. << >> \in Seq(Byte)
    OBVIOUS
  <2>2. << >> \o << >> = << >> /\ a \o << >> = a
    BY <1>1, <2>1, ConcatEmptySeq
  <2> QED
    BY <2>2 DEF x, v, u
<1> QED
  BY <1>2, <1>3, <1>7, <1>8 DEF x, v, u, a

(* The queue set cannot overflow: it holds at most one entry per byte that waits. *)
LEMMA SetFits == ReceiveInv => Len(qs) <= Cardinality(Port) * SERIAL_RX_SIZE
<1> SUFFICES ASSUME ReceiveInv PROVE Len(qs) <= Cardinality(Port) * SERIAL_RX_SIZE
  OBVIOUS
<1> DEFINE A == At(qs, "Serial1")
           B == At(qs, "Serial4")
           C == At(qs, "Serial5")
           a == Cardinality(A)
           b == Cardinality(B)
           c == Cardinality(C)
           n == Len(qs)
           z == SERIAL_RX_SIZE
<1>1. qs \in Seq(Port) /\ z \in Nat /\ n \in Nat /\ DOMAIN qs = 1 .. n /\ \A i \in 1 .. n : qs[i] \in Port
  BY SerialAssumption, LenProperties, ElementOfSeq DEF ReceiveInv
<1>2. IsFiniteSet(A) /\ a \in Nat /\ IsFiniteSet(B) /\ b \in Nat /\ IsFiniteSet(C) /\ c \in Nat
  BY <1>1, AtFinite
<1>3. n = a + b + c
  <2>1. 1 .. n = (A \cup B) \cup C /\ A \cap B = {} /\ (A \cup B) \cap C = {}
    BY <1>1, SerialAssumption DEF At
  <2>2. Cardinality(1 .. n) = n
    <3> HIDE DEF n
    <3>1. 1 \in Int /\ n \in Int
      BY <1>1
    <3>2. Cardinality(1 .. n) = IF 1 > n THEN 0 ELSE n - 1 + 1
      BY <3>1, FS_Interval
    <3> QED
      BY <1>1, <3>2
  <2> HIDE DEF A, B, C
  <2>3. IsFiniteSet(A \cup B) /\ Cardinality(A \cup B) = a + b
    <3>1. /\ IsFiniteSet(A \cup B)
          /\ Cardinality(A \cup B) = Cardinality(A) + Cardinality(B) - Cardinality(A \cap B)
      BY <1>2, FS_Union
    <3>2. Cardinality(A \cap B) = 0
      BY <2>1, FS_EmptySet
    <3> QED
      BY <1>2, <3>1, <3>2
  <2>4. Cardinality((A \cup B) \cup C) = (a + b) + c
    <3> DEFINE D == A \cup B
    <3>1. D \cap C = {} /\ IsFiniteSet(D) /\ Cardinality(D) = a + b
      BY <2>1, <2>3
    <3> HIDE DEF D, a, b, c
    <3>2. Cardinality(D \cup C) = Cardinality(D) + Cardinality(C) - Cardinality(D \cap C)
      BY <1>2, <3>1, FS_Union
    <3>3. Cardinality(D \cap C) = 0
      BY <3>1, FS_EmptySet
    <3>4. Cardinality(D \cup C) = (a + b) + c
      BY <1>2, <3>1, <3>2, <3>3 DEF c
    <3> QED
      BY <3>4 DEF D
  <2> QED
    BY <2>1, <2>2, <2>4
<1>4. /\ "Serial1" \in Port => a <= z
      /\ "Serial4" \in Port => b <= z
      /\ "Serial5" \in Port => c <= z
  <2>1. ASSUME NEW p \in Port PROVE Cardinality(At(qs, p)) <= z
    BY <1>1, Counts
  <2> QED
    BY <2>1
<1>5. /\ "Serial4" \notin Port => b = 0
      /\ "Serial5" \notin Port => c = 0
  <2>1. ("Serial4" \notin Port => B = {}) /\ ("Serial5" \notin Port => C = {})
    BY <1>1 DEF At
  <2> QED
    BY <2>1, FS_EmptySet
<1>6. /\ Cardinality({"Serial1"}) = 1 /\ Cardinality({"Serial1", "Serial4"}) = 2
      /\ Cardinality({"Serial1", "Serial5"}) = 2
      /\ Cardinality({"Serial1", "Serial4", "Serial5"}) = 3
  <2>1. IsFiniteSet({"Serial1"}) /\ Cardinality({"Serial1"}) = 1
    BY FS_Singleton
  <2>2. /\ {"Serial1", "Serial4"} = {"Serial1"} \cup {"Serial4"}
        /\ {"Serial1", "Serial5"} = {"Serial1"} \cup {"Serial5"}
        /\ {"Serial1", "Serial4", "Serial5"} = {"Serial1", "Serial4"} \cup {"Serial5"}
        /\ "Serial4" \notin {"Serial1"} /\ "Serial5" \notin {"Serial1"}
        /\ "Serial5" \notin {"Serial1", "Serial4"}
    OBVIOUS
  <2>3. /\ IsFiniteSet({"Serial1", "Serial4"}) /\ Cardinality({"Serial1", "Serial4"}) = 2
        /\ Cardinality({"Serial1", "Serial5"}) = 2
    BY <2>1, <2>2, FS_AddElement
  <2> QED
    BY <2>1, <2>2, <2>3, FS_AddElement
<1> HIDE DEF a, b, c, n, z
<1>7. \/ Port = {"Serial1"} \/ Port = {"Serial1", "Serial4"} \/ Port = {"Serial1", "Serial5"}
      \/ Port = {"Serial1", "Serial4", "Serial5"}
  BY SerialAssumption
<1>8. CASE Port = {"Serial1"}
  <2>1. n <= 1 * z
    BY <1>1, <1>2, <1>3, <1>4, <1>5, <1>8
  <2> QED
    BY <1>6, <1>8, <2>1 DEF n, z
<1>9. CASE Port = {"Serial1", "Serial4"}
  <2>1. n <= 2 * z
    BY <1>1, <1>2, <1>3, <1>4, <1>5, <1>9
  <2> QED
    BY <1>6, <1>9, <2>1 DEF n, z
<1>10. CASE Port = {"Serial1", "Serial5"}
  <2>1. n <= 2 * z
    BY <1>1, <1>2, <1>3, <1>4, <1>5, <1>10
  <2> QED
    BY <1>6, <1>10, <2>1 DEF n, z
<1>11. CASE Port = {"Serial1", "Serial4", "Serial5"}
  <2>1. n <= 3 * z
    BY <1>1, <1>2, <1>3, <1>4, <1>11
  <2> QED
    BY <1>6, <1>11, <2>1 DEF n, z
<1> QED
  BY <1>7, <1>8, <1>9, <1>10, <1>11

(* A writer that waits has its wakeup to come. *)
LEMMA WakeupIsComing == SendInv => WakeupComing
<1> SUFFICES ASSUME SendInv, NEW w \in Writer
             PROVE  /\ wpc[w] = "sem" => (dma[wport[w]] # NULL \/ tcie_sem[wport[w]])
                    /\ wpc[w] = "putc" /\ Len(tx_q[wport[w]]) = SERIAL_TX_SIZE => txeie[wport[w]]
  BY DEF WakeupComing
<1>1. wport[w] \in Port /\ WriterInv(w) /\ CarrierInv(wport[w])
  BY Holders DEF SendInv
<1>2. wpc[w] = "sem" => (dma[wport[w]] # NULL \/ tcie_sem[wport[w]])
  BY <1>1 DEF WriterInv
<1>3. Len(<< >>) # SERIAL_TX_SIZE
  BY SerialAssumption
<1>4. wpc[w] = "putc" /\ Len(tx_q[wport[w]]) = SERIAL_TX_SIZE => txeie[wport[w]]
  BY <1>1, <1>3 DEF WriterInv, CarrierInv, HolderAt
<1> QED
  BY <1>2, <1>4

(* Neither direction of a port mixes, loses or withholds bytes that the driver has       *)
(* taken, for any number of writers and writes and any queue sizes: what leaves is a     *)
(* prefix of what was handed over and all of it once all is quiet, the queue set         *)
(* announces exactly the bytes that wait, and a blocked writer has its wakeup to come.   *)
THEOREM PortsAreExact == SerialSpec => []PortsExact
<1>1. SerialInit => SendInv /\ ReceiveInv
  BY PortsStart
<1>2. SendInv /\ ReceiveInv /\ [SerialNext]_svars => SendInv' /\ ReceiveInv'
  BY SendStep, ReceivingStep
<1>3. SendInv /\ ReceiveInv => PortsExact
  <2> SUFFICES ASSUME SendInv, ReceiveInv PROVE PortsExact
    OBVIOUS
  <2>1. SetExact
    <3>1. ASSUME NEW p \in Read \cap Port
          PROVE  rx_q[p] = Entries(p) + (IF mpc = "get" /\ active = p THEN 1 ELSE 0)
      BY DEF ReceiveInv
    <3> QED
      BY <3>1, SetFits DEF SetExact
  <2> QED
    BY <2>1, BytesAreWhole, WakeupIsComing DEF PortsExact, NothingForgotten
<1> QED
  BY <1>1, <1>2, <1>3, PTL DEF SerialSpec

-----------------------------------------------------------------------------
(* The relay. *)

Message == [type : {"write", "output", "syn", "data", "fin", "rst"}, pcb : Client]
Event   == [type : {"accepted", "gone"}, pcb : Client]

RelayType ==
    /\ rbuf \in Seq(Nat) /\ relay_client \in Client \cup {NOPCB} /\ client_sigil \in Nat
    /\ pushed \in Nat /\ todo \in Seq({"push", "rbuf_flush", "output"}) /\ waiting \in BOOLEAN
    /\ tcpip_queue \in Seq(Message) /\ event \in Event \cup {NOPCB}
    /\ pcb \in [Client -> {"none", "open", "closed", "freed"}] /\ arg \in [Client -> Nat]
    /\ stream \in [Client -> Seq(Nat)] /\ since \in [Client -> Nat]
    /\ starved \in [Client -> BOOLEAN]

\* A full buffer is flushed before the next call.
BufferInv ==
    /\ Len(rbuf) <= RBUF_SIZE
    /\ Len(rbuf) = RBUF_SIZE => todo # << >> /\ Head(todo) = "rbuf_flush"

\* The main thread waits as long as its one message is in the queue; a client that came
\* since rbuf_flush read relay_client has missed nothing.
CallInv ==
    /\ \A i \in 1 .. Len(tcpip_queue) :
          /\ tcpip_queue[i].type \in {"write", "output"} => waiting /\ todo # << >>
          /\ tcpip_queue[i].type = "write" =>
                /\ Head(todo) = "rbuf_flush"
                /\ \/ relay_client \in {tcpip_queue[i].pcb, NOPCB}
                   \/ since[relay_client] = pushed
          /\ tcpip_queue[i].type = "output" => Head(todo) = "output"
    /\ \A i, j \in 1 .. Len(tcpip_queue) :
          tcpip_queue[i].type \in {"write", "output"} /\ tcpip_queue[j].type \in {"write", "output"}
             => i = j

Rising(s) == \A i, j \in 1 .. Len(s) : i < j => s[i] < s[j]

\* What is in the buffer is later than what any client has.
OrderInv ==
    /\ Rising(rbuf) /\ \A i \in 1 .. Len(rbuf) : rbuf[i] <= pushed
    /\ \A c \in Client :
          /\ Rising(stream[c])
          /\ \A i \in 1 .. Len(stream[c]) :
                stream[c][i] <= pushed /\ \A j \in 1 .. Len(rbuf) : stream[c][i] < rbuf[j]

\* The client has, or will get, what came in since it was accepted.
Has(s, n) == \E i \in 1 .. Len(s) : s[i] = n
CoverInv ==
    \A c \in Client : c = relay_client /\ ~starved[c] =>
        \A n \in Nat : since[c] < n /\ n <= pushed => Has(stream[c], n) \/ Has(rbuf, n)

In(type) == event # NOPCB /\ event.type = type

\* The number of a client tells it from those it replaced, in a half-done callback too.
ClientInv ==
    /\ \A c \in Client : arg[c] <= client_sigil
    /\ \A c, d \in Client : arg[c] = client_sigil /\ arg[d] = client_sigil /\ client_sigil # 0 => c = d
    /\ \A c \in Client : Allocated(c) => arg[c] # 0 \/ (In("accepted") /\ event.pcb = c)
    /\ In("accepted") => pcb[event.pcb] = "open"
    /\ In("gone") => pcb[event.pcb] = "closed"
    /\ ~In("accepted") /\ relay_client = NOPCB =>
          \A c \in Client : pcb[c] = "open" => arg[c] # client_sigil
    /\ ~In("accepted") /\ relay_client # NOPCB =>
          /\ arg[relay_client] = client_sigil
          /\ pcb[relay_client] = "open" \/ (In("gone") /\ relay_client = event.pcb)

RelayInv == RelayType /\ BufferInv /\ CallInv /\ OrderInv /\ CoverInv /\ ClientInv

(* The parts of the invariant that a step does not touch. *)
LEMMA RelayFrames ==
    ASSUME RelayInv
    PROVE  /\ UNCHANGED <<rbuf, todo>> => BufferInv'
           /\ UNCHANGED <<rbuf, pushed, stream>> => OrderInv'
           /\ UNCHANGED <<rbuf, pushed, stream, relay_client, since, starved>> => CoverInv'
           /\ UNCHANGED <<relay_client, client_sigil, event, pcb, arg>> => ClientInv'
<1>1. UNCHANGED <<rbuf, todo>> => BufferInv'
  BY DEF RelayInv, BufferInv
<1>2. UNCHANGED <<rbuf, pushed, stream>> => OrderInv'
  BY DEF RelayInv, OrderInv
<1>3. UNCHANGED <<rbuf, pushed, stream, relay_client, since, starved>> => CoverInv'
  BY DEF RelayInv, CoverInv
<1>4. UNCHANGED <<relay_client, client_sigil, event, pcb, arg>> => ClientInv'
  BY DEF RelayInv, ClientInv, In, Allocated
<1> QED
  BY <1>1, <1>2, <1>3, <1>4

(* The tcpip thread takes the first message. *)
LEMMA TakeFirst ==
    ASSUME RelayInv, tcpip_queue # << >>
    PROVE  /\ Head(tcpip_queue) \in Message /\ Head(tcpip_queue) = tcpip_queue[1]
           /\ 1 \in 1 .. Len(tcpip_queue) /\ Tail(tcpip_queue) \in Seq(Message)
           /\ \A i \in 1 .. Len(Tail(tcpip_queue)) :
                 /\ i + 1 \in 1 .. Len(tcpip_queue) /\ i + 1 # 1
                 /\ Tail(tcpip_queue)[i] = tcpip_queue[i + 1]
<1> DEFINE n == Len(tcpip_queue)
           t == Tail(tcpip_queue)
<1>1. tcpip_queue \in Seq(Message)
  BY DEF RelayInv, RelayType
<1>2. n \in Nat /\ n # 0
  BY <1>1, EmptySeq
<1>3. t \in Seq(Message) /\ Len(t) = n - 1 /\ Head(tcpip_queue) \in Message
  BY <1>1, HeadTailProperties
<1>4. Head(tcpip_queue) = tcpip_queue[1] /\ \A i \in 1 .. n - 1 : t[i] = tcpip_queue[i + 1]
  BY <1>1, <1>2
<1> HIDE DEF n, t
<1>5. 1 \in 1 .. n /\ \A i \in 1 .. n - 1 : i + 1 \in 1 .. n /\ i + 1 # 1
  BY <1>2
<1> QED
  BY <1>3, <1>4, <1>5 DEF n, t

(* A message is added at the end. *)
LEMMA AddLast ==
    ASSUME RelayInv, NEW m \in Message
    PROVE  /\ Append(tcpip_queue, m) \in Seq(Message) /\ Len(tcpip_queue) \in Nat
           /\ \A i \in 1 .. Len(Append(tcpip_queue, m)) :
                 \/ i \in 1 .. Len(tcpip_queue) /\ Append(tcpip_queue, m)[i] = tcpip_queue[i]
                 \/ i = Len(tcpip_queue) + 1 /\ Append(tcpip_queue, m)[i] = m
<1> DEFINE n == Len(tcpip_queue)
           a == Append(tcpip_queue, m)
<1>1. tcpip_queue \in Seq(Message)
  BY DEF RelayInv, RelayType
<1>2. /\ n \in Nat /\ a \in Seq(Message) /\ Len(a) = n + 1
      /\ a[n + 1] = m /\ \A i \in 1 .. n : a[i] = tcpip_queue[i]
  BY <1>1, LenProperties, AppendProperties
<1> HIDE DEF n, a
<1>3. \A i \in 1 .. n + 1 : i \in 1 .. n \/ i = n + 1
  BY <1>2
<1> QED
  BY <1>2, <1>3 DEF n, a

(* A segment that is taken from the queue leaves the calls as they are. *)
LEMMA CallsKept ==
    ASSUME RelayInv, tcpip_queue # << >>, tcpip_queue' = Tail(tcpip_queue),
           UNCHANGED <<todo, waiting, pushed>>,
           relay_client' \in {relay_client, NOPCB} \/ since'[relay_client'] = pushed,
           relay_client' = relay_client => since' = since
    PROVE  CallInv'
<1> DEFINE t == Tail(tcpip_queue)
<1>1. ASSUME NEW i \in 1 .. Len(t)
      PROVE  /\ t[i].type \in {"write", "output"} => waiting' /\ todo' # << >>
             /\ t[i].type = "write" =>
                   /\ Head(todo)' = "rbuf_flush"
                   /\ \/ relay_client' \in {t[i].pcb, NOPCB}
                      \/ since'[relay_client'] = pushed'
             /\ t[i].type = "output" => Head(todo)' = "output"
  <2>1. i + 1 \in 1 .. Len(tcpip_queue) /\ t[i] = tcpip_queue[i + 1]
    BY TakeFirst
  <2> HIDE DEF t
  <2> QED
    BY <2>1 DEF RelayInv, CallInv
<1>2. ASSUME NEW i \in 1 .. Len(t), NEW j \in 1 .. Len(t),
             t[i].type \in {"write", "output"}, t[j].type \in {"write", "output"}
      PROVE  i = j
  <2>1. /\ i + 1 \in 1 .. Len(tcpip_queue) /\ t[i] = tcpip_queue[i + 1]
        /\ j + 1 \in 1 .. Len(tcpip_queue) /\ t[j] = tcpip_queue[j + 1]
    BY TakeFirst
  <2> HIDE DEF t
  <2>2. i + 1 = j + 1
    BY <1>2, <2>1 DEF RelayInv, CallInv
  <2>3. Len(t) \in Nat
    BY TakeFirst, LenProperties DEF t
  <2> QED
    BY <2>2, <2>3
<1> QED
  BY <1>1, <1>2 DEF CallInv

(* Once the main thread's message is taken, none of its messages is left. *)
LEMMA CallsDone ==
    ASSUME RelayInv, tcpip_queue # << >>, tcpip_queue' = Tail(tcpip_queue),
           Head(tcpip_queue).type \in {"write", "output"}
    PROVE  CallInv' /\ waiting /\ todo # << >>
           /\ (Head(tcpip_queue).type = "output" => Head(todo) = "output")
           /\ (Head(tcpip_queue).type = "write" =>
                  \/ relay_client \in {Head(tcpip_queue).pcb, NOPCB}
                  \/ since[relay_client] = pushed)
<1> DEFINE t == Tail(tcpip_queue)
<1>0. Head(tcpip_queue) = tcpip_queue[1] /\ 1 \in 1 .. Len(tcpip_queue)
  BY TakeFirst
<1>1. ASSUME NEW i \in 1 .. Len(t) PROVE t[i].type \notin {"write", "output"}
  <2>1. i + 1 \in 1 .. Len(tcpip_queue) /\ t[i] = tcpip_queue[i + 1] /\ i + 1 # 1
    BY TakeFirst
  <2> HIDE DEF t
  <2> QED
    BY <1>0, <2>1 DEF RelayInv, CallInv
<1>2. CallInv'
  BY <1>1 DEF CallInv
<1> QED
  BY <1>0, <1>2 DEF RelayInv, CallInv

(* The main thread calls: it had no message in the queue. *)
LEMMA CallsMade ==
    ASSUME RelayInv, ~waiting, relay_client \in Client, todo # << >>,
           UNCHANGED <<todo, pushed, relay_client, since>>, waiting',
           NEW y \in {"write", "output"}, Head(todo) = (IF y = "write" THEN "rbuf_flush" ELSE "output"),
           tcpip_queue' = Append(tcpip_queue, [type |-> y, pcb |-> relay_client])
    PROVE  CallInv' /\ tcpip_queue' \in Seq(Message)
<1> DEFINE m == [type |-> y, pcb |-> relay_client]
           a == Append(tcpip_queue, m)
           n == Len(tcpip_queue)
<1>1. m \in Message
  BY DEF Message
<1>2. m.type = y /\ m.pcb = relay_client
  OBVIOUS
<1> HIDE DEF m
<1>3. \A i \in 1 .. n : tcpip_queue[i].type \notin {"write", "output"}
  BY DEF RelayInv, CallInv
<1>4. a \in Seq(Message) /\ n \in Nat
      /\ \A i \in 1 .. Len(a) : (i \in 1 .. n /\ a[i] = tcpip_queue[i]) \/ (i = n + 1 /\ a[i] = m)
  BY <1>1, AddLast
<1>5. tcpip_queue' = a
  BY DEF m
<1> HIDE DEF a, n
<1>6. \A i \in 1 .. Len(a) : a[i].type \in {"write", "output"} => i = n + 1 /\ a[i] = m
  BY <1>3, <1>4
<1>7. \A i \in 1 .. Len(a) :
         /\ a[i].type \in {"write", "output"} => waiting' /\ todo' # << >>
         /\ a[i].type = "write" => Head(todo)' = "rbuf_flush" /\ relay_client' = a[i].pcb
         /\ a[i].type = "output" => Head(todo)' = "output"
  BY <1>2, <1>6
<1>8. \A i, j \in 1 .. Len(a) :
         a[i].type \in {"write", "output"} /\ a[j].type \in {"write", "output"} => i = j
  BY <1>6
<1>9. CallInv'
  BY <1>5, <1>7, <1>8 DEF CallInv
<1> QED
  BY <1>4, <1>5, <1>9

(* The main thread's own work, without a message in the queue. *)
LEMMA CallsNone ==
    ASSUME RelayInv, ~waiting \/ todo = << >>, UNCHANGED tcpip_queue PROVE CallInv'
<1>1. \A i \in 1 .. Len(tcpip_queue) : tcpip_queue[i].type \notin {"write", "output"}
  BY DEF RelayInv, CallInv
<1> QED
  BY <1>1 DEF CallInv

(* The main thread takes a byte from the receiver. *)
LEMMA GpsByteStep ==
    ASSUME RelayInv, NEW gap \in BOOLEAN, NEW complete \in BOOLEAN, GpsByte(gap, complete)
    PROVE  RelayInv'
<1> DEFINE T == {"push", "rbuf_flush", "output"}
<1>1. todo = << >> /\ UNCHANGED <<rbuf, relay_client, client_sigil, waiting, pushed, tcpip_queue, event>>
      /\ UNCHANGED <<pcb, arg, stream, since, starved>>
      /\ todo' = (IF gap THEN relay_flush ELSE << >>) \o <<"push">> \o (IF complete THEN relay_flush ELSE << >>)
  BY DEF GpsByte, relay, lwip, hist
<1>2. todo' \in Seq(T)
  <2> DEFINE x == IF gap THEN relay_flush ELSE << >>
             y == IF complete THEN relay_flush ELSE << >>
             p == <<"push">>
  <2>1. x \in Seq(T) /\ y \in Seq(T) /\ p \in Seq(T)
    <3>1. <<"rbuf_flush", "output">> \in Seq(T) /\ << >> \in Seq(T) /\ <<"push">> \in Seq(T)
      OBVIOUS
    <3> HIDE DEF T
    <3> QED
      BY <3>1 DEF relay_flush
  <2>2. todo' = (x \o p) \o y
    BY <1>1
  <2> HIDE DEF x, y, p, T
  <2>3. x \o p \in Seq(T)
    BY <2>1, ConcatProperties
  <2> DEFINE z == x \o p
  <2> HIDE DEF z
  <2>4. z \o y \in Seq(T)
    BY <2>1, <2>3, ConcatProperties DEF z
  <2> QED
    BY <2>2, <2>4 DEF z
<1>3. RelayType'
  BY <1>1, <1>2 DEF RelayInv, RelayType
<1>4. BufferInv'
  BY <1>1 DEF RelayInv, BufferInv
<1>5. CallInv'
  BY <1>1, CallsNone
<1> QED
  BY <1>1, <1>3, <1>4, <1>5, RelayFrames DEF RelayInv

(* relay_push adds the byte to the buffer, which has room. *)
LEMMA PushStep == ASSUME RelayInv, relay_push PROVE RelayInv'
<1> DEFINE T == {"push", "rbuf_flush", "output"}
           k == pushed + 1
           r == Append(rbuf, k)
           n == Len(rbuf)
<1>1. /\ todo # << >> /\ Head(todo) = "push" /\ ~waiting /\ pushed' = k
      /\ UNCHANGED <<relay_client, client_sigil, waiting, tcpip_queue, event, pcb, arg, stream, since, starved>>
      /\ rbuf' = (IF Len(rbuf) < RBUF_SIZE THEN r ELSE rbuf)
      /\ todo' = (IF Len(rbuf') = RBUF_SIZE THEN <<"rbuf_flush">> ELSE << >>) \o Tail(todo)
  BY DEF relay_push, Doing, lwip, hist
<1>2. rbuf \in Seq(Nat) /\ pushed \in Nat /\ n \in Nat /\ k \in Nat /\ RBUF_SIZE \in Nat
  BY RelayAssumption DEF RelayInv, RelayType
<1>3. n < RBUF_SIZE
  BY <1>1, <1>2 DEF RelayInv, BufferInv
<1>4. /\ rbuf' = r /\ r \in Seq(Nat) /\ Len(r) = n + 1 /\ r[n + 1] = k
      /\ \A i \in 1 .. n : r[i] = rbuf[i]
  BY <1>1, <1>2, <1>3, AppendProperties
<1>5. Tail(todo) \in Seq(T)
  BY <1>1, HeadTailProperties DEF RelayInv, RelayType
<1>6. /\ todo' \in Seq(T)
      /\ n + 1 = RBUF_SIZE => todo' # << >> /\ Head(todo') = "rbuf_flush"
  <2> DEFINE t == Tail(todo)
             f == <<"rbuf_flush">>
             e == << >>
  <2>1. f \in Seq(T) /\ e \in Seq(T) /\ f[1] = "rbuf_flush" /\ Len(f) = 1
    OBVIOUS
  <2>2. todo' = IF n + 1 = RBUF_SIZE THEN f \o t ELSE e \o t
    BY <1>1, <1>4
  <2>3. t \in Seq(T) /\ Len(t) \in Nat
    BY <1>5
  <2> HIDE DEF t, f, e, T
  <2>4. f \o t \in Seq(T) /\ Len(f \o t) = 1 + Len(t) /\ (f \o t)[1] = "rbuf_flush"
    <3>1. 1 \in 1 .. 1 + Len(t) /\ 1 <= Len(f)
      BY <2>1, <2>3
    <3>2. /\ f \o t \in Seq(T) /\ Len(f \o t) = Len(f) + Len(t)
          /\ \A i \in 1 .. Len(f) + Len(t) : (f \o t)[i] = IF i <= Len(f) THEN f[i] ELSE t[i - Len(f)]
      BY <2>1, <2>3, ConcatProperties
    <3> QED
      BY <2>1, <3>1, <3>2
  <2>5. e \o t \in Seq(T)
    BY <2>1, <2>3, ConcatProperties
  <2>6. f \o t # << >> /\ Head(f \o t) = "rbuf_flush"
    BY <2>3, <2>4, EmptySeq
  <2> QED
    BY <2>2, <2>4, <2>5, <2>6 DEF T
<1> HIDE DEF r, n, T
<1>7. RelayType'
  BY <1>1, <1>2, <1>4, <1>6 DEF RelayInv, RelayType, T
<1>8. BufferInv'
  BY <1>2, <1>3, <1>4, <1>6 DEF BufferInv
<1>9. CallInv'
  BY <1>1, CallsNone
<1>10. \A i \in 1 .. n + 1 : i \in 1 .. n \/ i = n + 1
  BY <1>2
<1>11. OrderInv'
  <2>1. /\ \A i \in 1 .. n : rbuf[i] \in Nat /\ rbuf[i] <= pushed
        /\ \A i, j \in 1 .. n : i < j => rbuf[i] < rbuf[j]
    BY <1>2, ElementOfSeq DEF n, RelayInv, OrderInv, Rising
  <2>2. Rising(r)
    <3> SUFFICES ASSUME NEW i \in 1 .. n + 1, NEW j \in 1 .. n + 1, i < j PROVE r[i] < r[j]
      BY <1>4 DEF Rising
    <3>1. i \in 1 .. n
      BY <1>2
    <3>2. CASE j = n + 1
      BY <1>2, <1>4, <2>1, <3>1, <3>2
    <3>3. CASE j \in 1 .. n
      BY <1>4, <2>1, <3>1, <3>3
    <3> QED
      BY <1>10, <3>2, <3>3
  <2>3. \A i \in 1 .. n + 1 : r[i] <= k
    BY <1>2, <1>4, <1>10, <2>1
  <2>4. ASSUME NEW c \in Client, NEW i \in 1 .. Len(stream[c])
        PROVE  stream[c][i] <= k /\ \A j \in 1 .. n + 1 : stream[c][i] < r[j]
    <3>1. stream[c][i] \in Nat
      BY ElementOfSeq DEF RelayInv, RelayType
    <3>2. stream[c][i] <= pushed /\ \A j \in 1 .. n : stream[c][i] < rbuf[j]
      BY DEF n, RelayInv, OrderInv
    <3>3. stream[c][i] < k
      BY <1>2, <3>1, <3>2
    <3>4. stream[c][i] <= k
      BY <1>2, <3>1, <3>3
    <3> QED
      BY <1>4, <1>10, <3>2, <3>3, <3>4
  <2>5. \A c \in Client : Rising(stream[c])
    BY DEF RelayInv, OrderInv
  <2> QED
    BY <1>1, <1>4, <2>2, <2>3, <2>4, <2>5 DEF OrderInv
<1>12. CoverInv'
  <2> SUFFICES ASSUME NEW c \in Client, c = relay_client, ~starved[c],
                      NEW i \in Nat, since[c] < i, i <= k
               PROVE  Has(stream[c], i) \/ Has(r, i)
    BY <1>1, <1>4 DEF CoverInv
  <2>1. CASE i <= pushed
    <3>1. Has(stream[c], i) \/ Has(rbuf, i)
      BY <2>1 DEF RelayInv, CoverInv
    <3>2. Has(rbuf, i) => Has(r, i)
      <4> SUFFICES ASSUME NEW j \in 1 .. n, rbuf[j] = i PROVE Has(r, i)
        BY DEF Has, n
      <4>1. j \in 1 .. n + 1 /\ r[j] = i
        BY <1>2, <1>4
      <4> QED
        BY <1>4, <4>1 DEF Has
    <3> QED
      BY <3>1, <3>2
  <2>2. CASE ~(i <= pushed)
    <3>1. i = k /\ n + 1 \in 1 .. n + 1
      BY <1>2, <2>2
    <3> QED
      BY <1>4, <3>1 DEF Has
  <2> QED
    BY <2>1, <2>2
<1>13. ClientInv'
  BY <1>1, RelayFrames
<1> QED
  BY <1>7, <1>8, <1>9, <1>11, <1>12, <1>13 DEF RelayInv

(* rbuf_flush and the output of relay_flush: the main thread calls, or has nothing to do. *)
LEMMA FlushStep == ASSUME RelayInv, rbuf_flush \/ output PROVE RelayInv'
<1> DEFINE T == {"push", "rbuf_flush", "output"}
<1>0. RBUF_SIZE \in Nat \ {0} /\ todo # << >> /\ ~waiting /\ Tail(todo) \in Seq(T)
  <2>1. RBUF_SIZE \in Nat \ {0} /\ todo # << >> /\ ~waiting /\ todo \in Seq(T)
    BY RelayAssumption DEF rbuf_flush, output, Doing, RelayInv, RelayType
  <2> QED
    BY <2>1, HeadTailProperties
<1>1. CASE rbuf_flush /\ relay_client # NOPCB /\ rbuf # << >>
  <2>1. /\ Head(todo) = "rbuf_flush" /\ waiting' = TRUE
        /\ UNCHANGED <<rbuf, todo, relay_client, client_sigil, pushed, event, pcb, arg, stream, since, starved>>
        /\ tcpip_queue' = Append(tcpip_queue, [type |-> "write", pcb |-> relay_client])
    BY <1>1 DEF rbuf_flush, Doing, lwip, hist
  <2>2. relay_client \in Client /\ waiting' /\ waiting' \in BOOLEAN
    BY <1>1, <2>1 DEF RelayInv, RelayType
  <2>3. CallInv' /\ tcpip_queue' \in Seq(Message)
    BY <1>0, <2>1, <2>2, CallsMade
  <2>4. RelayType'
    BY <2>1, <2>2, <2>3 DEF RelayInv, RelayType
  <2> QED
    BY <2>1, <2>3, <2>4, RelayFrames DEF RelayInv
<1>2. CASE rbuf_flush /\ ~(relay_client # NOPCB /\ rbuf # << >>)
  <2>1. /\ UNCHANGED <<tcpip_queue, waiting, relay_client, client_sigil, pushed, event, pcb, arg, stream, since, starved>>
        /\ rbuf' = << >> /\ todo' = Tail(todo)
    BY <1>2 DEF rbuf_flush, lwip, hist
  <2>2. << >> \in Seq(Nat) /\ Len(<< >>) = 0
    OBVIOUS
  <2>3. RelayType'
    BY <1>0, <2>1, <2>2 DEF RelayInv, RelayType
  <2>4. BufferInv'
    BY <1>0, <2>1, <2>2 DEF BufferInv
  <2>5. CallInv'
    BY <1>0, <2>1, CallsNone
  <2>6. OrderInv'
    BY <2>1, <2>2 DEF RelayInv, OrderInv, Rising
  <2>7. CoverInv'
    <3>1. CASE relay_client = NOPCB
      BY <2>1, <3>1, RelayAssumption DEF CoverInv
    <3>2. CASE rbuf = << >>
      BY <2>1, <3>2 DEF RelayInv, CoverInv
    <3> QED
      BY <1>2, <3>1, <3>2
  <2> QED
    BY <2>1, <2>3, <2>4, <2>5, <2>6, <2>7, RelayFrames DEF RelayInv
<1>3. CASE output /\ relay_client # NOPCB /\ needs_flush
  <2>1. /\ Head(todo) = "output" /\ waiting' = TRUE
        /\ UNCHANGED <<rbuf, todo, relay_client, client_sigil, pushed, event, pcb, arg, stream, since, starved>>
        /\ tcpip_queue' = Append(tcpip_queue, [type |-> "output", pcb |-> relay_client])
    BY <1>3 DEF output, Doing, lwip, hist
  <2>2. relay_client \in Client /\ waiting' /\ waiting' \in BOOLEAN
    BY <1>3, <2>1 DEF RelayInv, RelayType
  <2>3. CallInv' /\ tcpip_queue' \in Seq(Message)
    BY <1>0, <2>1, <2>2, CallsMade
  <2>4. RelayType'
    BY <2>1, <2>2, <2>3 DEF RelayInv, RelayType
  <2> QED
    BY <2>1, <2>3, <2>4, RelayFrames DEF RelayInv
<1>4. CASE output /\ ~(relay_client # NOPCB /\ needs_flush)
  <2>1. /\ UNCHANGED <<rbuf, tcpip_queue, waiting, relay_client, client_sigil, pushed, event, pcb, arg, stream>>
        /\ UNCHANGED <<since, starved>> /\ Head(todo) = "output" /\ todo' = Tail(todo)
    BY <1>4 DEF output, Doing, lwip, hist
  <2>2. RelayType'
    BY <1>0, <2>1 DEF RelayInv, RelayType
  <2>3. BufferInv'
    BY <2>1 DEF RelayInv, BufferInv
  <2>4. CallInv'
    BY <1>0, <2>1, CallsNone
  <2> QED
    BY <2>1, <2>2, <2>3, <2>4, RelayFrames DEF RelayInv
<1> QED
  BY <1>1, <1>2, <1>3, <1>4

(* lwIP gets the bytes of the buffer, and the main thread goes on. *)
LEMMA ApiWriteStep == ASSUME RelayInv, ApiWrite PROVE RelayInv'
<1> DEFINE T == {"push", "rbuf_flush", "output"}
           M == Head(tcpip_queue)
           n == Len(rbuf)
<1>1. /\ tcpip_queue # << >> /\ M.type = "write" /\ event = NOPCB
      /\ rbuf' = << >> /\ todo' = Tail(todo) /\ waiting' = FALSE /\ tcpip_queue' = Tail(tcpip_queue)
      /\ UNCHANGED <<relay_client, client_sigil, pushed, event, pcb, arg, since>>
  BY DEF ApiWrite, Taken, lwip
<1>2. PICK x \in Reached(M.pcb), ok \in BOOLEAN :
         /\ stream' = IF x # NOPCB /\ ok THEN [stream EXCEPT ![x] = stream[x] \o rbuf] ELSE stream
         /\ starved' = IF x # NOPCB /\ ~ok THEN [starved EXCEPT ![x] = TRUE] ELSE starved
  BY DEF ApiWrite
<1>3. M \in Message /\ M.pcb \in Client /\ Tail(tcpip_queue) \in Seq(Message)
  BY <1>1, TakeFirst DEF Message
<1>4. /\ CallInv' /\ waiting /\ todo # << >>
      /\ relay_client \in {M.pcb, NOPCB} \/ since[relay_client] = pushed
  <2>1. M.type \in {"write", "output"}
    BY <1>1
  <2> QED
    BY <1>1, <2>1, CallsDone
<1>5. x \in Client \cup {NOPCB} /\ (pcb[M.pcb] = "open" => x = M.pcb)
  BY <1>2, <1>3 DEF Reached
<1>6. /\ rbuf \in Seq(Nat) /\ n \in Nat /\ pushed \in Nat /\ \A i \in 1 .. n : rbuf[i] \in Nat
      /\ stream \in [Client -> Seq(Nat)] /\ starved \in [Client -> BOOLEAN]
  BY ElementOfSeq DEF RelayInv, RelayType
<1>7. /\ << >> \in Seq(Nat) /\ Len(<< >>) = 0 /\ FALSE \in BOOLEAN /\ TRUE \in BOOLEAN
  OBVIOUS
<1>8. ASSUME NEW c \in Client
      PROVE  LET s == stream[c]
                 k == Len(s)
             IN  /\ s \in Seq(Nat) /\ k \in Nat /\ s \o rbuf \in Seq(Nat) /\ Len(s \o rbuf) = k + n
                 /\ \A i \in 1 .. k : (s \o rbuf)[i] = s[i]
                 /\ \A i \in 1 .. n : (s \o rbuf)[k + i] = rbuf[i]
                 /\ \A i \in 1 .. k + n : i \in 1 .. k \/ (i - k \in 1 .. n /\ (s \o rbuf)[i] = rbuf[i - k])
  <2> DEFINE s == stream[c]
             k == Len(s)
  <2>1. s \in Seq(Nat) /\ k \in Nat
    BY <1>6, LenProperties
  <2>2. /\ s \o rbuf \in Seq(Nat) /\ Len(s \o rbuf) = k + n
        /\ \A i \in 1 .. k + n : (s \o rbuf)[i] = IF i <= k THEN s[i] ELSE rbuf[i - k]
    BY <1>6, <2>1, ConcatProperties
  <2> HIDE DEF s, k, n
  <2>3. /\ \A i \in 1 .. k : i \in 1 .. k + n /\ i <= k
        /\ \A i \in 1 .. n : k + i \in 1 .. k + n /\ ~(k + i <= k) /\ (k + i) - k = i
        /\ \A i \in 1 .. k + n : i \in 1 .. k \/ (i - k \in 1 .. n /\ ~(i <= k))
    BY <1>6, <2>1
  <2>4. \A i \in 1 .. k : (s \o rbuf)[i] = s[i]
    BY <2>2, <2>3
  <2>5. \A i \in 1 .. n : (s \o rbuf)[k + i] = rbuf[i]
    BY <2>2, <2>3
  <2>6. \A i \in 1 .. k + n : i \in 1 .. k \/ (i - k \in 1 .. n /\ (s \o rbuf)[i] = rbuf[i - k])
    BY <2>2, <2>3
  <2> QED
    BY <2>1, <2>2, <2>4, <2>5, <2>6 DEF s, k
<1>9. ASSUME NEW c \in Client
      PROVE  /\ stream'[c] = (IF x = c /\ ok THEN stream[c] \o rbuf ELSE stream[c])
             /\ starved'[c] <=> (starved[c] \/ (x = c /\ ~ok))
  BY <1>2, <1>5, <1>6, RelayAssumption
<1>10. RelayType'
  <2>1. stream' \in [Client -> Seq(Nat)]
    BY <1>2, <1>5, <1>6, <1>8
  <2>2. starved' \in [Client -> BOOLEAN]
    BY <1>2, <1>5, <1>6, <1>7
  <2>3. Tail(todo) \in Seq(T)
    BY <1>4, HeadTailProperties DEF RelayInv, RelayType
  <2> QED
    BY <1>1, <1>3, <1>7, <2>1, <2>2, <2>3 DEF RelayInv, RelayType
<1>11. BufferInv'
  BY <1>1, <1>7, RelayAssumption DEF BufferInv
<1>12. OrderInv'
  <2>1. ASSUME NEW c \in Client PROVE Rising(stream'[c]) /\ \A i \in 1 .. Len(stream'[c]) : stream'[c][i] <= pushed
    <3> DEFINE s == stream[c]
               k == Len(s)
               z == s \o rbuf
    <3>1. /\ Rising(s) /\ Rising(rbuf) /\ \A i \in 1 .. n : rbuf[i] <= pushed
          /\ \A i \in 1 .. k : s[i] <= pushed /\ \A j \in 1 .. n : s[i] < rbuf[j]
      BY DEF RelayInv, OrderInv
    <3>2. /\ k \in Nat /\ Len(z) = k + n /\ \A i \in 1 .. k : z[i] = s[i]
          /\ \A i \in 1 .. k + n : i \in 1 .. k \/ (i - k \in 1 .. n /\ z[i] = rbuf[i - k])
      BY <1>8
    <3> HIDE DEF z
    <3>3. \A i, j \in 1 .. k : i < j => s[i] < s[j]
      BY <3>1 DEF Rising
    <3>4. \A i, j \in 1 .. n : i < j => rbuf[i] < rbuf[j]
      BY <3>1 DEF Rising
    <3> HIDE DEF s, k, n
    <3>5. ASSUME NEW i \in 1 .. k + n, NEW j \in 1 .. k + n, i < j PROVE z[i] < z[j]
      <4>1. CASE i \in 1 .. k /\ j \in 1 .. k
        BY <3>2, <3>3, <3>5, <4>1
      <4>2. CASE i \in 1 .. k /\ ~(j \in 1 .. k)
        BY <3>1, <3>2, <4>2
      <4>3. CASE ~(i \in 1 .. k)
        <5>1. ~(j \in 1 .. k) /\ i - k < j - k
          BY <1>6, <3>2, <3>5, <4>3
        <5> QED
          BY <3>2, <3>4, <4>3, <5>1
      <4> QED
        BY <4>1, <4>2, <4>3
    <3>6. Rising(z)
      BY <3>2, <3>5 DEF Rising
    <3>7. \A i \in 1 .. k + n : z[i] <= pushed
      BY <3>1, <3>2
    <3>8. CASE x = c /\ ok
      BY <1>9, <3>2, <3>6, <3>7, <3>8 DEF z, s
    <3>9. CASE ~(x = c /\ ok)
      BY <1>9, <3>1, <3>9 DEF s, k
    <3> QED
      BY <3>8, <3>9
  <2> QED
    BY <1>1, <1>7, <2>1 DEF OrderInv, Rising
<1>13. CoverInv'
  <2> SUFFICES ASSUME NEW c \in Client, c = relay_client, ~starved'[c],
                      NEW i \in Nat, since[c] < i, i <= pushed
               PROVE  Has(stream'[c], i)
    BY <1>1 DEF CoverInv
  <2>1. since[c] \in Nat /\ c # NOPCB
    BY RelayAssumption DEF RelayInv, RelayType
  <2>2. since[c] # pushed
    BY <1>6, <2>1
  <2>3. c = M.pcb
    BY <1>4, <2>1, <2>2
  <2>4. pcb[c] = "open"
    BY <1>1, <2>1 DEF RelayInv, ClientInv, In
  <2>5. x = c /\ ok /\ ~starved[c]
    BY <1>5, <1>9, <2>3, <2>4
  <2>6. stream'[c] = stream[c] \o rbuf
    BY <1>9, <2>5
  <2>7. Has(stream[c], i) \/ Has(rbuf, i)
    BY <2>5 DEF RelayInv, CoverInv
  <2> DEFINE s == stream[c]
             k == Len(s)
             z == s \o rbuf
  <2>8. /\ k \in Nat /\ Len(z) = k + n /\ (\A j \in 1 .. k : z[j] = s[j])
        /\ \A j \in 1 .. n : z[k + j] = rbuf[j]
    BY <1>8
  <2>9. (\E j \in 1 .. k : s[j] = i) \/ (\E j \in 1 .. n : rbuf[j] = i)
    BY <2>7 DEF Has
  <2> HIDE DEF z, s, k, n
  <2>10. (\A j \in 1 .. k : j \in 1 .. k + n) /\ (\A j \in 1 .. n : k + j \in 1 .. k + n)
    BY <1>6, <2>8
  <2>11. \E j \in 1 .. k + n : z[j] = i
    BY <2>8, <2>9, <2>10
  <2>12. Has(z, i)
    BY <2>8, <2>11 DEF Has
  <2> QED
    BY <2>6, <2>12 DEF z, s
<1> QED
  BY <1>1, <1>4, <1>10, <1>11, <1>12, <1>13, RelayFrames DEF RelayInv

(* tcp_output is called, and the main thread goes on. *)
LEMMA ApiOutputStep == ASSUME RelayInv, ApiOutput PROVE RelayInv'
<1> DEFINE T == {"push", "rbuf_flush", "output"}
<1>1. /\ tcpip_queue # << >> /\ Head(tcpip_queue).type = "output"
      /\ todo' = Tail(todo) /\ waiting' = FALSE /\ tcpip_queue' = Tail(tcpip_queue)
      /\ UNCHANGED <<rbuf, relay_client, client_sigil, pushed, event, pcb, arg, stream, since, starved>>
  BY DEF ApiOutput, Taken, lwip, hist
<1>2. CallInv' /\ waiting /\ todo # << >> /\ Head(todo) = "output"
  <2>1. Head(tcpip_queue).type \in {"write", "output"}
    BY <1>1
  <2> QED
    BY <1>1, <2>1, CallsDone
<1>3. RelayType'
  <2>1. Tail(todo) \in Seq(T)
    BY <1>2, HeadTailProperties DEF RelayInv, RelayType
  <2>2. Tail(tcpip_queue) \in Seq(Message) /\ FALSE \in BOOLEAN
    BY <1>1, TakeFirst
  <2> QED
    BY <1>1, <2>1, <2>2 DEF RelayInv, RelayType
<1>4. BufferInv'
  BY <1>1, <1>2 DEF RelayInv, BufferInv
<1> QED
  BY <1>1, <1>2, <1>3, <1>4, RelayFrames DEF RelayInv

(* A segment arrives. *)
LEMMA PacketStep ==
    ASSUME RelayInv, NEW c \in Client, NEW y \in {"syn", "data", "fin", "rst"}, Packet(c, y)
    PROVE  RelayInv'
<1> DEFINE m == [type |-> y, pcb |-> c]
           a == Append(tcpip_queue, m)
           n == Len(tcpip_queue)
<1>1. /\ tcpip_queue' = a
      /\ UNCHANGED <<rbuf, relay_client, client_sigil, todo, waiting, pushed, event, pcb, arg, stream, since, starved>>
  BY DEF Packet, relay, main, lwip, hist
<1>2. m \in Message /\ m.type = y
  BY DEF Message
<1> HIDE DEF m
<1>3. a \in Seq(Message) /\ n \in Nat
      /\ \A i \in 1 .. Len(a) : (i \in 1 .. n /\ a[i] = tcpip_queue[i]) \/ (i = n + 1 /\ a[i] = m)
  BY <1>2, AddLast
<1> HIDE DEF a
<1>4. \A i \in 1 .. Len(a) : a[i].type \in {"write", "output"} => i \in 1 .. n /\ a[i] = tcpip_queue[i]
  BY <1>2, <1>3
<1>5. CallInv'
  <2>1. \A i \in 1 .. Len(a) :
          /\ a[i].type \in {"write", "output"} => waiting' /\ todo' # << >>
          /\ a[i].type = "write" =>
                /\ Head(todo)' = "rbuf_flush"
                /\ \/ relay_client' \in {a[i].pcb, NOPCB}
                   \/ since'[relay_client'] = pushed'
          /\ a[i].type = "output" => Head(todo)' = "output"
    BY <1>1, <1>4 DEF RelayInv, CallInv
  <2>2. \A i, j \in 1 .. Len(a) :
          a[i].type \in {"write", "output"} /\ a[j].type \in {"write", "output"} => i = j
    BY <1>4 DEF RelayInv, CallInv
  <2> QED
    BY <1>1, <2>1, <2>2 DEF CallInv
<1>6. RelayType'
  BY <1>1, <1>3 DEF RelayInv, RelayType
<1> QED
  BY <1>1, <1>5, <1>6, RelayFrames DEF RelayInv

(* relay_accept opens the new connection and closes the old one. *)
LEMMA AcceptStep == ASSUME RelayInv, relay_accept PROVE RelayInv'
<1> DEFINE C == Head(tcpip_queue).pcb
<1>1. /\ tcpip_queue # << >> /\ event = NOPCB /\ tcpip_queue' = Tail(tcpip_queue)
      /\ pcb' = [d \in Client |-> IF d = C THEN "open" ELSE IF d = relay_client THEN "closed" ELSE pcb[d]]
      /\ event' = [type |-> "accepted", pcb |-> C]
      /\ UNCHANGED <<rbuf, relay_client, client_sigil, todo, waiting, pushed, arg, stream, since, starved>>
  BY DEF relay_accept, Taken, relay, main, hist
<1>2. C \in Client /\ Tail(tcpip_queue) \in Seq(Message)
  BY <1>1, TakeFirst DEF Message
<1> HIDE DEF C
<1>3. event' \in Event /\ event'.type = "accepted" /\ event'.pcb = C /\ event' # NOPCB
  BY <1>1, <1>2, RelayAssumption DEF Event
<1>4. RelayType'
  BY <1>1, <1>2, <1>3 DEF RelayInv, RelayType
<1>5. CallInv'
  BY <1>1, CallsKept
<1>6. ClientInv'
  <2>1. In("accepted")' /\ ~In("gone")' /\ pcb'[C] = "open"
    BY <1>1, <1>2, <1>3 DEF In
  <2>2. ~In("accepted") /\ \A d \in Client : Allocated(d) => arg[d] # 0
    BY <1>1 DEF RelayInv, ClientInv, In
  <2>3. ASSUME NEW d \in Client, Allocated(d)' PROVE arg[d] # 0 \/ event'.pcb = d
    <3>1. CASE d # C /\ d = relay_client
      <4>1. pcb[d] = "open"
        BY <1>1, <2>2, <3>1, RelayAssumption DEF RelayInv, ClientInv, In
      <4> QED
        BY <2>2, <4>1 DEF Allocated
    <3>2. CASE d # C /\ d # relay_client
      <4>1. Allocated(d)
        BY <1>1, <2>3, <3>2 DEF Allocated
      <4> QED
        BY <2>2, <4>1
    <3> QED
      BY <1>3, <3>1, <3>2
  <2>4. /\ \A d \in Client : arg[d] <= client_sigil
        /\ \A c, d \in Client : arg[c] = client_sigil /\ arg[d] = client_sigil /\ client_sigil # 0 => c = d
    BY DEF RelayInv, ClientInv
  <2> QED
    BY <1>1, <1>3, <2>1, <2>3, <2>4 DEF ClientInv
<1> QED
  BY <1>1, <1>4, <1>5, <1>6, RelayFrames DEF RelayInv

(* The new client takes the place of the old one. *)
LEMMA AcceptedStep == ASSUME RelayInv, relay_accepted PROVE RelayInv'
<1> DEFINE C == event.pcb
           g == client_sigil + 1
<1>1. /\ event # NOPCB /\ event.type = "accepted" /\ relay_client' = C /\ client_sigil' = g
      /\ arg' = [arg EXCEPT ![C] = g] /\ since' = [since EXCEPT ![C] = pushed] /\ event' = NOPCB
      /\ UNCHANGED <<rbuf, todo, waiting, pushed, tcpip_queue, pcb, stream, starved>>
  BY DEF relay_accepted, relay, main
<1>2. C \in Client /\ g \in Nat /\ client_sigil \in Nat /\ g # 0 /\ pcb[C] = "open" /\ pushed \in Nat
  <2>1. event \in Event
    BY <1>1 DEF RelayInv, RelayType
  <2>2. C \in Client /\ client_sigil \in Nat /\ pushed \in Nat
    BY <2>1 DEF Event, RelayInv, RelayType
  <2>3. pcb[C] = "open"
    BY <1>1 DEF RelayInv, ClientInv, In
  <2> QED
    BY <2>2, <2>3
<1> HIDE DEF C
<1>3. RelayType'
  <2> HIDE DEF g
  <2> QED
    BY <1>1, <1>2 DEF RelayInv, RelayType
<1>4. /\ arg'[C] = g /\ since'[C] = pushed
      /\ \A d \in Client \ {C} : arg'[d] = arg[d]
  BY <1>1, <1>2 DEF RelayInv, RelayType
<1>5. CallInv'
  <2>1. since'[relay_client'] = pushed'
    BY <1>1, <1>4
  <2> QED
    BY <1>1, <2>1 DEF RelayInv, CallInv
<1>6. CoverInv'
  <2> SUFFICES ASSUME NEW n \in Nat, since'[C] < n, n <= pushed PROVE FALSE
    BY <1>1, RelayAssumption DEF CoverInv
  <2> QED
    BY <1>2, <1>4
<1>7. ClientInv'
  <2>1. ASSUME NEW d \in Client PROVE arg[d] \in Nat /\ arg[d] <= client_sigil
    BY DEF RelayInv, RelayType, ClientInv
  <2>2. ASSUME NEW d \in Client \ {C} PROVE arg'[d] # g /\ arg'[d] <= g
    <3>1. arg'[d] = arg[d] /\ arg[d] \in Nat /\ arg[d] <= client_sigil
      BY <1>4, <2>1
    <3> QED
      BY <1>2, <3>1
  <2>3. ASSUME NEW d \in Client, Allocated(d)' PROVE arg'[d] # 0
    <3>1. CASE d = C
      BY <1>2, <1>4, <3>1
    <3>2. CASE d # C
      BY <1>1, <1>4, <2>3, <3>2 DEF RelayInv, ClientInv, Allocated, C
    <3> QED
      BY <3>1, <3>2
  <2>4. g <= g
    BY <1>2
  <2>5. ~In("accepted")' /\ ~In("gone")' /\ C # NOPCB
    BY <1>1, <1>2, RelayAssumption DEF In
  <2> HIDE DEF g
  <2>6. \A d \in Client : arg'[d] <= g /\ (arg'[d] = g => d = C)
    BY <1>4, <2>2, <2>4
  <2> QED
    BY <1>1, <1>2, <1>4, <2>3, <2>5, <2>6 DEF ClientInv
<1> QED
  BY <1>1, <1>3, <1>5, <1>6, <1>7, RelayFrames DEF RelayInv

(* What the callbacks of a client that has sent data, or a reset, do to the clients. *)
LEMMA SegmentSteps == ASSUME RelayInv, client_recv_data \/ client_err PROVE RelayInv'
<1> DEFINE C == Head(tcpip_queue).pcb
<1>1. /\ tcpip_queue # << >> /\ event = NOPCB /\ tcpip_queue' = Tail(tcpip_queue)
      /\ UNCHANGED <<rbuf, client_sigil, todo, waiting, pushed, event, arg, stream, since, starved>>
  BY DEF client_recv_data, client_err, Taken, relay, main, hist
<1>2. C \in Client /\ Tail(tcpip_queue) \in Seq(Message)
  BY <1>1, TakeFirst DEF Message
<1>3. /\ pcb' = pcb \/ pcb' = [pcb EXCEPT ![C] = "freed"]
      /\ relay_client' \in {relay_client, NOPCB}
      /\ relay_client' # relay_client => arg[C] = client_sigil /\ Allocated(C)
      /\ pcb' # pcb => relay_client' = NOPCB \/ arg[C] # client_sigil
      /\ relay_client' # relay_client => pcb' = [pcb EXCEPT ![C] = "freed"]
  BY DEF client_recv_data, client_err, Forget
<1> HIDE DEF C
<1>4. RelayType'
  <2>1. pcb' \in [Client -> {"none", "open", "closed", "freed"}]
    BY <1>2, <1>3 DEF RelayInv, RelayType
  <2>2. relay_client' \in Client \cup {NOPCB}
    BY <1>3 DEF RelayInv, RelayType
  <2> QED
    BY <1>1, <1>2, <2>1, <2>2 DEF RelayInv, RelayType
<1>5. CallInv'
  BY <1>1, <1>3, CallsKept
<1>6. CoverInv'
  <2>1. relay_client' # NOPCB => relay_client' = relay_client
    BY <1>3
  <2> QED
    BY <1>1, <2>1, RelayAssumption DEF RelayInv, CoverInv
<1>7. ClientInv'
  <2>0. ~In("accepted") /\ ~In("gone") /\ ~In("accepted")' /\ ~In("gone")'
    BY <1>1 DEF In
  <2>1. ASSUME NEW d \in Client
        PROVE  pcb'[d] = pcb[d] \/ (d = C /\ pcb'[d] = "freed")
    BY <1>2, <1>3 DEF RelayInv, RelayType
  <2>2. \A d \in Client : Allocated(d)' => Allocated(d)
    BY <2>1 DEF Allocated
  <2>3. \A d \in Client : pcb'[d] = "open" => pcb[d] = "open"
    BY <2>1
  <2>4. CASE relay_client' = NOPCB
    <3>1. ASSUME NEW d \in Client, pcb'[d] = "open" PROVE arg[d] # client_sigil
      <4>1. CASE relay_client = NOPCB
        BY <2>0, <2>3, <3>1, <4>1 DEF RelayInv, ClientInv
      <4>2. CASE relay_client # NOPCB
        <5>1. arg[C] = client_sigil /\ Allocated(C) /\ pcb'[C] = "freed"
          BY <1>2, <1>3, <2>4, <4>2 DEF RelayInv, RelayType
        <5>2. arg[C] # 0 /\ d # C
          BY <1>2, <2>0, <3>1, <5>1 DEF RelayInv, ClientInv
        <5> QED
          BY <1>2, <5>1, <5>2 DEF RelayInv, ClientInv
      <4> QED
        BY <4>1, <4>2
    <3> QED
      BY <1>1, <2>0, <2>2, <2>4, <3>1 DEF RelayInv, ClientInv
  <2>5. CASE relay_client' # NOPCB
    <3>1. relay_client' = relay_client /\ relay_client \in Client
      BY <1>3, <2>5 DEF RelayInv, RelayType
    <3>2. arg[relay_client] = client_sigil /\ pcb[relay_client] = "open"
      BY <2>0, <2>5, <3>1 DEF RelayInv, ClientInv
    <3>3. pcb'[relay_client] = "open"
      <4>1. CASE pcb' = pcb
        BY <3>2, <4>1
      <4>2. CASE pcb' # pcb
        <5>1. relay_client # C
          BY <1>3, <2>5, <3>2, <4>2
        <5> QED
          BY <2>1, <3>1, <3>2, <5>1
      <4> QED
        BY <4>1, <4>2
    <3> QED
      BY <1>1, <2>0, <2>2, <2>5, <3>1, <3>2, <3>3 DEF RelayInv, ClientInv
  <2> QED
    BY <2>4, <2>5
<1> QED
  BY <1>1, <1>4, <1>5, <1>6, <1>7, RelayFrames DEF RelayInv

(* A client closes its connection; the pointer is cleared in the second half. *)
LEMMA CloseStep == ASSUME RelayInv, client_recv_close PROVE RelayInv'
<1> DEFINE C == Head(tcpip_queue).pcb
<1>1. /\ tcpip_queue # << >> /\ event = NOPCB /\ tcpip_queue' = Tail(tcpip_queue)
      /\ UNCHANGED <<rbuf, relay_client, client_sigil, todo, waiting, pushed, arg, stream, since, starved>>
      /\ pcb' = [pcb EXCEPT ![C] = IF Allocated(C) THEN "closed" ELSE pcb[C]]
      /\ event' = IF Allocated(C) THEN [type |-> "gone", pcb |-> C] ELSE NOPCB
  BY DEF client_recv_close, Taken, relay, main, hist
<1>2. C \in Client /\ Tail(tcpip_queue) \in Seq(Message)
  BY <1>1, TakeFirst DEF Message
<1> HIDE DEF C
<1>3. CallInv'
  BY <1>1, CallsKept
<1>4. CASE ~Allocated(C)
  <2>1. pcb' = pcb /\ event' = event
    BY <1>1, <1>4 DEF RelayInv, RelayType
  <2>2. RelayType'
    BY <1>1, <1>2, <2>1 DEF RelayInv, RelayType
  <2> QED
    BY <1>1, <1>3, <2>1, <2>2, RelayFrames DEF RelayInv
<1>5. CASE Allocated(C)
  <2>1. event' \in Event /\ event'.type = "gone" /\ event'.pcb = C /\ event' # NOPCB
    BY <1>1, <1>2, <1>5, RelayAssumption DEF Event
  <2>2. /\ pcb'[C] = "closed" /\ \A d \in Client \ {C} : pcb'[d] = pcb[d]
        /\ pcb' \in [Client -> {"none", "open", "closed", "freed"}]
    BY <1>1, <1>2, <1>5 DEF RelayInv, RelayType
  <2>3. RelayType'
    BY <1>1, <1>2, <2>1, <2>2 DEF RelayInv, RelayType
  <2>4. ClientInv'
    <3>0. ~In("accepted") /\ ~In("gone") /\ ~In("accepted")' /\ In("gone")'
      BY <1>1, <2>1 DEF In
    <3>1. \A d \in Client : (Allocated(d)' => Allocated(d)) /\ (pcb'[d] = "open" => pcb[d] = "open")
      BY <1>5, <2>2 DEF Allocated
    <3>2. relay_client # NOPCB => arg[relay_client] = client_sigil
             /\ (pcb'[relay_client] = "open" \/ relay_client = C)
      BY <2>2, <3>0 DEF RelayInv, RelayType, ClientInv
    <3> QED
      BY <1>1, <2>1, <2>2, <3>0, <3>1, <3>2 DEF RelayInv, ClientInv
  <2> QED
    BY <1>1, <1>3, <2>3, <2>4, RelayFrames DEF RelayInv
<1> QED
  BY <1>4, <1>5

(* The pointer is cleared, unless the client was replaced. *)
LEMMA ClosedStep == ASSUME RelayInv, client_recv_closed PROVE RelayInv'
<1> DEFINE C == event.pcb
<1>1. /\ event # NOPCB /\ event.type = "gone" /\ event' = NOPCB
      /\ relay_client' = (IF arg[C] = client_sigil THEN NOPCB ELSE relay_client)
      /\ UNCHANGED <<rbuf, client_sigil, todo, waiting, pushed, tcpip_queue, pcb, arg, stream, since, starved>>
  BY DEF client_recv_closed, Forget, relay, main, lwip, hist
<1>2. C \in Client /\ pcb[C] = "closed"
  <2>1. event \in Event
    BY <1>1 DEF RelayInv, RelayType
  <2> QED
    BY <1>1, <2>1 DEF Event, RelayInv, ClientInv, In
<1> HIDE DEF C
<1>3. RelayType'
  BY <1>1 DEF RelayInv, RelayType
<1>4. CallInv'
  BY <1>1 DEF RelayInv, CallInv
<1>5. CoverInv'
  BY <1>1, RelayAssumption DEF RelayInv, CoverInv
<1>6. ClientInv'
  <2>0. ~In("accepted") /\ In("gone") /\ ~In("accepted")' /\ ~In("gone")'
    BY <1>1 DEF In
  <2>1. \A d \in Client : Allocated(d) => arg[d] # 0
    BY <2>0 DEF RelayInv, ClientInv
  <2>2. CASE arg[C] = client_sigil
    <3>1. ASSUME NEW d \in Client, pcb[d] = "open" PROVE arg[d] # client_sigil
      <4>1. arg[C] # 0 /\ d # C
        BY <1>2, <2>1, <3>1 DEF Allocated
      <4> QED
        BY <1>2, <2>2, <4>1 DEF RelayInv, ClientInv
    <3> QED
      BY <1>1, <2>0, <2>1, <2>2, <3>1 DEF RelayInv, ClientInv, Allocated
  <2>3. CASE arg[C] # client_sigil
    <3>1. relay_client' = relay_client
      BY <1>1, <2>3
    <3>2. relay_client # NOPCB => arg[relay_client] = client_sigil /\ pcb[relay_client] = "open"
      BY <2>0, <2>3 DEF RelayInv, ClientInv, C
    <3>3. relay_client = NOPCB => \A d \in Client : pcb[d] = "open" => arg[d] # client_sigil
      BY <2>0 DEF RelayInv, ClientInv
    <3> QED
      BY <1>1, <2>0, <2>1, <3>1, <3>2, <3>3 DEF RelayInv, ClientInv, Allocated
  <2> QED
    BY <2>2, <2>3
<1> QED
  BY <1>1, <1>3, <1>4, <1>5, <1>6, RelayFrames DEF RelayInv

(* lwIP frees a connection that has ended. *)
LEMMA EndsStep == ASSUME RelayInv, NEW c \in Client, ConnectionEnds(c) PROVE RelayInv'
<1>1. /\ event = NOPCB /\ pcb[c] = "closed" /\ pcb' = [pcb EXCEPT ![c] = "freed"]
      /\ UNCHANGED <<rbuf, relay_client, client_sigil, todo, waiting, pushed, tcpip_queue, event, arg>>
      /\ UNCHANGED <<stream, since, starved>>
  BY DEF ConnectionEnds, relay, main, hist
<1>2. /\ pcb'[c] = "freed" /\ \A d \in Client \ {c} : pcb'[d] = pcb[d]
      /\ pcb' \in [Client -> {"none", "open", "closed", "freed"}]
  BY <1>1 DEF RelayInv, RelayType
<1>3. RelayType'
  BY <1>1, <1>2 DEF RelayInv, RelayType
<1>4. CallInv'
  BY <1>1 DEF RelayInv, CallInv
<1>5. ClientInv'
  <2>0. ~In("accepted") /\ ~In("gone") /\ ~In("accepted")' /\ ~In("gone")'
    BY <1>1 DEF In
  <2>1. \A d \in Client : (Allocated(d)' => Allocated(d)) /\ (pcb'[d] = "open" => pcb[d] = "open")
    BY <1>2 DEF Allocated
  <2>2. relay_client # NOPCB => arg[relay_client] = client_sigil /\ pcb'[relay_client] = "open"
    BY <1>1, <1>2, <2>0 DEF RelayInv, RelayType, ClientInv
  <2> QED
    BY <1>1, <2>0, <2>1, <2>2 DEF RelayInv, ClientInv
<1> QED
  BY <1>1, <1>3, <1>4, <1>5, RelayFrames DEF RelayInv

(* The relay starts without a client. *)
LEMMA RelayStart == RelayInit => RelayInv
<1> SUFFICES ASSUME RelayInit PROVE RelayInv
  OBVIOUS
<1>1. /\ << >> \in Seq(Nat) /\ << >> \in Seq(Message) /\ << >> \in Seq({"push", "rbuf_flush", "output"})
      /\ FALSE \in BOOLEAN /\ Len(<< >>) = 0
  OBVIOUS
<1>2. RelayType
  <2>1. starved \in [Client -> BOOLEAN] /\ stream \in [Client -> Seq(Nat)]
    BY <1>1 DEF RelayInit
  <2> QED
    BY <1>1, <2>1 DEF RelayInit, RelayType
<1>3. BufferInv
  BY <1>1, RelayAssumption DEF RelayInit, BufferInv
<1>4. CallInv
  BY <1>1 DEF RelayInit, CallInv
<1>5. OrderInv
  BY <1>1 DEF RelayInit, OrderInv, Rising
<1>6. CoverInv
  BY RelayAssumption DEF RelayInit, CoverInv
<1>7. ClientInv
  BY DEF RelayInit, ClientInv, In, Allocated
<1> QED
  BY <1>2, <1>3, <1>4, <1>5, <1>6, <1>7 DEF RelayInv

(* The relay serves the client it has, for any buffer, any clients and any traffic:      *)
(* relay_client is the client accepted last while that one is connected; a client never   *)
(* sees a byte twice or out of order, and the one that is served misses none that came    *)
(* in since it was accepted, unless lwIP had no memory.                                   *)
THEOREM RelayServesRight == RelaySpec => []RelayRight
<1>1. RelayInv /\ [RelayNext]_rvars => RelayInv'
  <2> SUFFICES ASSUME RelayInv, [RelayNext]_rvars PROVE RelayInv'
    OBVIOUS
  <2>1. CASE UNCHANGED rvars
    <3>1. /\ UNCHANGED <<rbuf, relay_client, client_sigil, todo, waiting, pushed, tcpip_queue, event, pcb, arg>>
          /\ UNCHANGED <<stream, since, starved>>
      BY <2>1 DEF rvars, relay, main, lwip, hist
    <3>2. RelayType' /\ CallInv'
      BY <3>1 DEF RelayInv, RelayType, CallInv
    <3> QED
      BY <3>1, <3>2, RelayFrames DEF RelayInv
  <2>2. CASE RelayNext
    BY <2>2, GpsByteStep, PushStep, FlushStep, ApiWriteStep, ApiOutputStep, PacketStep, AcceptStep,
       AcceptedStep, SegmentSteps, CloseStep, ClosedStep, EndsStep DEF RelayNext
  <2> QED
    BY <2>1, <2>2
<1>2. RelayInv => RelayRight
  <2> SUFFICES ASSUME RelayInv PROVE RelayRight
    OBVIOUS
  <2>1. RelayClientRight
    BY DEF RelayInv, ClientInv, In, RelayClientRight
  <2>2. ASSUME NEW c \in Client
        PROVE  /\ \A i, j \in DOMAIN stream[c] : i < j => stream[c][i] < stream[c][j]
               /\ (c = relay_client /\ todo = << >> /\ ~starved[c])
                  => since[c] + 1 .. pushed \subseteq ToSet(stream[c] \o rbuf)
    <3> DEFINE s == stream[c]
               z == s \o rbuf
    <3>1. /\ s \in Seq(Nat) /\ rbuf \in Seq(Nat) /\ since[c] \in Nat /\ pushed \in Nat
          /\ Len(s) \in Nat /\ Len(rbuf) \in Nat /\ DOMAIN s = 1 .. Len(s)
      BY LenProperties DEF RelayInv, RelayType
    <3>2. \A i, j \in DOMAIN s : i < j => s[i] < s[j]
      BY <3>1 DEF RelayInv, OrderInv, Rising
    <3>3. /\ z \in Seq(Nat) /\ Len(z) = Len(s) + Len(rbuf)
          /\ \A i \in 1 .. Len(s) + Len(rbuf) : z[i] = IF i <= Len(s) THEN s[i] ELSE rbuf[i - Len(s)]
      BY <3>1, ConcatProperties
    <3>4. DOMAIN z = 1 .. Len(s) + Len(rbuf)
      BY <3>3, LenProperties
    <3>5. ASSUME c = relay_client, ~starved[c], NEW n \in since[c] + 1 .. pushed PROVE n \in ToSet(z)
      <4>1. n \in Nat /\ since[c] < n /\ n <= pushed
        BY <3>1
      <4>2. (\E i \in 1 .. Len(s) : s[i] = n) \/ (\E j \in 1 .. Len(rbuf) : rbuf[j] = n)
        BY <3>5, <4>1 DEF RelayInv, CoverInv, Has
      <4> HIDE DEF s, z
      <4>3. \E i \in 1 .. Len(s) + Len(rbuf) : z[i] = n
        <5>1. CASE \E i \in 1 .. Len(s) : s[i] = n
          <6>1. PICK i \in 1 .. Len(s) : s[i] = n
            BY <5>1
          <6>2. i \in 1 .. Len(s) + Len(rbuf) /\ i <= Len(s)
            BY <3>1
          <6> QED
            BY <3>3, <6>1, <6>2
        <5>2. CASE \E j \in 1 .. Len(rbuf) : rbuf[j] = n
          <6>1. PICK j \in 1 .. Len(rbuf) : rbuf[j] = n
            BY <5>2
          <6> DEFINE k == Len(s) + j
          <6>2. k \in 1 .. Len(s) + Len(rbuf) /\ ~(k <= Len(s)) /\ k - Len(s) = j
            BY <3>1
          <6> HIDE DEF k
          <6> QED
            BY <3>3, <6>1, <6>2
        <5> QED
          BY <4>2, <5>1, <5>2
      <4> QED
        BY <3>4, <4>3 DEF ToSet
    <3> QED
      BY <3>2, <3>5
  <2> QED
    BY <2>1, <2>2 DEF RelayRight, RelayStream
<1> QED
  BY <1>1, <1>2, RelayStart, PTL DEF RelaySpec
=============================================================================
