--------------------------- MODULE KeyboardProofs ---------------------------
(***************************************************************************)
(* The driver follows the modifiers and delivers the characters meant, for  *)
(* every keyboard, whatever waits in the controller and in the ring.        *)
(***************************************************************************)
EXTENDS Keyboard, NumberLemmas

(* The modes of a keyboard as a set: the modifiers in force and the prefix. *)
Flags == Modifiers \cup {"E0"}
Held == {"lshift", "rshift", "ctrl"}
If(c, m) == IF c THEN {m} ELSE {}

(* Those the driver has, and those the user means.                          *)
Now ==
    If(shift_left, "lshift") \cup If(shift_right, "rshift") \cup If(ctrl_held, "ctrl")
        \cup If(caps_lock, "caps") \cup If(extended_scancode, "E0")
Meaning == (down \cap Held) \cup If(lock, "caps")

(* What a byte does to them, and which character it stands for.             *)
Step(modes, b) ==
    IF b.code = "E0" THEN modes \cup {"E0"}
    ELSE IF "E0" \in modes THEN modes \ {"E0"}
    ELSE IF b.code \in Held THEN (IF b.press THEN modes \cup {b.code} ELSE modes \ {b.code})
    ELSE IF b.code = "caps" /\ b.press 
           THEN (IF "caps" \in modes THEN modes \ {"caps"} ELSE modes \cup {"caps"})
    ELSE modes
Stands(modes, b) ==
    IF b.code \in CharKeys /\ b.press /\ "E0" \notin modes
      THEN <<b.code, Upper(b.code, modes \cap {"lshift", "rshift"} # {}, "caps" \in modes)>>
      ELSE None

(* The bytes lead from one set of modes to another, and each means what it  *)
(* stands for where it comes.                                               *)
Bytes == [code : CharKeys \cup Modifiers \cup {"E0"}, press : BOOLEAN, means : Chars \cup {None}]
Through(h, bytes) ==
    /\ h \in [0 .. Len(bytes) -> SUBSET Flags]
    /\ \A i \in 1 .. Len(bytes) : h[i] = Step(h[i - 1], bytes[i]) /\ bytes[i].means = Stands(h[i - 1], bytes[i])
Leads(bytes, from, to) == \E h : Through(h, bytes) /\ h[0] = from /\ h[Len(bytes)] = to

LEMMA StepFlags ==
    ASSUME NEW modes \in SUBSET Flags, NEW b \in Bytes
    PROVE  Step(modes, b) \in SUBSET Flags
BY DEF Step, Flags, Held, Modifiers

LEMMA LeadsNowhere ==
    /\ \A modes \in SUBSET Flags : Leads(<<>>, modes, modes)
    /\ \A from, to : Leads(<<>>, from, to) => from = to
<1>1. ASSUME NEW modes \in SUBSET Flags PROVE Leads(<<>>, modes, modes)
  <2> DEFINE h == [i \in 0 .. 0 |-> modes]
  <2>1. Through(h, <<>>) /\ h[0] = modes
    BY DEF Through
  <2> QED BY <2>1 DEF Leads
<1>2. \A from, to : Leads(<<>>, from, to) => from = to
  BY DEF Leads
<1> QED BY <1>1, <1>2

LEMMA LeadsOn ==
    ASSUME NEW bytes \in Seq(Bytes), NEW from, NEW to \in SUBSET Flags, Leads(bytes, from, to),
           NEW b \in Bytes, b.means = Stands(to, b)
    PROVE  Leads(Append(bytes, b), from, Step(to, b))
<1>1. PICK h : Through(h, bytes) /\ h[0] = from /\ h[Len(bytes)] = to
  BY DEF Leads
<1> DEFINE n == Len(bytes)
           more == Append(bytes, b)
           g == [i \in 0 .. n + 1 |-> IF i <= n THEN h[i] ELSE Step(to, b)]
<1>2. n \in Nat /\ Len(more) = n + 1 /\ more[n + 1] = b /\ \A i \in 1 .. n : more[i] = bytes[i]
  OBVIOUS
<1>3. g \in [0 .. n + 1 -> SUBSET Flags]
  <2>1. \A i \in 0 .. n + 1 : g[i] \in SUBSET Flags
    BY <1>1, <1>2, StepFlags DEF Through
  <2> QED BY <2>1
<1>4. g[0] = from /\ g[n] = to /\ g[n + 1] = Step(to, b) /\ \A i \in 0 .. n : g[i] = h[i]
  BY <1>1, <1>2
<1> HIDE DEF g, more, n
<1>5. ASSUME NEW i \in 1 .. n + 1 
      PROVE  g[i] = Step(g[i - 1], more[i]) /\ more[i].means = Stands(g[i - 1], more[i])
  <2>1. CASE i = n + 1
    <3>1. i - 1 = n
      BY <1>2, <2>1
    <3> QED BY <1>2, <1>4, <2>1, <3>1
  <2>2. CASE i # n + 1
    <3>1. i \in 1 .. n /\ i - 1 \in 0 .. n /\ i \in 0 .. n
      BY <1>2, <2>2
    <3>2. h[i] = Step(h[i - 1], bytes[i]) /\ bytes[i].means = Stands(h[i - 1], bytes[i])
      BY <1>1, <3>1 DEF Through, n
    <3> QED BY <1>2, <1>4, <3>1, <3>2
  <2> QED BY <2>1, <2>2
<1> QED BY <1>2, <1>3, <1>4, <1>5 DEF Leads, Through, more

LEMMA LeadsFrom ==
    ASSUME NEW bytes \in Seq(Bytes), bytes # <<>>, NEW from, NEW to, Leads(bytes, from, to)
    PROVE  /\ Leads(Tail(bytes), Step(from, Head(bytes)), to)
           /\ Head(bytes).means = Stands(from, Head(bytes))
<1>1. PICK h : Through(h, bytes) /\ h[0] = from /\ h[Len(bytes)] = to
  BY DEF Leads
<1> DEFINE n == Len(bytes)
           rest == Tail(bytes)
           g == [i \in 0 .. n - 1 |-> h[i + 1]]
<1>2. /\ n \in Nat \ {0} /\ Len(rest) = n - 1 /\ Head(bytes) = bytes[1]
      /\ \A i \in 1 .. n - 1 : rest[i] = bytes[i + 1]
  OBVIOUS
<1>3. 1 \in 1 .. n /\ 1 - 1 = 0
  BY <1>2
<1>4. h[1] = Step(from, bytes[1]) /\ bytes[1].means = Stands(from, bytes[1])
  BY <1>1, <1>3 DEF Through
<1>5. g \in [0 .. n - 1 -> SUBSET Flags]
  BY <1>1, <1>2 DEF Through
<1>6. g[0] = h[1] /\ g[n - 1] = h[n] /\ \A i \in 0 .. n - 1 : g[i] = h[i + 1]
  BY <1>2
<1> HIDE DEF g, rest, n
<1>7. ASSUME NEW i \in 1 .. n - 1 
      PROVE  g[i] = Step(g[i - 1], rest[i]) /\ rest[i].means = Stands(g[i - 1], rest[i])
  <2>1. i + 1 \in 1 .. n /\ (i + 1) - 1 = i /\ i \in 0 .. n - 1 /\ i - 1 \in 0 .. n - 1 /\ (i - 1) + 1 = i
    BY <1>2
  <2>2. h[i + 1] = Step(h[i], bytes[i + 1]) /\ bytes[i + 1].means = Stands(h[i], bytes[i + 1])
    BY <1>1, <2>1 DEF Through, n
  <2>3. g[i] = h[i + 1] /\ g[i - 1] = h[i] /\ rest[i] = bytes[i + 1]
    BY <1>2, <1>6, <2>1
  <2> QED BY <2>2, <2>3
<1>8. Through(g, rest)
  BY <1>2, <1>5, <1>7 DEF Through
<1> QED BY <1>1, <1>2, <1>4, <1>6, <1>8 DEF Leads, n, rest
-----------------------------------------------------------------------------
(* The inductive invariant: what is on its way leads from the driver's      *)
(* modes to the user's.                                                     *)
KeyInv ==
    /\ {shift_left, shift_right, caps_lock, ctrl_held, extended_scancode, lock} \subseteq BOOLEAN
    /\ tested => port = <<>> /\ down = {} /\ lock = FALSE
    /\ port \in Seq(Bytes)
    /\ Leads(port, Now, Meaning)

LEMMA MeaningFlags == Meaning \in SUBSET Flags /\ "E0" \notin Meaning
BY DEF Meaning, Held, If, Flags, Modifiers

LEMMA NowFlags == Now \in SUBSET Flags
BY DEF Now, If, Flags, Modifiers

LEMMA KeyInit == Init => KeyInv
<1> SUFFICES ASSUME Init PROVE KeyInv
  OBVIOUS
<1>1. Now = {} /\ Meaning = {}
  BY DEF Init, Now, Meaning, If
<1>2. {} \in SUBSET Flags
  OBVIOUS
<1>3. Leads(port, Now, Meaning)
  BY <1>1, <1>2, LeadsNowhere DEF Init
<1>4. {shift_left, shift_right, caps_lock, ctrl_held, extended_scancode, lock} \subseteq BOOLEAN
  BY Zenon DEF Init
<1>5. down = {} /\ port = <<>> /\ lock = FALSE
  BY DEF Init
<1>6. port \in Seq(Bytes)
  BY <1>5
<1> QED BY <1>3, <1>4, <1>5, <1>6 DEF KeyInv

(* A key of the user's has a code of its own.                              *)
LEMMA Coded ==
    ASSUME NEW k \in UserKeys
    PROVE  /\ k \in CharKeys \cup Modifiers /\ k # "E0"
           /\ k \in CharKeys => k \notin Modifiers
BY KeyAssumption DEF CharKeys, Control, Modifiers

LEMMA NoneIsNone == None \notin Chars
<1>1. "none" \notin CharKeys
  BY KeyAssumption DEF CharKeys, Control
<1> QED BY <1>1 DEF None, Chars

LEMMA MeansStands ==
    ASSUME KeyInv, NEW k \in UserKeys, NEW b, b = Byte(k, TRUE, Means(k))
    PROVE  b.means = Stands(Meaning, b)
<1>1. b.code = k /\ b.press /\ b.means = Means(k)
  BY DEF Byte
<1>2. ("caps" \in Meaning) = lock
  <2>1. lock = TRUE \/ lock = FALSE
    BY Zenon DEF KeyInv
  <2>2. "caps" \in Meaning <=> lock
    BY DEF Meaning, Held, If
  <2> QED BY <2>1, <2>2
<1>3. Meaning \cap {"lshift", "rshift"} = down \cap {"lshift", "rshift"}
  BY DEF Meaning, Held, If
<1>4. Means(k) = Stands(Meaning, b)
  BY <1>1, <1>2, <1>3, MeaningFlags DEF Means, Stands
<1> QED BY <1>1, <1>4

LEMMA PressKeeps ==
    ASSUME KeyInv, NEW k \in UserKeys, ~ tested, Press(k), UNCHANGED <<tested, decoder>>
    PROVE  KeyInv'
<1> DEFINE b == Byte(k, TRUE, Means(k))
<1>1. b \in Bytes /\ b.code = k /\ b.press
  BY Coded DEF Byte, Bytes, Means, Chars, Upper
<1>2. b.means = Stands(Meaning, b)
  BY MeansStands
<1>3. Meaning' = Step(Meaning, b)
  <2>1. CASE k \in Held
    BY <1>1, <2>1, MeaningFlags DEF Press, Meaning, Step, Held, If
  <2>2. CASE k = "caps"
    BY <1>1, <2>2, MeaningFlags DEF Press, Meaning, Step, Held, If
  <2>3. CASE k \notin Modifiers
    BY <1>1, <2>3, Coded, MeaningFlags DEF Press, Meaning, Step, Held, If, Modifiers
  <2> QED BY <2>1, <2>2, <2>3 DEF Held, Modifiers
<1>4. port' = Append(port, b) /\ port \in Seq(Bytes)
  <2>1. port' = port \o <<b>> /\ port \in Seq(Bytes)
    BY DEF Press, Send, KeyInv
  <2> HIDE DEF b
  <2> QED BY <1>1, <2>1
<1>5. Now' = Now
  BY DEF Now, decoder
<1>6. Leads(port', Now', Meaning')
  <2>1. Leads(Append(port, b), Now, Step(Meaning, b))
    <3> HIDE DEF b
    <3> QED BY <1>1, <1>2, <1>4, MeaningFlags, LeadsOn DEF KeyInv
  <2> QED BY <1>3, <1>4, <1>5, <2>1
<1>7. port' \in Seq(Bytes)
  <2> HIDE DEF b
  <2> QED BY <1>1, <1>4
<1>8. lock' \in BOOLEAN
  <2>1. lock \in BOOLEAN
    BY DEF KeyInv
  <2>2. lock' = lock \/ lock' = ~ lock
    BY Zenon DEF Press
  <2> QED BY <2>1, <2>2
<1> QED BY <1>6, <1>7, <1>8 DEF KeyInv, decoder

LEMMA ReleaseKeeps ==
    ASSUME KeyInv, NEW k \in UserKeys, ~ tested, Release(k), UNCHANGED <<tested, decoder>>
    PROVE  KeyInv'
<1> DEFINE b == Byte(k, FALSE, None)
<1>1. b \in Bytes /\ b.code = k /\ ~ b.press /\ b.means = None
  BY Coded DEF Byte, Bytes
<1>2. b.means = Stands(Meaning, b)
  BY <1>1 DEF Stands
<1>3. Meaning' = Step(Meaning, b)
  BY <1>1, Coded, MeaningFlags DEF Release, Meaning, Step, Held, If
<1>4. port' = Append(port, b) /\ port \in Seq(Bytes)
  <2>1. port' = port \o <<b>> /\ port \in Seq(Bytes)
    BY DEF Release, Send, KeyInv
  <2> HIDE DEF b
  <2> QED BY <1>1, <2>1
<1>5. Now' = Now
  BY DEF Now, decoder
<1>6. Leads(port', Now', Meaning')
  <2>1. Leads(Append(port, b), Now, Step(Meaning, b))
    <3> HIDE DEF b
    <3> QED BY <1>1, <1>2, <1>4, MeaningFlags, LeadsOn DEF KeyInv
  <2> QED BY <1>3, <1>4, <1>5, <2>1
<1>7. lock' = lock /\ port' \in Seq(Bytes)
  <2> HIDE DEF b
  <2> QED BY <1>1, <1>4 DEF Release, KeyInv
<1> QED BY <1>6, <1>7 DEF KeyInv, decoder

(* The two bytes of an extended key leave the modes as they were.          *)
LEMMA ExtendedKeeps ==
    ASSUME KeyInv, NEW k \in Extended, NEW press \in BOOLEAN, ~ tested, PressExtended(k, press),
           UNCHANGED <<tested, decoder>>
    PROVE  KeyInv'
<1> DEFINE a == Byte("E0", TRUE, None)
           b == Byte(k, press, None)
           mid == Meaning \cup {"E0"}
<1>1. a \in Bytes /\ a.code = "E0" /\ a.means = None /\ b \in Bytes /\ b.code = k /\ b.means = None
  BY DEF Byte, Bytes, Extended, CharKeys, Control, Modifiers
<1>2. a.means = Stands(Meaning, a) /\ Step(Meaning, a) = mid
  <2>1. "E0" \notin CharKeys
    BY KeyAssumption DEF CharKeys, Control
  <2> QED BY <1>1, <2>1 DEF Stands, Step
<1>3. b.means = Stands(mid, b) /\ Step(mid, b) = Meaning
  BY <1>1, MeaningFlags DEF Stands, Step, Extended
<1>4. port' = Append(Append(port, a), b) /\ port \in Seq(Bytes) /\ Append(port, a) \in Seq(Bytes)
  <2>1. port' = port \o <<a, b>> /\ port \in Seq(Bytes)
    BY DEF PressExtended, Send, KeyInv
  <2> HIDE DEF a, b
  <2> QED BY <1>1, <2>1
<1>5. Now' = Now /\ Meaning' = Meaning
  BY DEF Now, decoder, Meaning, PressExtended
<1> HIDE DEF a, b
<1>6. Leads(Append(port, a), Now, mid)
  <2>1. Leads(Append(port, a), Now, Step(Meaning, a))
    <3> HIDE DEF mid
    <3> QED BY <1>1, <1>2, <1>4, MeaningFlags, LeadsOn DEF KeyInv
  <2> QED BY <1>2, <2>1
<1>7. Leads(Append(Append(port, a), b), Now, Meaning)
  <2>1. mid \in SUBSET Flags
    BY MeaningFlags DEF Flags
  <2> HIDE DEF mid
  <2> QED BY <1>1, <1>3, <1>4, <1>6, <2>1, LeadsOn
<1>8. lock' = lock /\ port' \in Seq(Bytes)
  BY <1>1, <1>4 DEF PressExtended
<1>9. Leads(port', Now', Meaning')
  BY <1>4, <1>5, <1>7
<1> QED BY <1>8, <1>9 DEF KeyInv, decoder

(* The driver handles a byte as the user meant it.                         *)
LEMMA DecoderSteps ==
    ASSUME KeyInv, NEW b \in Bytes, kbd_handle_irq(b)
    PROVE  /\ Now' = Step(Now, b)
           /\ {shift_left', shift_right', caps_lock', ctrl_held', extended_scancode'} \subseteq BOOLEAN
<1>1. {shift_left, shift_right, caps_lock, ctrl_held, extended_scancode, b.press} \subseteq BOOLEAN
  BY DEF KeyInv, Bytes
<1>2. "E0" \in Now <=> extended_scancode
  BY DEF Now, If
<1>3. "caps" \in Now <=> caps_lock
  BY DEF Now, If
<1>4. CASE b.code = "E0"
  BY <1>1, <1>4 DEF kbd_handle_irq, Now, If, Step
<1>5. CASE b.code # "E0" /\ extended_scancode
  BY <1>1, <1>2, <1>5 DEF kbd_handle_irq, Now, If, Step
<1>6. CASE b.code # "E0" /\ ~ extended_scancode
  <2>1. Process(b.code, b.press) /\ extended_scancode' = FALSE
    BY <1>1, <1>6 DEF kbd_handle_irq
  <2>2. CASE b.code = "lshift"
    BY <1>1, <1>2, <1>3, <1>6, <2>1, <2>2 DEF Process, Now, If, Step, Held
  <2>3. CASE b.code = "rshift"
    BY <1>1, <1>2, <1>3, <1>6, <2>1, <2>3 DEF Process, Now, If, Step, Held
  <2>4. CASE b.code = "ctrl"
    BY <1>1, <1>2, <1>3, <1>6, <2>1, <2>4 DEF Process, Now, If, Step, Held
  <2>5. CASE b.code = "caps"
    BY <1>1, <1>2, <1>3, <1>6, <2>1, <2>5 DEF Process, Now, If, Step, Held
  <2>6. CASE b.code \notin Modifiers
    BY <1>1, <1>2, <1>3, <1>6, <2>1, <2>6 DEF Process, Now, If, Step, Held, Modifiers
  <2> QED BY <2>2, <2>3, <2>4, <2>5, <2>6 DEF Modifiers
<1> QED BY <1>1, <1>4, <1>5, <1>6

LEMMA IrqKeeps == ASSUME KeyInv, Irq1 PROVE KeyInv'
<1>1. /\ port # <<>> /\ port \in Seq(Bytes) /\ port' = Tail(port) /\ kbd_handle_irq(Head(port))
      /\ UNCHANGED <<tested, down, lock>>
  BY DEF Irq1, KeyInv, user
<1>2. Head(port) \in Bytes /\ Tail(port) \in Seq(Bytes)
  BY <1>1
<1>3. /\ Now' = Step(Now, Head(port))
      /\ {shift_left', shift_right', caps_lock', ctrl_held', extended_scancode'} \subseteq BOOLEAN
  BY <1>1, <1>2, DecoderSteps
<1>4. Leads(Tail(port), Step(Now, Head(port)), Meaning)
  BY <1>1, LeadsFrom DEF KeyInv
<1>5. Meaning' = Meaning
  BY <1>1 DEF Meaning
<1>6. Leads(port', Now', Meaning')
  BY <1>1, <1>3, <1>4, <1>5
<1>7. ~ tested
  BY <1>1 DEF KeyInv
<1> QED BY <1>1, <1>2, <1>3, <1>6, <1>7 DEF KeyInv

LEMMA ResetKeeps == ASSUME KeyInv, tested, Reset PROVE KeyInv'
<1>1. /\ shift_left' = FALSE /\ shift_right' = FALSE /\ caps_lock' = FALSE /\ ctrl_held' = FALSE
      /\ extended_scancode' = FALSE /\ UNCHANGED <<tested, down, lock, port>>
  BY DEF Reset, user
<1>2. port = <<>> /\ down = {} /\ lock = FALSE
  BY DEF KeyInv
<1>3. Now' = {} /\ Meaning' = {}
  BY <1>1, <1>2 DEF Now, Meaning, If
<1>4. Leads(port', Now', Meaning')
  <2>1. {} \in SUBSET Flags
    OBVIOUS
  <2> QED BY <1>1, <1>2, <1>3, <2>1, LeadsNowhere
<1> QED BY <1>1, <1>2, <1>4 DEF KeyInv

LEMMA KeyNext == KeyInv /\ [Next]_vars => KeyInv'
<1> SUFFICES ASSUME KeyInv, [Next]_vars PROVE KeyInv'
  OBVIOUS
<1>1. ASSUME UNCHANGED <<decoder, port, tested, down, lock>> PROVE KeyInv'
  <2>1. Now' = Now /\ Meaning' = Meaning
    BY <1>1 DEF decoder, Now, Meaning
  <2> QED BY <1>1, <2>1 DEF KeyInv, decoder
<1>2. CASE User
  BY <1>2, PressKeeps, ReleaseKeeps, ExtendedKeeps DEF User
<1>3. CASE Irq1
  BY <1>3, IrqKeeps
<1>4. CASE tested /\ Reset
  BY <1>4, ResetKeeps
<1>5. CASE UNCHANGED vars
  BY <1>1, <1>5 DEF vars, user
<1>6. CASE Irq0 \/ Readline \/ Halt \/ Cli \/ Check
  BY <1>1, <1>6 DEF Irq0, Readline, Halt, Cli, Check, user
<1>7. CASE GetcNonblock \/ (\E k \in Injected : InjectTest(k)) \/ InjectStore
  BY <1>1, <1>7 DEF GetcNonblock, InjectTest, InjectStore, user
<1> QED BY <1>2, <1>3, <1>4, <1>5, <1>6, <1>7 DEF Next, Driver, Tests

LEMMA KeyAlways == Spec => []KeyInv
BY KeyInit, KeyNext, PTL DEF Spec

(* Once all bytes are handled the driver's modifiers are those of the keys  *)
(* the user holds, and no prefix is pending (kbd_process_scancode,          *)
(* kbd_handle_irq).                                                         *)
THEOREM ModifiersAreFollowed == Spec => []ModifiersFollow
<1>1. KeyInv => ModifiersFollow
  <2> SUFFICES ASSUME KeyInv, port = <<>>
               PROVE  /\ shift_left = ("lshift" \in down) /\ shift_right = ("rshift" \in down)
                      /\ ctrl_held = ("ctrl" \in down) /\ caps_lock = lock /\ ~extended_scancode
    BY DEF ModifiersFollow
  <2>1. Now = Meaning
    BY LeadsNowhere DEF KeyInv
  <2>2. /\ shift_left = ("lshift" \in Now) /\ shift_right = ("rshift" \in Now)
        /\ ctrl_held = ("ctrl" \in Now) /\ caps_lock = ("caps" \in Now) /\ extended_scancode = ("E0" \in Now)
    BY DEF KeyInv, Now, If
  <2>3. /\ ("lshift" \in down) = ("lshift" \in Meaning) /\ ("rshift" \in down) = ("rshift" \in Meaning)
        /\ ("ctrl" \in down) = ("ctrl" \in Meaning) /\ lock = ("caps" \in Meaning) /\ "E0" \notin Meaning
    BY DEF KeyInv, Meaning, Held, If
  <2> QED BY <2>1, <2>2, <2>3
<1> QED BY <1>1, KeyAlways, PTL
-----------------------------------------------------------------------------
(* What the bytes mean, in their order.                                     *)
MeantOf(p) == {i \in DOMAIN p : p[i].means # None}
TypedOf(p) == [n \in 1 .. Cardinality(MeantOf(p)) |-> p[Nth(MeantOf(p), n)].means]

LEMMA TypedIs == Typed = TypedOf(port)
BY DEF Typed, TypedOf, Meant, MeantOf, Nth

LEMMA MeantFinite ==
    ASSUME NEW p \in Seq(Bytes)
    PROVE  MeantOf(p) \in SUBSET Nat /\ IsFiniteSet(MeantOf(p)) /\ Cardinality(MeantOf(p)) \in Nat
<1>1. MeantOf(p) \subseteq 1 .. Len(p) /\ Len(p) \in Nat
  BY DEF MeantOf
<1>2. IsFiniteSet(1 .. Len(p))
  BY <1>1, FS_Interval
<1>3. IsFiniteSet(MeantOf(p))
  BY <1>1, <1>2, FS_Subset
<1> QED BY <1>1, <1>3, FS_CardinalityType

LEMMA TypedChars ==
    ASSUME NEW p \in Seq(Bytes)
    PROVE  TypedOf(p) \in Seq(Chars) /\ Len(TypedOf(p)) = Cardinality(MeantOf(p))
<1>1. ASSUME NEW n \in 1 .. Cardinality(MeantOf(p)) PROVE p[Nth(MeantOf(p), n)].means \in Chars
  <2>1. Nth(MeantOf(p), n) \in MeantOf(p)
    BY MeantFinite, NthIs
  <2>2. \A i \in MeantOf(p) : p[i] \in Bytes /\ p[i].means # None
    BY DEF MeantOf
  <2> QED BY <2>1, <2>2 DEF Bytes
<1> QED BY <1>1, MeantFinite DEF TypedOf

LEMMA TypedAppend ==
    ASSUME NEW p \in Seq(Bytes), NEW b \in Bytes
    PROVE  TypedOf(Append(p, b)) = IF b.means = None THEN TypedOf(p) ELSE Append(TypedOf(p), b.means)
<1> DEFINE q == Append(p, b)
           x == Len(p) + 1
           S == MeantOf(p)
           c == Cardinality(S)
<1>1. /\ q \in Seq(Bytes) /\ DOMAIN q = 1 .. x /\ DOMAIN p = 1 .. Len(p) /\ x \in Nat /\ q[x] = b
      /\ \A i \in DOMAIN p : q[i] = p[i] /\ i < x /\ i \in DOMAIN q
  OBVIOUS
<1>2. \A i \in DOMAIN q : i = x \/ i \in DOMAIN p
  OBVIOUS
<1>3. S \in SUBSET Nat /\ IsFiniteSet(S) /\ c \in Nat /\ \A i \in S : q[i] = p[i] /\ i < x
  BY <1>1, MeantFinite DEF MeantOf
<1>4. CASE b.means = None
  <2>1. MeantOf(q) = S
    BY <1>1, <1>2, <1>4, Zenon DEF MeantOf
  <2>2. \A n \in 1 .. c : q[Nth(S, n)] = p[Nth(S, n)]
    BY <1>3, NthIs
  <2> HIDE DEF q, S
  <2> QED BY <1>4, <2>1, <2>2 DEF TypedOf, S, q
<1>5. CASE b.means # None
  <2>1. MeantOf(q) = S \cup {x}
    <3>1. x \in DOMAIN q /\ q[x].means # None
      BY <1>1, <1>5
    <3> HIDE DEF q, x
    <3> QED BY <1>1, <1>2, <3>1, Zenon DEF MeantOf
  <2>2. \A n \in 1 .. c : q[Nth(S, n)] = p[Nth(S, n)]
    BY <1>3, NthIs
  <2> HIDE DEF q, S, x
  <2>3. /\ Cardinality(MeantOf(q)) = c + 1 /\ Nth(MeantOf(q), c + 1) = x
        /\ \A n \in 1 .. c : Nth(MeantOf(q), n) = Nth(S, n)
    <3>1. S \in SUBSET Nat /\ IsFiniteSet(S) /\ x \in Nat /\ \A y \in S : y < x
      BY <1>1, <1>3
    <3> DEFINE V == S \cup {x}
    <3>2. Cardinality(V) = c + 1 /\ Nth(V, c + 1) = x /\ \A n \in 1 .. c : Nth(V, n) = Nth(S, n)
      BY <3>1, NthAdded, Zenon
    <3> HIDE DEF V
    <3> QED BY <2>1, <3>2 DEF V
  <2>4. \A n \in 1 .. c + 1 : n \in 1 .. c \/ n = c + 1
    BY <1>3
  <2>5. TypedOf(q) = [n \in 1 .. c + 1 |-> IF n \in 1 .. c THEN p[Nth(S, n)].means ELSE b.means]
    BY <1>1, <2>2, <2>3, <2>4 DEF TypedOf
  <2>6. TypedOf(p) \in Seq(Chars) /\ Len(TypedOf(p)) = c /\ TypedOf(p) = [n \in 1 .. c |-> p[Nth(S, n)].means]
    BY TypedChars DEF TypedOf, S
  <2>7. Append(TypedOf(p), b.means) = [n \in 1 .. c + 1 |-> IF n \in 1 .. c THEN p[Nth(S, n)].means ELSE b.means]
    <3> DEFINE t == TypedOf(p)
               u == Append(t, b.means)
    <3>1. b.means \in Chars
      BY <1>5 DEF Bytes
    <3>2. t \in Seq(Chars) /\ Len(t) = c /\ \A n \in 1 .. c : t[n] = p[Nth(S, n)].means
      BY <2>6
    <3> HIDE DEF t
    <3>3. u \in Seq(Chars) /\ Len(u) = c + 1 /\ u[c + 1] = b.means /\ \A n \in 1 .. c : u[n] = p[Nth(S, n)].means
      BY <1>3, <3>1, <3>2
    <3> HIDE DEF u
    <3>4. u = [n \in 1 .. c + 1 |-> u[n]]
      BY <3>3
    <3>5. u = [n \in 1 .. c + 1 |-> IF n \in 1 .. c THEN p[Nth(S, n)].means ELSE b.means]
      BY <2>4, <3>3, <3>4
    <3> QED BY <3>5 DEF u, t
  <2> QED BY <1>5, <2>5, <2>7 DEF q
<1> QED BY <1>4, <1>5

LEMMA TypedTail ==
    ASSUME NEW p \in Seq(Bytes), p # <<>>
    PROVE  IF Head(p).means = None
             THEN TypedOf(Tail(p)) = TypedOf(p)
             ELSE TypedOf(p) # <<>> /\ Head(TypedOf(p)) = Head(p).means /\ TypedOf(Tail(p)) = Tail(TypedOf(p))
<1> DEFINE q == Tail(p)
           S == MeantOf(p)
           R == {i \in S : i # 1}
           T == MeantOf(q)
           c == Cardinality(T)
<1>1. /\ q \in Seq(Bytes) /\ DOMAIN q = 1 .. Len(p) - 1 /\ DOMAIN p = 1 .. Len(p) /\ Len(p) \in Nat \ {0}
      /\ Head(p) = p[1] /\ 1 \in DOMAIN p
      /\ \A i \in DOMAIN q : q[i] = p[i + 1]
      /\ \A i \in Nat : i \in DOMAIN q <=> i + 1 \in DOMAIN p /\ i + 1 # 1
  OBVIOUS
<1>2. S \in SUBSET Nat /\ T \in SUBSET Nat /\ IsFiniteSet(S) /\ IsFiniteSet(T) /\ c \in Nat
  BY <1>1, MeantFinite
<1>3. R \in SUBSET Nat /\ IsFiniteSet(R) /\ 0 \notin R
  <2>1. R \subseteq S /\ R \in SUBSET Nat
    BY <1>2
  <2>2. 0 \notin R
    BY <1>1 DEF MeantOf
  <2> QED BY <1>2, <2>1, <2>2, FS_Subset
<1>4. \A i \in Nat : i \in T <=> i + 1 \in R
  BY <1>1, Zenon DEF MeantOf
<1> HIDE DEF R, S, T, q
<1>5. Cardinality(R) = c /\ \A n \in 1 .. c : Nth(T, n) \in T /\ Nth(R, n) = Nth(T, n) + 1
  <2>1. /\ Cardinality(T) = Cardinality(R)
        /\ \A n \in 1 .. Cardinality(R) : Nth(T, n) \in T /\ Nth(R, n) = Nth(T, n) + 1
    BY <1>2, <1>3, <1>4, NthShifted, Zenon
  <2> QED BY <2>1
<1>6. \A n \in 1 .. c : q[Nth(T, n)].means = p[Nth(R, n)].means
  <2>1. \A i \in T : q[i] = p[i + 1]
    BY <1>1 DEF MeantOf, T
  <2> QED BY <1>5, <2>1
<1>7. CASE Head(p).means = None
  <2>1. R = S
    BY <1>1, <1>7, Zenon DEF R, S, MeantOf
  <2> QED BY <1>5, <1>6, <1>7, <2>1 DEF TypedOf, S, T, q
<1>8. CASE Head(p).means # None
  <2>1. S = R \cup {1} /\ \A i \in R : 1 < i
    <3>1. 1 \in S
      BY <1>1, <1>8 DEF S, MeantOf
    <3>2. \A i \in R : i \in Nat /\ i # 0 /\ i # 1
      BY <1>3 DEF R
    <3>3. S = R \cup {1}
      BY <3>1, Zenon DEF R
    <3> QED BY <3>2, <3>3
  <2>2. Cardinality(S) = c + 1 /\ Nth(S, 1) = 1 /\ \A n \in 1 .. c : Nth(S, n + 1) = Nth(R, n)
    <3> DEFINE V == R \cup {1}
    <3>1. 1 \in Nat
      OBVIOUS
    <3>2. /\ Cardinality(V) = Cardinality(R) + 1 /\ Nth(V, 1) = 1
          /\ \A n \in 1 .. Cardinality(R) : Nth(V, n + 1) = Nth(R, n)
      BY <1>3, <2>1, <3>1, NthFirst, Zenon
    <3> HIDE DEF V
    <3> QED BY <1>5, <2>1, <3>2 DEF V
  <2> DEFINE t == TypedOf(p)
  <2>3. t \in Seq(Chars) /\ Len(t) = c + 1 /\ \A n \in 1 .. c + 1 : t[n] = p[Nth(S, n)].means
    BY <2>2, TypedChars DEF TypedOf, S
  <2> HIDE DEF t
  <2>4. t # <<>> /\ Head(t) = p[1].means
    <3>1. 1 \in 1 .. c + 1
      BY <1>2
    <3> QED BY <2>2, <2>3, <3>1
  <2>5. Tail(t) \in Seq(Chars) /\ Len(Tail(t)) = c /\ \A n \in 1 .. c : Tail(t)[n] = t[n + 1]
    BY <1>2, <2>3, <2>4
  <2>6. \A n \in 1 .. c : Tail(t)[n] = q[Nth(T, n)].means
    <3>1. \A n \in 1 .. c : n + 1 \in 1 .. c + 1
      BY <1>2
    <3> QED BY <1>6, <2>2, <2>3, <2>5, <3>1
  <2>7. Tail(t) = [n \in 1 .. c |-> Tail(t)[n]]
    <3> DEFINE r == Tail(t)
    <3>1. r \in Seq(Chars) /\ Len(r) = c
      BY <2>5
    <3> HIDE DEF r
    <3>2. r = [n \in 1 .. c |-> r[n]]
      BY <3>1
    <3> QED BY <3>2 DEF r
  <2>8. TypedOf(q) = [n \in 1 .. c |-> q[Nth(T, n)].means]
    BY DEF TypedOf, T
  <2>9. Tail(t) = TypedOf(q)
    BY <2>6, <2>7, <2>8
  <2> QED BY <1>1, <1>8, <2>4, <2>9 DEF t, q
<1> QED BY <1>7, <1>8
-----------------------------------------------------------------------------
(* The ring as the row of characters that wait in it.                       *)
Slots == 0 .. KBD_BUFFER_SIZE - 1
Count(h, t) == (h - t) % KBD_BUFFER_SIZE
Row(buf, h, t) == [i \in 1 .. Count(h, t) |-> buf[(t + i - 1) % KBD_BUFFER_SIZE]]

RingInv ==
    /\ kbd_head \in Slots /\ kbd_tail \in Slots
    /\ kbd_buffer \in [Slots -> Chars \cup {None}]
    /\ inject # NoInject =>
         /\ tested /\ pc = "away" /\ After(kbd_head) # kbd_tail
         /\ inject = [c |-> inject.c, next |-> After(kbd_head)] /\ inject.c \in Chars

LEMMA AfterIs ==
    ASSUME NEW h \in Slots
    PROVE  After(h) = (IF h = KBD_BUFFER_SIZE - 1 THEN 0 ELSE h + 1) /\ After(h) \in Slots
<1>1. KBD_BUFFER_SIZE \in Nat \ {0}
  BY KeyAssumption
<1> DEFINE a == h + 1
<1>2. a % KBD_BUFFER_SIZE = IF a < KBD_BUFFER_SIZE THEN a ELSE a - KBD_BUFFER_SIZE
  <2>1. a \in Int /\ - KBD_BUFFER_SIZE <= a /\ a < 2 * KBD_BUFFER_SIZE /\ ~ (a < 0)
    BY <1>1 DEF Slots
  <2> HIDE DEF a
  <2> QED BY <1>1, <2>1, RemainderNear
<1> QED BY <1>1, <1>2 DEF After, Slots

LEMMA CountIs ==
    ASSUME NEW h \in Slots, NEW t \in Slots
    PROVE  Count(h, t) = (IF h < t THEN h - t + KBD_BUFFER_SIZE ELSE h - t) /\ Count(h, t) \in Slots
<1>1. KBD_BUFFER_SIZE \in Nat \ {0}
  BY KeyAssumption
<1> DEFINE a == h - t
<1>2. /\ a \in Int /\ - KBD_BUFFER_SIZE <= a /\ a < 2 * KBD_BUFFER_SIZE
      /\ a < KBD_BUFFER_SIZE /\ (a < 0 <=> h < t)
  BY <1>1 DEF Slots
<1>3. a % KBD_BUFFER_SIZE = IF h < t THEN a + KBD_BUFFER_SIZE ELSE a
  <2> HIDE DEF a
  <2> QED BY <1>1, <1>2, RemainderNear
<1> QED BY <1>1, <1>3 DEF Count, Slots

LEMMA PlaceIs ==
    ASSUME NEW t \in Slots, NEW i \in 1 .. KBD_BUFFER_SIZE
    PROVE  /\ (t + i - 1) % KBD_BUFFER_SIZE
                = IF t + i - 1 < KBD_BUFFER_SIZE THEN t + i - 1 ELSE t + i - 1 - KBD_BUFFER_SIZE
           /\ (t + i - 1) % KBD_BUFFER_SIZE \in Slots
<1>1. KBD_BUFFER_SIZE \in Nat \ {0}
  BY KeyAssumption
<1> DEFINE a == t + i - 1
<1>2. a \in Int /\ - KBD_BUFFER_SIZE <= a /\ a < 2 * KBD_BUFFER_SIZE /\ ~ (a < 0)
  BY <1>1 DEF Slots
<1>3. a % KBD_BUFFER_SIZE = IF a < KBD_BUFFER_SIZE THEN a ELSE a - KBD_BUFFER_SIZE
  <2> HIDE DEF a
  <2> QED BY <1>1, <1>2, RemainderNear
<1> QED BY <1>1, <1>2, <1>3 DEF Slots

LEMMA RowChars ==
    ASSUME NEW h \in Slots, NEW t \in Slots, NEW buf \in [Slots -> Chars \cup {None}]
    PROVE  Row(buf, h, t) \in Seq(Chars \cup {None}) /\ Len(Row(buf, h, t)) = Count(h, t)
<1>1. Count(h, t) \in Nat /\ \A i \in 1 .. Count(h, t) : i \in 1 .. KBD_BUFFER_SIZE
  <2> DEFINE n == Count(h, t)
  <2>1. n \in Slots
    BY CountIs
  <2> HIDE DEF n
  <2> QED BY <2>1, KeyAssumption DEF Slots, n
<1>2. \A i \in 1 .. Count(h, t) : buf[(t + i - 1) % KBD_BUFFER_SIZE] \in Chars \cup {None}
  BY <1>1, PlaceIs
<1> QED BY <1>1, <1>2 DEF Row

(* A character that is stored comes last.                                  *)
LEMMA RowPushed ==
    ASSUME NEW h \in Slots, NEW t \in Slots, NEW buf \in [Slots -> Chars \cup {None}], NEW c \in Chars,
           After(h) # t
    PROVE  /\ Row([buf EXCEPT ![h] = c], After(h), t) = Append(Row(buf, h, t), c)
           /\ Len(Row(buf, h, t)) < KBD_BUFFER_SIZE - 1
<1> DEFINE new == [buf EXCEPT ![h] = c]
           n == Count(h, t)
           row == Row(buf, h, t)
           more == Append(row, c)
           after == Row(new, After(h), t)
<1>1. /\ KBD_BUFFER_SIZE \in Nat \ {0} /\ n \in Nat /\ Count(After(h), t) = n + 1 /\ n + 1 \in Slots
  <2>1. After(h) \in Slots /\ After(h) = IF h = KBD_BUFFER_SIZE - 1 THEN 0 ELSE h + 1
    BY AfterIs
  <2>2. n = (IF h < t THEN h - t + KBD_BUFFER_SIZE ELSE h - t) /\ n \in Slots
    BY CountIs
  <2>3. Count(After(h), t) = IF After(h) < t THEN After(h) - t + KBD_BUFFER_SIZE ELSE After(h) - t
    BY <2>1, CountIs
  <2> HIDE DEF n
  <2>4. Count(After(h), t) = n + 1 /\ n + 1 \in Slots
    BY KeyAssumption, <2>1, <2>2, <2>3 DEF Slots
  <2> QED BY KeyAssumption, <2>2, <2>4 DEF Slots
<1>2. row \in Seq(Chars \cup {None}) /\ Len(row) = n /\ \A i \in 1 .. n : row[i] = buf[(t + i - 1) % KBD_BUFFER_SIZE]
  BY RowChars DEF Row
<1>3. /\ (t + (n + 1) - 1) % KBD_BUFFER_SIZE = h
      /\ \A i \in 1 .. n : (t + i - 1) % KBD_BUFFER_SIZE \in Slots /\ (t + i - 1) % KBD_BUFFER_SIZE # h
  <2>1. n + 1 \in 1 .. KBD_BUFFER_SIZE /\ \A i \in 1 .. n : i \in 1 .. KBD_BUFFER_SIZE
    BY <1>1 DEF Slots
  <2>2. n = IF h < t THEN h - t + KBD_BUFFER_SIZE ELSE h - t
    BY CountIs
  <2>3. (t + (n + 1) - 1) % KBD_BUFFER_SIZE = h
    <3>1. (t + (n + 1) - 1) % KBD_BUFFER_SIZE
            = IF t + (n + 1) - 1 < KBD_BUFFER_SIZE THEN t + (n + 1) - 1 ELSE t + (n + 1) - 1 - KBD_BUFFER_SIZE
      <4> HIDE DEF n
      <4> QED BY <2>1, PlaceIs
    <3> HIDE DEF n
    <3> QED BY <1>1, <2>2, <3>1 DEF Slots
  <2>4. ASSUME NEW i \in 1 .. n PROVE (t + i - 1) % KBD_BUFFER_SIZE \in Slots /\ (t + i - 1) % KBD_BUFFER_SIZE # h
    <3> HIDE DEF n
    <3>1. /\ (t + i - 1) % KBD_BUFFER_SIZE
               = IF t + i - 1 < KBD_BUFFER_SIZE THEN t + i - 1 ELSE t + i - 1 - KBD_BUFFER_SIZE
          /\ (t + i - 1) % KBD_BUFFER_SIZE \in Slots
      BY <2>1, PlaceIs
    <3> QED BY <1>1, <2>2, <3>1 DEF Slots
  <2> QED BY <2>3, <2>4
<1>4. new[h] = c /\ \A j \in Slots : j # h => new[j] = buf[j]
  OBVIOUS
<1>5. after = [i \in 1 .. n + 1 |-> new[(t + i - 1) % KBD_BUFFER_SIZE]]
  BY <1>1 DEF Row
<1> HIDE DEF new, row, n, after
<1>6. more = [i \in 1 .. n + 1 |-> more[i]] /\ more[n + 1] = c /\ \A i \in 1 .. n : more[i] = row[i]
  <2>1. more \in Seq(Chars \cup {None}) /\ Len(more) = n + 1
    BY <1>1, <1>2
  <2>2. more[n + 1] = c /\ \A i \in 1 .. n : more[i] = row[i]
    BY <1>1, <1>2
  <2> HIDE DEF more
  <2>3. more = [i \in 1 .. n + 1 |-> more[i]]
    BY <2>1
  <2> QED BY <2>2, <2>3
<1>7. \A i \in 1 .. n + 1 : new[(t + i - 1) % KBD_BUFFER_SIZE] = more[i]
  <2> SUFFICES ASSUME NEW i \in 1 .. n + 1 PROVE new[(t + i - 1) % KBD_BUFFER_SIZE] = more[i]
    OBVIOUS
  <2>1. CASE i = n + 1
    BY <1>3, <1>4, <1>6, <2>1
  <2>2. CASE i # n + 1
    <3>1. i \in 1 .. n
      BY <1>1, <2>2
    <3> QED BY <1>2, <1>3, <1>4, <1>6, <3>1
  <2> QED BY <2>1, <2>2
<1> HIDE DEF more
<1>8. after = more
  BY <1>5, <1>6, <1>7
<1>9. n < KBD_BUFFER_SIZE - 1
  BY <1>1 DEF Slots
<1> QED BY <1>2, <1>8, <1>9 DEF after, more, new, row

LEMMA RowFull ==
    ASSUME NEW h \in Slots, NEW t \in Slots, After(h) = t
    PROVE  Count(h, t) = KBD_BUFFER_SIZE - 1
<1>1. After(h) = IF h = KBD_BUFFER_SIZE - 1 THEN 0 ELSE h + 1
  BY AfterIs
<1>2. Count(h, t) = IF h < t THEN h - t + KBD_BUFFER_SIZE ELSE h - t
  BY CountIs
<1> QED BY <1>1, <1>2, KeyAssumption DEF Slots

(* The one that is read comes first.                                       *)
LEMMA RowRead ==
    ASSUME NEW h \in Slots, NEW t \in Slots, NEW buf \in [Slots -> Chars \cup {None}], h # t
    PROVE  /\ Row(buf, h, t) # <<>> /\ Head(Row(buf, h, t)) = buf[t]
           /\ Row(buf, h, After(t)) = Tail(Row(buf, h, t))
<1> DEFINE n == Count(h, t)
           row == Row(buf, h, t)
           rest == Tail(row)
           after == Row(buf, h, After(t))
<1>1. KBD_BUFFER_SIZE \in Nat \ {0} /\ n \in Nat \ {0} /\ n < KBD_BUFFER_SIZE /\ Count(h, After(t)) = n - 1
  <2>1. After(t) \in Slots /\ After(t) = IF t = KBD_BUFFER_SIZE - 1 THEN 0 ELSE t + 1
    BY AfterIs
  <2>2. n = (IF h < t THEN h - t + KBD_BUFFER_SIZE ELSE h - t) /\ n \in Slots
    BY CountIs
  <2>3. Count(h, After(t)) = IF h < After(t) THEN h - After(t) + KBD_BUFFER_SIZE ELSE h - After(t)
    BY <2>1, CountIs
  <2> HIDE DEF n
  <2>4. Count(h, After(t)) = n - 1 /\ n # 0
    BY KeyAssumption, <2>1, <2>2, <2>3 DEF Slots
  <2> QED BY KeyAssumption, <2>2, <2>4 DEF Slots
<1>2. row \in Seq(Chars \cup {None}) /\ Len(row) = n /\ \A i \in 1 .. n : row[i] = buf[(t + i - 1) % KBD_BUFFER_SIZE]
  BY RowChars DEF Row
<1>3. after = [i \in 1 .. n - 1 |-> buf[(After(t) + i - 1) % KBD_BUFFER_SIZE]]
  BY <1>1 DEF Row
<1> HIDE DEF n, row, after
<1>4. row # <<>> /\ Head(row) = buf[t]
  <2>1. 1 \in 1 .. n /\ 1 \in 1 .. KBD_BUFFER_SIZE
    BY <1>1
  <2>2. (t + 1 - 1) % KBD_BUFFER_SIZE = t
    BY <1>1, <2>1, PlaceIs DEF Slots
  <2> QED BY <1>2, <2>1, <2>2
<1>5. rest = [i \in 1 .. n - 1 |-> rest[i]] /\ \A i \in 1 .. n - 1 : rest[i] = row[i + 1]
  <2>1. rest \in Seq(Chars \cup {None}) /\ Len(rest) = n - 1
    BY <1>1, <1>2, <1>4
  <2>2. \A i \in 1 .. n - 1 : rest[i] = row[i + 1]
    BY <1>1, <1>2, <1>4
  <2> HIDE DEF rest
  <2>3. rest = [i \in 1 .. n - 1 |-> rest[i]]
    BY <2>1
  <2> QED BY <2>2, <2>3
<1>6. ASSUME NEW i \in 1 .. n - 1
      PROVE  buf[(After(t) + i - 1) % KBD_BUFFER_SIZE] = rest[i]
  <2>1. i \in 1 .. KBD_BUFFER_SIZE /\ i + 1 \in 1 .. KBD_BUFFER_SIZE /\ i + 1 \in 1 .. n
    BY <1>1
  <2>2. (After(t) + i - 1) % KBD_BUFFER_SIZE
          = IF After(t) + i - 1 < KBD_BUFFER_SIZE THEN After(t) + i - 1 ELSE After(t) + i - 1 - KBD_BUFFER_SIZE
    BY <2>1, AfterIs, PlaceIs
  <2>3. (t + (i + 1) - 1) % KBD_BUFFER_SIZE
          = IF t + (i + 1) - 1 < KBD_BUFFER_SIZE THEN t + (i + 1) - 1 ELSE t + (i + 1) - 1 - KBD_BUFFER_SIZE
    BY <2>1, PlaceIs
  <2>4. After(t) = IF t = KBD_BUFFER_SIZE - 1 THEN 0 ELSE t + 1
    BY AfterIs
  <2>5. (After(t) + i - 1) % KBD_BUFFER_SIZE = (t + (i + 1) - 1) % KBD_BUFFER_SIZE
    BY <1>1, <2>1, <2>2, <2>3, <2>4 DEF Slots
  <2> QED BY <1>2, <1>5, <2>1, <2>5
<1> HIDE DEF rest
<1>7. after = rest
  BY <1>3, <1>5, <1>6
<1> QED BY <1>4, <1>7 DEF row, after, rest
-----------------------------------------------------------------------------
LEMMA RingInit == Init => RingInv
<1> SUFFICES ASSUME Init PROVE RingInv
  OBVIOUS
<1>1. 0 \in Slots
  BY KeyAssumption DEF Slots
<1>2. inject = NoInject /\ kbd_head = 0 /\ kbd_tail = 0 /\ kbd_buffer = [i \in Slots |-> None]
  BY DEF Init, Slots
<1> QED BY <1>1, <1>2 DEF RingInv

LEMMA TranslateChars ==
    ASSUME NEW k \in CharKeys, KeyInv
    PROVE  kbd_translate(k) \in Chars
<1>1. {shift_left, shift_right, caps_lock} \subseteq BOOLEAN
  BY DEF KeyInv
<1>2. Upper(k, shift_left \/ shift_right, caps_lock) \in BOOLEAN
  BY <1>1 DEF Upper
<1> QED BY <1>2 DEF kbd_translate, Chars

(* The driver takes the meant character from a byte that means one, and     *)
(* leaves the ring alone for every other.                                   *)
LEMMA DecodedIsMeant ==
    ASSUME KeyInv, Irq1
    PROVE  IF Head(port).means = None THEN UNCHANGED ring ELSE Push(Head(port).means) /\ Head(port).means \in Chars
<1> DEFINE b == Head(port)
<1>1. b \in Bytes /\ kbd_handle_irq(b)
  BY DEF Irq1, KeyInv
<1>2. b.means = Stands(Now, b)
  BY LeadsFrom DEF Irq1, KeyInv
<1> HIDE DEF b
<1>3. "E0" \in Now <=> extended_scancode
  BY DEF Now, If
<1>4. "E0" \notin CharKeys
  BY KeyAssumption DEF CharKeys, Control
<1>5. CASE b.code \in CharKeys /\ b.press /\ ~ extended_scancode
  <2>1. Push(kbd_translate(b.code))
    BY <1>1, <1>4, <1>5 DEF kbd_handle_irq, Process
  <2>2. kbd_translate(b.code) \in Chars
    BY <1>5, TranslateChars
  <2>3. b.means = <<b.code, Upper(b.code, Now \cap {"lshift", "rshift"} # {}, "caps" \in Now)>>
    BY <1>2, <1>3, <1>5 DEF Stands
  <2>4. Now \cap {"lshift", "rshift"} # {} <=> shift_left \/ shift_right
    BY DEF Now, If
  <2>5. "caps" \in Now <=> caps_lock
    BY DEF Now, If
  <2>6. Upper(b.code, Now \cap {"lshift", "rshift"} # {}, "caps" \in Now)
          = Upper(b.code, shift_left \/ shift_right, caps_lock)
    <3>1. caps_lock \in BOOLEAN
      BY DEF KeyInv
    <3>2. (Now \cap {"lshift", "rshift"} # {}) = (shift_left \/ shift_right)
      BY <2>4
    <3>3. ("caps" \in Now) = caps_lock
      <4>1. caps_lock = TRUE \/ caps_lock = FALSE
        BY <3>1, Zenon
      <4> QED BY <2>5, <4>1
    <3> QED BY <3>2, <3>3
  <2>7. b.means = kbd_translate(b.code)
    BY <2>3, <2>6 DEF kbd_translate
  <2> QED BY <2>1, <2>2, <2>7, NoneIsNone DEF b
<1>6. CASE ~ (b.code \in CharKeys /\ b.press /\ ~ extended_scancode)
  <2>1. b.means = None
    BY <1>2, <1>3, <1>6 DEF Stands
  <2>2. UNCHANGED ring
    BY <1>1, <1>6 DEF kbd_handle_irq, Process
  <2> QED BY <2>1, <2>2 DEF b
<1> QED BY <1>5, <1>6

LEMMA PushKeeps ==
    ASSUME RingInv, NEW c \in Chars, Push(c), inject' = NoInject
    PROVE  RingInv'
BY AfterIs DEF RingInv, Push, ring

LEMMA RingNext == KeyInv /\ RingInv /\ [Next]_vars => RingInv'
<1> SUFFICES ASSUME KeyInv, RingInv, [Next]_vars PROVE RingInv'
  OBVIOUS
<1>1. ASSUME UNCHANGED <<ring, inject, tested>>, inject = NoInject \/ pc' = pc PROVE RingInv'
  BY <1>1 DEF RingInv, ring, After
<1>2. CASE User \/ UNCHANGED vars
  BY <1>1, <1>2 DEF User, vars, user, reader
<1>3. CASE Irq1
  <2>1. inject' = NoInject
    BY <1>3 DEF Irq1, KeyInv, RingInv
  <2>2. CASE UNCHANGED ring
    BY <2>1, <2>2 DEF RingInv, ring
  <2>3. CASE ~ UNCHANGED ring
    <3>1. PICK c \in Chars : Push(c)
      BY <1>3, <2>3, DecodedIsMeant
    <3> QED BY <2>1, <3>1, PushKeeps
  <2> QED BY <2>2, <2>3
<1>4. CASE Irq0 \/ Readline \/ Halt \/ Cli
  <2>1. inject = NoInject
    BY <1>4 DEF Irq0, Readline, Halt, Cli, RingInv
  <2> QED BY <1>1, <1>4, <2>1 DEF Irq0, Readline, Halt, Cli, user
<1>5. CASE Check \/ GetcNonblock
  <2>1. inject = NoInject /\ inject' = NoInject
    BY <1>5 DEF Check, GetcNonblock, RingInv
  <2>2. UNCHANGED <<kbd_buffer, kbd_head>> /\ (kbd_tail' = kbd_tail \/ kbd_tail' = After(kbd_tail))
    BY <1>5 DEF Check, GetcNonblock, ring
  <2> QED BY <2>1, <2>2, AfterIs DEF RingInv
<1>6. CASE tested /\ \E k \in Injected : InjectTest(k)
  <2>1. PICK k \in Injected : InjectTest(k)
    BY <1>6
  <2>2. UNCHANGED <<ring, tested, pc>> /\ pc = "away"
    BY <2>1 DEF InjectTest, reader
  <2>3. CASE After(kbd_head) # kbd_tail
    <3>1. inject' = [c |-> kbd_translate(k), next |-> After(kbd_head)]
      BY <2>1, <2>3 DEF InjectTest
    <3>2. kbd_translate(k) \in Chars
      BY TranslateChars, KeyAssumption
    <3>3. inject'.c \in Chars /\ inject' = [c |-> inject'.c, next |-> After(kbd_head)]
      BY <3>1, <3>2
    <3> QED BY <1>6, <2>2, <2>3, <3>3 DEF RingInv, ring, After
  <2>4. CASE After(kbd_head) = kbd_tail
    <3>1. inject' = NoInject
      BY <2>1, <2>4 DEF InjectTest
    <3> QED BY <2>2, <3>1 DEF RingInv, ring
  <2> QED BY <2>3, <2>4
<1>7. CASE InjectStore
  <2>1. inject = [c |-> inject.c, next |-> After(kbd_head)] /\ inject.c \in Chars
    BY <1>7 DEF InjectStore, RingInv
  <2>2. inject.next = After(kbd_head)
    BY <2>1
  <2>3. After(kbd_head) \in Slots
    BY AfterIs DEF RingInv
  <2> QED BY <1>7, <2>1, <2>2, <2>3 DEF InjectStore, RingInv
<1>8. CASE Reset
  <2>1. 0 \in Slots
    BY KeyAssumption DEF Slots
  <2> QED BY <1>8, <2>1 DEF Reset, RingInv
<1> QED BY <1>2, <1>3, <1>4, <1>5, <1>6, <1>7, <1>8 DEF Next, Driver, Tests
-----------------------------------------------------------------------------
(* The driver's steps as the queue's.                                       *)
InjectedOf(i) == IF i = NoInject THEN <<>> ELSE <<i.c>>
Sources == [user |-> Typed, test |-> InjectedOf(inject)]

LEMMA WaitingIs == Waiting = Row(kbd_buffer, kbd_head, kbd_tail)
BY DEF Waiting, Row, Count

LEMMA SourceSet ==
    ASSUME NEW t, NEW i, NEW x, NEW s \in {"user", "test"}, NEW r, r = [user |-> t, test |-> i]
    PROVE  /\ [r EXCEPT ![s] = x] = IF s = "user" THEN [user |-> x, test |-> i] ELSE [user |-> t, test |-> x]
           /\ r[s] = IF s = "user" THEN t ELSE i
OBVIOUS

LEMMA QueueInit == Init => Queue!Init
<1> SUFFICES ASSUME Init PROVE Queue!Init
  OBVIOUS
<1>1. port = <<>> /\ inject = NoInject /\ last = None /\ kbd_head = 0 /\ kbd_tail = 0
  BY DEF Init
<1>2. Waiting = <<>>
  <2>1. 0 \in Slots
    BY KeyAssumption DEF Slots
  <2>2. Count(0, 0) = 0
    BY <2>1, CountIs
  <2> QED BY <1>1, <2>2, WaitingIs DEF Row
<1>3. Typed = <<>>
  <2>1. MeantOf(port) = {}
    BY <1>1 DEF MeantOf
  <2>2. Cardinality({}) = 0
    BY FS_EmptySet
  <2> QED BY <2>1, <2>2, TypedIs DEF TypedOf
<1>4. [user |-> <<>>, test |-> <<>>] = [s \in {"user", "test"} |-> <<>>]
  OBVIOUS
<1> QED BY <1>1, <1>2, <1>3, <1>4 DEF Queue!Init, None

(* A source means a character; the driver takes one, which is lost only     *)
(* when the ring is full; the reader gets one.                              *)
LEMMA QueueType ==
    ASSUME NEW s \in {"user", "test"}, NEW c \in Chars, NEW t, NEW i, t = Typed, i = InjectedOf(inject),
           Typed' = IF s = "user" THEN Append(t, c) ELSE t,
           InjectedOf(inject)' = IF s = "user" THEN i ELSE Append(i, c),
           Waiting' = Waiting, last' = last
    PROVE  Queue!Next
<1>1. Sources = [user |-> t, test |-> i]
  BY DEF Sources
<1>2. Sources' = IF s = "user" THEN [user |-> Append(t, c), test |-> i] ELSE [user |-> t, test |-> Append(i, c)]
  BY DEF Sources
<1> DEFINE r == Sources
           x == Append(r[s], c)
<1>3. r[s] = IF s = "user" THEN t ELSE i
  <2> HIDE DEF r
  <2> QED BY <1>1, SourceSet DEF r
<1>4. [r EXCEPT ![s] = x] = IF s = "user" THEN [user |-> x, test |-> i] ELSE [user |-> t, test |-> x]
  <2> HIDE DEF r, x
  <2> QED BY <1>1, SourceSet DEF r
<1>5. Sources' = [r EXCEPT ![s] = x]
  <2> HIDE DEF r
  <2> QED BY <1>2, <1>3, <1>4
<1>6. Queue!Type(s, c)
  BY <1>5 DEF Queue!Type, Sources, InjectedOf
<1> QED BY <1>6 DEF Queue!Next

LEMMA QueueAccept ==
    ASSUME NEW s \in {"user", "test"}, NEW t, NEW i, t = Typed, i = InjectedOf(inject),
           NEW f, f = (IF s = "user" THEN t ELSE i), f # <<>>,
           Typed' = IF s = "user" THEN Tail(t) ELSE t,
           InjectedOf(inject)' = IF s = "user" THEN i ELSE Tail(i),
           NEW w, w = Waiting, last' = last,
           Waiting' = IF Len(w) < KBD_BUFFER_SIZE - 1 THEN Append(w, Head(f)) ELSE w
    PROVE  Queue!Next
<1>1. Sources = [user |-> t, test |-> i]
  BY DEF Sources
<1>2. Sources' = IF s = "user" THEN [user |-> Tail(t), test |-> i] ELSE [user |-> t, test |-> Tail(i)]
  BY DEF Sources
<1> DEFINE r == Sources
           x == Tail(r[s])
<1>3. r[s] = f
  <2> HIDE DEF r
  <2> QED BY <1>1, SourceSet DEF r
<1>4. [r EXCEPT ![s] = x] = IF s = "user" THEN [user |-> x, test |-> i] ELSE [user |-> t, test |-> x]
  <2> HIDE DEF r, x
  <2> QED BY <1>1, SourceSet DEF r
<1>5. Sources' = [r EXCEPT ![s] = x]
  <2> HIDE DEF r
  <2> QED BY <1>2, <1>3, <1>4
<1>6. Queue!Accept(s)
  BY <1>3, <1>5 DEF Queue!Accept, Sources, InjectedOf
<1> QED BY <1>6 DEF Queue!Next

LEMMA QueueRead ==
    ASSUME Typed' = Typed, inject' = inject, NEW w, w = Waiting, w # <<>>, last' = Head(w), Waiting' = Tail(w)
    PROVE  Queue!Next
<1>1. Sources' = Sources
  BY DEF Sources
<1>2. Queue!Read
  BY <1>1 DEF Queue!Read, Sources, InjectedOf
<1> QED BY <1>2 DEF Queue!Next

LEMMA QueueDiscard ==
    ASSUME Typed' = Typed, inject' = inject, last' = last, Waiting' = <<>>
    PROVE  Queue!Next
<1>1. Sources' = Sources
  BY DEF Sources
<1>2. Queue!Discard
  BY <1>1 DEF Queue!Discard, Sources, InjectedOf
<1> QED BY <1>2 DEF Queue!Next

LEMMA QueueSame ==
    ASSUME Typed' = Typed, inject' = inject, last' = last, Waiting' = Waiting
    PROVE  UNCHANGED Queue!vars
BY DEF Queue!vars
-----------------------------------------------------------------------------
(* What a byte that is sent adds to what is typed.                         *)
LEMMA SendTypes ==
    ASSUME KeyInv, NEW b \in Bytes, port' = Append(port, b), UNCHANGED <<ring, inject, last>>
    PROVE  IF b.means = None THEN UNCHANGED Queue!vars ELSE Queue!Next
<1>1. Typed' = IF b.means = None THEN Typed ELSE Append(Typed, b.means)
  <2>1. TypedOf(Append(port, b)) = IF b.means = None THEN TypedOf(port) ELSE Append(TypedOf(port), b.means)
    BY TypedAppend DEF KeyInv
  <2>2. Typed' = TypedOf(port')
    BY DEF Typed, TypedOf, Meant, MeantOf, Nth
  <2> QED BY <2>1, <2>2, TypedIs
<1>2. Waiting' = Waiting /\ inject' = inject /\ last' = last
  BY DEF Waiting, ring
<1>3. CASE b.means = None
  BY <1>1, <1>2, <1>3, QueueSame
<1>4. CASE b.means # None
  <2>1. b.means \in Chars
    BY <1>4 DEF Bytes
  <2> DEFINE t == Typed
             i == InjectedOf(inject)
  <2>2. Typed' = Append(t, b.means) /\ InjectedOf(inject)' = i
    BY <1>1, <1>2, <1>4
  <2> HIDE DEF t, i
  <2>3. t = Typed /\ i = InjectedOf(inject) /\ "user" \in {"user", "test"}
    BY DEF t, i
  <2> QED BY <1>2, <1>4, <2>1, <2>2, <2>3, QueueType
<1> QED BY <1>3, <1>4

LEMMA UserSteps ==
    ASSUME KeyInv, User
    PROVE  [Queue!Next]_(Queue!vars)
<1>1. UNCHANGED <<ring, inject, last>> /\ port \in Seq(Bytes)
  BY DEF User, reader, KeyInv
<1>2. ASSUME NEW k \in UserKeys, Press(k) PROVE [Queue!Next]_(Queue!vars)
  <2> DEFINE b == Byte(k, TRUE, Means(k))
  <2>1. b \in Bytes
    BY Coded DEF Byte, Bytes, Means, Chars, Upper
  <2>2. port' = port \o <<b>>
    BY <1>2 DEF Press, Send
  <2> HIDE DEF b
  <2>3. port' = Append(port, b)
    BY <1>1, <2>1, <2>2
  <2> QED BY <1>1, <2>1, <2>3, SendTypes
<1>3. ASSUME NEW k \in UserKeys, Release(k) PROVE [Queue!Next]_(Queue!vars)
  <2> DEFINE b == Byte(k, FALSE, None)
  <2>1. b \in Bytes
    BY Coded DEF Byte, Bytes
  <2>2. port' = port \o <<b>>
    BY <1>3 DEF Release, Send
  <2> HIDE DEF b
  <2>3. port' = Append(port, b)
    BY <1>1, <2>1, <2>2
  <2> QED BY <1>1, <2>1, <2>3, SendTypes
<1>4. ASSUME NEW k \in Extended, NEW press \in BOOLEAN, PressExtended(k, press) PROVE [Queue!Next]_(Queue!vars)
  <2> DEFINE a == Byte("E0", TRUE, None)
             b == Byte(k, press, None)
  <2>1. a \in Bytes /\ a.means = None /\ b \in Bytes /\ b.means = None
    BY DEF Byte, Bytes, Extended, CharKeys, Control, Modifiers
  <2>2. port' = port \o <<a, b>>
    BY <1>4 DEF PressExtended, Send
  <2> HIDE DEF a, b
  <2>3. port' = Append(Append(port, a), b) /\ Append(port, a) \in Seq(Bytes)
    BY <1>1, <2>1, <2>2
  <2>4. TypedOf(port') = TypedOf(port)
    BY <1>1, <2>1, <2>3, TypedAppend
  <2>5. Typed' = TypedOf(port')
    BY DEF Typed, TypedOf, Meant, MeantOf, Nth
  <2>6. Waiting' = Waiting
    BY <1>1 DEF Waiting, ring
  <2> QED BY <1>1, <2>4, <2>5, <2>6, TypedIs, QueueSame
<1> QED BY <1>2, <1>3, <1>4 DEF User

(* A character that is stored is the last to wait, unless the ring is full. *)
LEMMA PushWaits ==
    ASSUME RingInv, NEW c \in Chars, Push(c), NEW w, w = Waiting
    PROVE  Waiting' = IF Len(w) < KBD_BUFFER_SIZE - 1 THEN Append(w, c) ELSE w
<1>1. /\ kbd_head \in Slots /\ kbd_tail \in Slots /\ kbd_buffer \in [Slots -> Chars \cup {None}]
      /\ w = Row(kbd_buffer, kbd_head, kbd_tail)
  BY WaitingIs DEF RingInv
<1>2. Waiting' = Row(kbd_buffer', kbd_head', kbd_tail')
  BY DEF Waiting, Row, Count
<1>3. CASE After(kbd_head) # kbd_tail
  <2>1. kbd_buffer' = [kbd_buffer EXCEPT ![kbd_head] = c] /\ kbd_head' = After(kbd_head) /\ kbd_tail' = kbd_tail
    BY <1>3 DEF Push
  <2>2. Row([kbd_buffer EXCEPT ![kbd_head] = c], After(kbd_head), kbd_tail) = Append(w, c) /\ Len(w) < KBD_BUFFER_SIZE - 1
    <3>1. /\ Row([kbd_buffer EXCEPT ![kbd_head] = c], After(kbd_head), kbd_tail) = Append(Row(kbd_buffer, kbd_head, kbd_tail), c)
          /\ Len(Row(kbd_buffer, kbd_head, kbd_tail)) < KBD_BUFFER_SIZE - 1
      BY <1>1, <1>3, RowPushed, Zenon
    <3> QED BY <1>1, <3>1
  <2> QED BY <1>2, <2>1, <2>2
<1>4. CASE After(kbd_head) = kbd_tail
  <2>1. Waiting' = w
    BY <1>1, <1>2, <1>4 DEF Push, ring
  <2>2. Len(w) = KBD_BUFFER_SIZE - 1
    BY <1>1, <1>4, RowChars, RowFull
  <2>3. ~ (Len(w) < KBD_BUFFER_SIZE - 1)
    BY <2>2, KeyAssumption
  <2> QED BY <2>1, <2>3
<1> QED BY <1>3, <1>4

LEMMA ReadTakes ==
    ASSUME RingInv, kbd_head # kbd_tail, last' = kbd_buffer[kbd_tail], kbd_tail' = After(kbd_tail),
           UNCHANGED <<kbd_buffer, kbd_head, inject, port>>
    PROVE  Queue!Next
<1> DEFINE w == Waiting
<1>1. /\ kbd_head \in Slots /\ kbd_tail \in Slots /\ kbd_buffer \in [Slots -> Chars \cup {None}]
      /\ w = Row(kbd_buffer, kbd_head, kbd_tail)
  BY WaitingIs DEF RingInv
<1>2. Waiting' = Row(kbd_buffer, kbd_head, After(kbd_tail))
  BY DEF Waiting, Row, Count
<1>3. Typed' = Typed
  BY DEF Typed, Meant
<1> HIDE DEF w
<1>4. w # <<>> /\ Head(w) = kbd_buffer[kbd_tail] /\ Waiting' = Tail(w)
  BY <1>1, <1>2, RowRead
<1>5. w = Waiting
  BY DEF w
<1> QED BY <1>3, <1>4, <1>5, QueueRead

LEMMA IrqSteps ==
    ASSUME KeyInv, RingInv, Irq1
    PROVE  [Queue!Next]_(Queue!vars)
<1> DEFINE b == Head(port)
           t == Typed
           w == Waiting
           i == InjectedOf(inject)
<1>1. /\ port \in Seq(Bytes) /\ port # <<>> /\ port' = Tail(port) /\ last' = last
      /\ inject' = inject /\ t = TypedOf(port)
  BY TypedIs DEF Irq1, KeyInv
<1>2. Typed' = TypedOf(Tail(port))
  BY <1>1 DEF Typed, TypedOf, Meant, MeantOf, Nth
<1>3. IF b.means = None THEN Typed' = t ELSE t # <<>> /\ Head(t) = b.means /\ Typed' = Tail(t)
  BY <1>1, <1>2, TypedTail
<1>4. IF b.means = None THEN UNCHANGED ring ELSE Push(b.means) /\ b.means \in Chars
  BY DecodedIsMeant
<1>5. InjectedOf(inject)' = i
  BY <1>1
<1> HIDE DEF b, t, w, i
<1>6. CASE b.means = None
  <2>1. Waiting' = Waiting
    BY <1>4, <1>6 DEF Waiting, ring
  <2> QED BY <1>1, <1>3, <1>6, <2>1, QueueSame DEF t
<1>7. CASE b.means # None
  <2>1. Waiting' = IF Len(w) < KBD_BUFFER_SIZE - 1 THEN Append(w, Head(t)) ELSE w
    BY <1>3, <1>4, <1>7, PushWaits DEF w
  <2>2. t = Typed /\ i = InjectedOf(inject) /\ w = Waiting /\ "user" \in {"user", "test"}
    BY DEF t, i, w
  <2> QED BY <1>1, <1>3, <1>5, <1>7, <2>1, <2>2, QueueAccept
<1> QED BY <1>6, <1>7

LEMMA TestSteps ==
    ASSUME KeyInv, RingInv, tested, NEW k \in Injected, InjectTest(k)
    PROVE  [Queue!Next]_(Queue!vars)
<1> DEFINE t == Typed
           i == InjectedOf(inject)
           c == kbd_translate(k)
<1>1. inject = NoInject /\ UNCHANGED <<ring, port, last>> /\ c \in Chars
  BY TranslateChars, KeyAssumption DEF InjectTest, reader
<1>2. Typed' = t /\ Waiting' = Waiting /\ last' = last
  BY <1>1 DEF Typed, Meant, Waiting, ring
<1>3. CASE After(kbd_head) = kbd_tail
  <2>1. inject' = inject
    BY <1>1, <1>3 DEF InjectTest
  <2> QED BY <1>2, <2>1, QueueSame
<1>4. CASE After(kbd_head) # kbd_tail
  <2>1. inject' = [c |-> c, next |-> After(kbd_head)]
    BY <1>4 DEF InjectTest
  <2> HIDE DEF c
  <2>2. inject' # NoInject
    BY <1>1, <2>1, NoneIsNone DEF NoInject
  <2>3. inject'.c = c
    BY <2>1
  <2>4. InjectedOf(inject)' = <<c>> /\ i = <<>>
    BY <1>1, <2>2, <2>3 DEF InjectedOf
  <2>5. InjectedOf(inject)' = Append(i, c)
    BY <1>1, <2>4
  <2> HIDE DEF t, i
  <2>6. t = Typed /\ i = InjectedOf(inject) /\ "test" \in {"user", "test"} /\ "test" # "user"
    BY DEF t, i
  <2> QED BY <1>1, <1>2, <2>5, <2>6, QueueType
<1> QED BY <1>3, <1>4

LEMMA StoreSteps ==
    ASSUME KeyInv, RingInv, InjectStore
    PROVE  Queue!Next
<1> DEFINE t == Typed
           i == InjectedOf(inject)
           w == Waiting
           c == inject.c
<1>1. /\ inject # NoInject /\ After(kbd_head) # kbd_tail /\ c \in Chars /\ inject' = NoInject
      /\ inject = [c |-> c, next |-> After(kbd_head)] /\ UNCHANGED <<port, last, kbd_tail>>
      /\ kbd_buffer' = [kbd_buffer EXCEPT ![kbd_head] = c] /\ kbd_head' = inject.next
  BY DEF InjectStore, RingInv, reader
<1>2. Typed' = t
  BY <1>1 DEF Typed, Meant
<1>3. i = <<c>> /\ InjectedOf(inject)' = <<>>
  BY <1>1 DEF InjectedOf
<1> HIDE DEF t, i, w, c
<1>4. i # <<>> /\ Head(i) = c /\ InjectedOf(inject)' = Tail(i)
  BY <1>1, <1>3
<1>5. kbd_head' = After(kbd_head)
  BY <1>1
<1>6. Push(c)
  BY <1>1, <1>5 DEF Push
<1>7. Waiting' = IF Len(w) < KBD_BUFFER_SIZE - 1 THEN Append(w, Head(i)) ELSE w
  BY <1>1, <1>4, <1>6, PushWaits DEF w
<1>8. t = Typed /\ i = InjectedOf(inject) /\ w = Waiting /\ "test" \in {"user", "test"} /\ "test" # "user"
  BY DEF t, i, w
<1> QED BY <1>1, <1>2, <1>4, <1>7, <1>8, QueueAccept

LEMMA ResetSteps ==
    ASSUME KeyInv, RingInv, Reset
    PROVE  Queue!Next
<1>1. UNCHANGED <<port, last, inject>> /\ kbd_head' = 0 /\ kbd_tail' = 0
  BY DEF Reset, reader
<1>2. Typed' = Typed
  BY <1>1 DEF Typed, Meant
<1>3. Waiting' = <<>>
  <2>1. 0 \in Slots
    BY KeyAssumption DEF Slots
  <2>2. Count(0, 0) = 0
    BY <2>1, CountIs
  <2>3. Waiting' = Row(kbd_buffer', 0, 0)
    BY <1>1 DEF Waiting, Row, Count
  <2> QED BY <2>2, <2>3 DEF Row
<1> QED BY <1>1, <1>2, <1>3, QueueDiscard

LEMMA QueueNext == KeyInv /\ RingInv /\ [Next]_vars => [Queue!Next]_(Queue!vars)
<1> SUFFICES ASSUME KeyInv, RingInv, [Next]_vars PROVE [Queue!Next]_(Queue!vars)
  OBVIOUS
<1>1. ASSUME UNCHANGED <<ring, port, inject, last>> PROVE UNCHANGED Queue!vars
  <2>1. Typed' = Typed /\ Waiting' = Waiting
    BY <1>1 DEF Typed, Meant, Waiting, ring
  <2> QED BY <1>1, <2>1, QueueSame
<1>2. CASE User
  BY <1>2, UserSteps
<1>3. CASE Irq1
  BY <1>3, IrqSteps
<1>4. CASE Irq0 \/ Readline \/ Halt \/ Cli \/ UNCHANGED vars
  BY <1>1, <1>4 DEF Irq0, Readline, Halt, Cli, vars, reader
<1>5. CASE Check
  <2>1. CASE kbd_head = kbd_tail
    BY <1>1, <1>5, <2>1 DEF Check
  <2>2. CASE kbd_head # kbd_tail
    BY <1>5, <2>2, ReadTakes DEF Check
  <2> QED BY <2>1, <2>2
<1>6. CASE GetcNonblock
  BY <1>6, ReadTakes DEF GetcNonblock
<1>7. CASE tested /\ \E k \in Injected : InjectTest(k)
  BY <1>7, TestSteps
<1>8. CASE InjectStore
  BY <1>8, StoreSteps
<1>9. CASE Reset
  BY <1>9, ResetSteps
<1> QED BY <1>2, <1>3, <1>4, <1>5, <1>6, <1>7, <1>8, <1>9 DEF Next, Driver, Tests

(* The keyboard implements the queue of KeyQueue: characters are delivered  *)
(* as they were meant, in order and once each, and one is lost only when    *)
(* all but one slot of the ring is taken (kbd_handle_irq,                   *)
(* kbd_process_scancode, kbd_getc_blocking).                                *)
THEOREM KeysAreDelivered == Spec => ImplementsKeyQueue
<1>1. KeyInv /\ RingInv /\ [Next]_vars => RingInv'
  BY RingNext
<1>2. Init => RingInv
  BY RingInit
<1>3. Init => Queue!Init
  BY QueueInit
<1>4. KeyInv /\ RingInv /\ [Next]_vars => [Queue!Next]_(Queue!vars)
  BY QueueNext
<1> QED BY <1>1, <1>2, <1>3, <1>4, KeyAlways, PTL DEF Spec, ImplementsKeyQueue, Queue!Spec
=============================================================================
