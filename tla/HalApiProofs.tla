---------------------------- MODULE HalApiProofs ----------------------------
(***************************************************************************)
(* Proofs about HalApi, for any callers, worlds and bounds: the types,     *)
(* that the state agrees with the camera (CaptureState), and that each     *)
(* call is answered once (OneAnswerEach).  The first section says of       *)
(* Handle what the others need, state by state.                            *)
(***************************************************************************)
EXTENDS HalApi, FiniteSetTheorems, WellFoundedInduction, TLAPS

-----------------------------------------------------------------------------
(* The state machine.                                                      *)

Flags == [longshot : BOOLEAN, retro : BOOLEAN, window : BOOLEAN]
Lucks == [ok : BOOLEAN, restart : BOOLEAN]
Outcomes == [state : States, answers : Seq(Apis), work : Works]

\* The calls that every state answers, when no retro picture is under way: the others
\* fall into a default branch of some state, which only logs.
Answered == Calls \ (Stray \cup {"REG_FACE_IMAGE", "RELEASE_RECORIDNG_FRAME"})

\* The results that the handlers signal.
LEMMA ApiType ==
  /\ \A e \in Calls \cup {"SNAPSHOT_DONE"} : Api(e) \in Apis
  /\ {"PREPARE_SNAPSHOT", "TAKE_PICTURE", "STOP_CAPTURE_CHANNEL"} \subseteq Apis
  /\ None \notin Apis
<1>1. /\ Api("PREPARE_SNAPSHOT") = "PREPARE_SNAPSHOT" /\ Api("TAKE_PICTURE") = "TAKE_PICTURE"
      /\ Api("STOP_CAPTURE_CHANNEL") = "STOP_CAPTURE_CHANNEL"
      /\ Api("SNAPSHOT_DONE") = "SNAPSHOT_DONE"
  BY DEF Api
<1>2. {"PREPARE_SNAPSHOT", "TAKE_PICTURE", "STOP_CAPTURE_CHANNEL"} \subseteq Calls
  BY DEF Calls
<1>3. \A e \in Calls : Api(e) # None
  BY DEF Calls, Api, None
<1> QED
  BY <1>1, <1>2, <1>3 DEF Apis, None

\* Whatever the state, the event, the modes and the luck, an outcome is made by Answer
\* or Ignore, with some work.
LEMMA OutcomeTypes ==
  /\ \A s \in States : Ignore(s) \in Outcomes
  /\ \A s \in States : \A e \in Calls \cup {"SNAPSHOT_DONE"} : Answer(s, e) \in Outcomes
  /\ \A o \in Outcomes : \A w \in Works : Doing(o, w) \in Outcomes
<1>1. /\ "none" \in Works /\ << >> \in Seq(Apis)
      /\ \A a \in Apis : <<a>> \in Seq(Apis)
  BY ApiType DEF Works
<1>2. \A s \in States : Ignore(s) \in Outcomes
  BY <1>1 DEF Ignore, Outcomes
<1>3. \A s \in States : \A e \in Calls \cup {"SNAPSHOT_DONE"} : Answer(s, e) \in Outcomes
  BY <1>1, ApiType DEF Answer, Outcomes
<1>4. \A o \in Outcomes : \A w \in Works : Doing(o, w) \in Outcomes
  BY DEF Doing, Outcomes
<1> QED
  BY <1>2, <1>3, <1>4

\* An outcome that is no work, and one that is.
LEMMA OutcomeIs ==
  /\ \A s, e : /\ Answer(s, e).state = s /\ Answer(s, e).answers = <<Api(e)>>
               /\ Answer(s, e).work = "none"
  /\ \A s : Ignore(s).state = s /\ Ignore(s).answers = << >> /\ Ignore(s).work = "none"
  /\ \A s, e, w : /\ Doing(Answer(s, e), w).state = s
                  /\ Doing(Answer(s, e), w).answers = <<Api(e)>>
                  /\ Doing(Answer(s, e), w).work = w
  /\ \A s, w : /\ Doing(Ignore(s), w).state = s /\ Doing(Ignore(s), w).answers = << >>
               /\ Doing(Ignore(s), w).work = w
BY DEF Answer, Ignore, Doing

\* The states and the works.
LEMMA HandleType ==
  ASSUME NEW s \in States, NEW e \in Calls \cup Evts, NEW f \in Flags, NEW m \in Modes,
         NEW r \in Lucks
  PROVE  Handle(s, e, f, m, r) \in Outcomes
<1> DEFINE o == Handle(s, e, f, m, r)
<1>1. Works = {"none", "prepare", "take", "cancel"} /\ (e \notin Evts => e \in Calls)
  BY DEF Works
<1>2. /\ \A x \in {"PREPARE_SNAPSHOT", "TAKE_PICTURE"} : x \in Calls
      /\ \A x \in {"PREVIEW_STOPPED", "PREVIEW_READY", "PREVIEWING", "PREPARE_SNAPSHOT",
                   "PIC_TAKING", "RECORDING", "VIDEO_PIC_TAKING", "PREVIEW_PIC_TAKING"} :
           x \in States
  BY DEF Calls, States
<1>3. CASE s = "PREVIEW_STOPPED"
  <2>1. o = PreviewStopped(e, f, m, r)
    BY <1>3 DEF Handle
  <2> QED
    BY <1>1, <1>2, <2>1, OutcomeTypes DEF PreviewStopped, Evts
<1>4. CASE s = "PREVIEW_READY"
  <2>1. o = PreviewReady(e, f, m, r)
    BY <1>4 DEF Handle
  <2> QED
    BY <1>1, <1>2, <2>1, OutcomeTypes DEF PreviewReady, Evts
<1>5. CASE s = "PREVIEWING"
  <2>1. o = Previewing(e, f, m, r)
    BY <1>5 DEF Handle
  <2>2. TakePicture(f, m, r) \in Outcomes
    BY <1>1, <1>2, OutcomeTypes DEF TakePicture
  <2> QED
    BY <1>1, <1>2, <2>1, <2>2, OutcomeTypes DEF Previewing, Evts
<1>6. CASE s = "PREPARE_SNAPSHOT"
  <2>1. o = PrepareSnapshot(e, f, m, r)
    BY <1>6 DEF Handle
  <2> QED
    BY <1>1, <1>2, <2>1, OutcomeTypes DEF PrepareSnapshot, Evts
<1>7. CASE s = "PIC_TAKING"
  <2>1. o = PicTaking(e, f, m, r)
    BY <1>7 DEF Handle
  <2> QED
    BY <1>1, <1>2, <2>1, OutcomeTypes DEF PicTaking, Evts
<1>8. CASE s = "RECORDING"
  <2>1. o = Recording(e, f, m, r)
    BY <1>8 DEF Handle
  <2> QED
    BY <1>1, <1>2, <2>1, OutcomeTypes DEF Recording, Evts
<1>9. CASE s = "VIDEO_PIC_TAKING"
  <2>1. o = VideoPicTaking(e, f, m, r)
    BY <1>9 DEF Handle
  <2> QED
    BY <1>1, <1>2, <2>1, OutcomeTypes DEF VideoPicTaking, Evts
<1>10. CASE s = "PREVIEW_PIC_TAKING"
  <2>1. o = PreviewPicTaking(e, f, m, r)
    BY <1>10 DEF Handle
  <2>2. f.retro \in BOOLEAN /\ r.ok \in BOOLEAN
    BY DEF Flags, Lucks
  <2>3. CASE e \in Evts
    <3>1. CASE e = "PREP_SNAPSHOT_DONE"
      BY <1>1, <1>2, <2>1, <2>2, <3>1, OutcomeTypes DEF PreviewPicTaking, Stray
    <3>2. CASE e = "READY_FOR_SNAPSHOT"
      BY <1>1, <1>2, <2>1, <2>2, <3>2, OutcomeTypes DEF PreviewPicTaking, Stray
    <3>3. CASE e = "SNAPSHOT_DONE"
      BY <1>1, <1>2, <2>1, <2>2, <3>3, OutcomeTypes DEF PreviewPicTaking, Stray
    <3> QED
      BY <2>3, <3>1, <3>2, <3>3 DEF Evts
  <2>4. CASE e \notin Evts
    <3>1. e \in Calls /\ e \notin {"PREP_SNAPSHOT_DONE", "READY_FOR_SNAPSHOT", "SNAPSHOT_DONE"}
      BY <1>1, <2>4 DEF Evts
    <3> QED
      BY <1>1, <1>2, <2>1, <3>1, OutcomeTypes DEF PreviewPicTaking
  <2> QED
    BY <2>3, <2>4
<1> QED
  BY <1>3, <1>4, <1>5, <1>6, <1>7, <1>8, <1>9, <1>10 DEF States

\* What a handler does about the picture: it takes one in a state that is none of a
\* picture and ends up in one, gives one up and leaves these states, or stays on its side,
\* but for the end of a longshot.
PictureKept(s, e, o) ==
  /\ o.work = "take" => s \notin Capturing /\ o.state \in Capturing /\ e = "TAKE_PICTURE"
  /\ o.work = "cancel" => o.state \notin Capturing /\ e # "LONGSHOT_OFF"
  /\ o.work \in {"none", "prepare"} =>
       \/ (o.state \in Capturing) <=> (s \in Capturing)
       \/ e = "LONGSHOT_OFF" /\ s \in {"PIC_TAKING", "PREVIEW_PIC_TAKING"}
            /\ o.state = "PREVIEWING"
  /\ e = "SNAPSHOT_DONE" => o.state \notin Capturing

\* The pictures.
LEMMA HandlePicture ==
  ASSUME NEW s \in States, NEW e \in Calls \cup Evts, NEW f \in Flags, NEW m \in Modes,
         NEW r \in Lucks
  PROVE  PictureKept(s, e, Handle(s, e, f, m, r))
<1> DEFINE o == Handle(s, e, f, m, r)
<1>1. CASE s = "PREVIEW_STOPPED"
  <2>1. o = PreviewStopped(e, f, m, r)
    BY <1>1 DEF Handle
  <2> QED
    BY <1>1, <2>1, OutcomeIs DEF PreviewStopped, PictureKept, Capturing, Evts, Stray
<1>2. CASE s = "PREVIEW_READY"
  <2>1. o = PreviewReady(e, f, m, r)
    BY <1>2 DEF Handle
  <2> QED
    BY <1>2, <2>1, OutcomeIs DEF PreviewReady, PictureKept, Capturing, Evts, Stray
<1>3. CASE s = "PREVIEWING"
  <2>1. o = Previewing(e, f, m, r)
    BY <1>3 DEF Handle
  <2> QED
    BY <1>3, <2>1, OutcomeIs DEF Previewing, PictureKept, Capturing, Evts, Stray, TakePicture
<1>4. CASE s = "PREPARE_SNAPSHOT"
  <2>1. o = PrepareSnapshot(e, f, m, r)
    BY <1>4 DEF Handle
  <2> QED
    BY <1>4, <2>1, OutcomeIs DEF PrepareSnapshot, PictureKept, Capturing, Evts, Stray
<1>5. CASE s = "PIC_TAKING"
  <2>1. o = PicTaking(e, f, m, r)
    BY <1>5 DEF Handle
  <2> QED
    BY <1>5, <2>1, OutcomeIs DEF PicTaking, PictureKept, Capturing, Evts, Stray
<1>6. CASE s = "RECORDING"
  <2>1. o = Recording(e, f, m, r)
    BY <1>6 DEF Handle
  <2> QED
    BY <1>6, <2>1, OutcomeIs DEF Recording, PictureKept, Capturing, Evts, Stray
<1>7. CASE s = "VIDEO_PIC_TAKING"
  <2>1. o = VideoPicTaking(e, f, m, r)
    BY <1>7 DEF Handle
  <2> QED
    BY <1>7, <2>1, OutcomeIs DEF VideoPicTaking, PictureKept, Capturing, Evts, Stray
<1>8. CASE s = "PREVIEW_PIC_TAKING"
  <2>1. o = PreviewPicTaking(e, f, m, r)
    BY <1>8 DEF Handle
  <2> QED
    BY <1>8, <2>1, OutcomeIs DEF PreviewPicTaking, PictureKept, Capturing, Evts, Stray
<1> QED
  BY <1>1, <1>2, <1>3, <1>4, <1>5, <1>6, <1>7, <1>8 DEF States

\* What a handler answers, and when it leaves that to PREP_SNAPSHOT_DONE.
AnswerKept(s, e, o) ==
  LET same == o.work # "prepare" /\ ((o.state = "PREPARE_SNAPSHOT") <=> (s = "PREPARE_SNAPSHOT")) IN
  /\ e \in Answered =>
       \/ o.answers = <<Api(e)>> /\ same
       \/ /\ e = "PREPARE_SNAPSHOT" /\ o.answers = << >> /\ o.work = "prepare"
          /\ s # "PREPARE_SNAPSHOT" /\ o.state = "PREPARE_SNAPSHOT"
  /\ e = "STOP_CAPTURE_CHANNEL" => o.answers \in {<< >>, <<Api(e)>>} /\ same
  /\ e \in Evts =>
       IF e = "PREP_SNAPSHOT_DONE" /\ s = "PREPARE_SNAPSHOT"
       THEN o.answers = <<Api("PREPARE_SNAPSHOT")>> /\ o.state = "PREVIEWING" /\ o.work = "none"
       ELSE o.answers = << >> /\ same

\* The answers, outside of a retro picture.
LEMMA HandleAnswers ==
  ASSUME NEW s \in States, NEW e \in Calls \cup Evts, NEW f \in Flags, NEW m \in Modes,
         NEW r \in Lucks, ~f.retro
  PROVE  AnswerKept(s, e, Handle(s, e, f, m, r))
<1> DEFINE o == Handle(s, e, f, m, r)
<1>1. CASE s = "PREVIEW_STOPPED"
  <2>1. o = PreviewStopped(e, f, m, r)
    BY <1>1 DEF Handle
  <2> QED
    BY <1>1, <2>1, OutcomeIs DEF PreviewStopped, AnswerKept, Answered, Calls, Evts, Stray
<1>2. CASE s = "PREVIEW_READY"
  <2>1. o = PreviewReady(e, f, m, r)
    BY <1>2 DEF Handle
  <2> QED
    BY <1>2, <2>1, OutcomeIs DEF PreviewReady, AnswerKept, Answered, Calls, Evts, Stray
<1>3. CASE s = "PREVIEWING"
  <2>1. o = Previewing(e, f, m, r)
    BY <1>3 DEF Handle
  <2> QED
    BY <1>3, <2>1, OutcomeIs DEF Previewing, AnswerKept, Answered, Calls, Evts, Stray, TakePicture
<1>4. CASE s = "PREPARE_SNAPSHOT"
  <2>1. o = PrepareSnapshot(e, f, m, r)
    BY <1>4 DEF Handle
  <2> QED
    BY <1>4, <2>1, OutcomeIs DEF PrepareSnapshot, AnswerKept, Answered, Calls, Evts, Stray
<1>5. CASE s = "PIC_TAKING"
  <2>1. o = PicTaking(e, f, m, r)
    BY <1>5 DEF Handle
  <2>2. CASE e \in Evts
    BY <1>5, <2>1, <2>2, OutcomeIs DEF PicTaking, AnswerKept, Answered, Calls, Evts
  <2>3. CASE e \in Stray
    <3>1. CASE e = "SEND_COMMAND_RESTART"
      BY <2>3, <3>1 DEF AnswerKept, Answered, Evts
    <3>2. CASE e = "STOP_CAPTURE_CHANNEL"
      <4>1. o = Answer("PIC_TAKING", e)
        BY <2>1, <3>2 DEF PicTaking
      <4>2. /\ o.answers = <<Api(e)>> /\ o.work # "prepare" /\ o.state # "PREPARE_SNAPSHOT"
            /\ s # "PREPARE_SNAPSHOT" /\ e \notin Answered /\ e \notin Evts
        BY <1>5, <2>3, <3>2, <4>1, OutcomeIs DEF Answered, Evts
      <4>3. AnswerKept(s, e, o)
        <5> HIDE DEF o
        <5> QED
          BY <4>2 DEF AnswerKept
      <4> QED
        BY <4>3
    <3> QED
      BY <2>3, <3>1, <3>2 DEF Stray
  <2>4. CASE e \notin Evts /\ e \notin Stray
    <3>1. o.answers = <<Api(e)>> /\ o.work # "prepare" /\ o.state # "PREPARE_SNAPSHOT"
      BY <1>5, <2>1, <2>4, OutcomeIs DEF PicTaking, Evts, Stray
    <3>2. s # "PREPARE_SNAPSHOT" /\ e # "STOP_CAPTURE_CHANNEL"
      BY <1>5, <2>4 DEF Stray
    <3> QED
      BY <2>4, <3>1, <3>2 DEF AnswerKept
  <2> QED
    BY <2>2, <2>3, <2>4
<1>6. CASE s = "RECORDING"
  <2>1. o = Recording(e, f, m, r)
    BY <1>6 DEF Handle
  <2> QED
    BY <1>6, <2>1, OutcomeIs DEF Recording, AnswerKept, Answered, Calls, Evts, Stray
<1>7. CASE s = "VIDEO_PIC_TAKING"
  <2>1. o = VideoPicTaking(e, f, m, r)
    BY <1>7 DEF Handle
  <2> QED
    BY <1>7, <2>1, OutcomeIs DEF VideoPicTaking, AnswerKept, Answered, Calls, Evts, Stray
<1>8. CASE s = "PREVIEW_PIC_TAKING"
  <2>1. o = PreviewPicTaking(e, f, m, r)
    BY <1>8 DEF Handle
  <2> QED
    BY <1>8, <2>1, OutcomeIs DEF PreviewPicTaking, AnswerKept, Answered, Calls, Evts, Stray
<1> QED
  BY <1>1, <1>2, <1>3, <1>4, <1>5, <1>6, <1>7, <1>8 DEF States

-----------------------------------------------------------------------------
(* Counting the places of a sequence.                                      *)

Places(s, V) == {i \in 1 .. Len(s) : s[i] \in V}

One(c) == IF c THEN 1 ELSE 0

\* The places are finitely many.
LEMMA PlacesFinite ==
  ASSUME NEW S, NEW s \in Seq(S), NEW V
  PROVE  IsFiniteSet(Places(s, V)) /\ Cardinality(Places(s, V)) \in Nat
<1>1. Places(s, V) \in SUBSET (1 .. Len(s)) /\ Len(s) \in Nat
  BY DEF Places
<1>2. IsFiniteSet(1 .. Len(s))
  BY <1>1, FS_Interval
<1> QED
  BY <1>1, <1>2, FS_Subset, FS_CardinalityType

\* One item more at the end.
LEMMA AppendCount ==
  ASSUME NEW S, NEW s \in Seq(S), NEW x \in S, NEW V
  PROVE  Cardinality(Places(Append(s, x), V)) = Cardinality(Places(s, V)) + One(x \in V)
<1> DEFINE n == Len(s) + 1
           P == Places(s, V)
           Q == Places(Append(s, x), V)
<1>1. IsFiniteSet(P) /\ Cardinality(P) \in Nat
  BY PlacesFinite
<1>2. n \notin P /\ Q = IF x \in V THEN P \cup {n} ELSE P
  BY DEF Places
<1> HIDE DEF P, Q, n
<1>3. x \in V => Cardinality(P \cup {n}) = Cardinality(P) + 1
  BY <1>1, <1>2, FS_AddElement
<1>4. Cardinality(Q) = Cardinality(P) + One(x \in V)
  BY <1>1, <1>2, <1>3 DEF One
<1> QED
  BY <1>4 DEF P, Q

\* One item less.
LEMMA DropCount ==
  ASSUME NEW S, NEW s \in Seq(S), NEW i \in 1 .. Len(s), NEW u \in Seq(S), NEW V,
         Len(u) = Len(s) - 1,
         \A k \in 1 .. Len(s) - 1 : u[k] = IF k < i THEN s[k] ELSE s[k + 1]
  PROVE  Cardinality(Places(s, V)) = Cardinality(Places(u, V)) + One(s[i] \in V)
<1> DEFINE P == Places(s, V)
           Q == Places(u, V)
           up == [k \in Q |-> IF k < i THEN k ELSE k + 1]
<1>1. IsFiniteSet(P) /\ Cardinality(P) \in Nat /\ IsFiniteSet(Q) /\ Cardinality(Q) \in Nat
  BY PlacesFinite
<1>2. \A k \in Q : up[k] \in P \ {i}
  <2>1. SUFFICES ASSUME NEW k \in Q PROVE (IF k < i THEN k ELSE k + 1) \in P \ {i}
    OBVIOUS
  <2>2. k \in 1 .. Len(s) - 1 /\ u[k] \in V
    BY DEF Places
  <2>3. CASE k < i
    BY <2>2, <2>3 DEF Places
  <2>4. CASE ~(k < i)
    <3>1. k + 1 \in 1 .. Len(s) /\ s[k + 1] \in V /\ k + 1 # i
      BY <2>2, <2>4
    <3> QED
      BY <2>4, <3>1 DEF Places
  <2> QED
    BY <2>3, <2>4
<1>3. \A j \in P \ {i} : \E k \in Q : up[k] = j
  <2>1. SUFFICES ASSUME NEW j \in P \ {i}
                 PROVE  \E k \in Q : (IF k < i THEN k ELSE k + 1) = j
    OBVIOUS
  <2>2. j \in 1 .. Len(s) /\ s[j] \in V /\ j # i
    BY DEF Places
  <2>3. CASE j < i
    <3>1. j \in 1 .. Len(s) - 1 /\ u[j] = s[j]
      BY <2>2, <2>3
    <3>2. j \in Q
      BY <2>2, <3>1 DEF Places
    <3> QED
      BY <2>3, <3>2
  <2>4. CASE j > i
    <3>1. /\ j - 1 \in 1 .. Len(s) - 1 /\ ~(j - 1 < i) /\ j - 1 + 1 = j
      BY <2>2, <2>4
    <3>2. u[j - 1] = s[j]
      BY <3>1
    <3>3. j - 1 \in Q
      BY <2>2, <3>1, <3>2 DEF Places
    <3> QED
      BY <3>1, <3>3
  <2> QED
    BY <2>2, <2>3, <2>4
<1>4. \A j, k \in Q : up[j] = up[k] => j = k
  <2>1. Q \subseteq Int
    BY DEF Places
  <2> QED
    BY <2>1
<1>5. ExistsBijection(Q, P \ {i})
  <2>1. up \in [Q -> P \ {i}]
    BY <1>2
  <2> DEFINE T == P \ {i}
  <2> HIDE DEF up, P, Q
  <2>3. \A j \in T : \E k \in Q : up[k] = j
    BY <1>3
  <2> HIDE DEF T
  <2>4. up \in Injection(Q, T)
    BY <1>4, <2>1 DEF Injection, IsInjective, T
  <2>5. up \in Surjection(Q, T)
    BY <2>1, <2>3 DEF Surjection, T
  <2>2. up \in Bijection(Q, P \ {i})
    BY <2>4, <2>5 DEF Bijection, T
  <2> QED
    BY <2>2 DEF ExistsBijection
<1>6. i \in P <=> s[i] \in V
  BY DEF Places
<1> HIDE DEF P, Q
<1>7. Cardinality(P \ {i}) = Cardinality(Q)
  BY <1>1, <1>5, FS_Bijection
<1>8. Cardinality(P \ {i}) = IF i \in P THEN Cardinality(P) - 1 ELSE Cardinality(P)
  BY <1>1, FS_RemoveElement
<1>9. Cardinality(P) = Cardinality(Q) + One(s[i] \in V)
  BY <1>1, <1>6, <1>7, <1>8 DEF One
<1> QED
  BY <1>9 DEF P, Q

\* The head goes.
LEMMA TailCount ==
  ASSUME NEW S, NEW s \in Seq(S), s # << >>, NEW V
  PROVE  Cardinality(Places(s, V)) = Cardinality(Places(Tail(s), V)) + One(Head(s) \in V)
<1>1. PICK u, x : u = Tail(s) /\ x = Head(s)
  OBVIOUS
<1>2. /\ u \in Seq(S) /\ Len(u) = Len(s) - 1 /\ 1 \in 1 .. Len(s) /\ s[1] = x
      /\ \A k \in 1 .. Len(s) - 1 : u[k] = IF k < 1 THEN s[k] ELSE s[k + 1]
  BY <1>1
<1>3. Cardinality(Places(s, V)) = Cardinality(Places(u, V)) + One(s[1] \in V)
  BY ONLY s \in Seq(S), <1>2, DropCount
<1> QED
  BY <1>1, <1>2, <1>3

\* The sequence without its place i.
LEMMA DropPlace ==
  ASSUME NEW S, NEW s \in Seq(S), NEW i \in 1 .. Len(s), NEW u,
         u = SubSeq(s, 1, i - 1) \o SubSeq(s, i + 1, Len(s))
  PROVE  /\ u \in Seq(S) /\ Len(u) = Len(s) - 1
         /\ \A k \in 1 .. Len(s) - 1 : u[k] = IF k < i THEN s[k] ELSE s[k + 1]
<1> DEFINE a == SubSeq(s, 1, i - 1)
           b == SubSeq(s, i + 1, Len(s))
<1>1. /\ a \in Seq(S) /\ Len(a) = i - 1 /\ \A k \in 1 .. i - 1 : a[k] = s[k]
  OBVIOUS
<1>2. /\ b \in Seq(S) /\ Len(b) = Len(s) - i /\ \A k \in 1 .. Len(s) - i : b[k] = s[k + i]
  OBVIOUS
<1>3. u = a \o b
  OBVIOUS
<1> HIDE DEF a, b
<1>0. Len(s) \in Nat /\ i \in 1 .. Len(s)
  OBVIOUS
<1>4. u \in Seq(S) /\ Len(u) = Len(s) - 1
  BY ONLY <1>0, <1>1, <1>2, <1>3
<1>5. ASSUME NEW k \in 1 .. Len(s) - 1 PROVE u[k] = IF k < i THEN s[k] ELSE s[k + 1]
  <2>1. CASE k < i
    <3>1. k \in 1 .. Len(a)
      BY ONLY <1>0, <1>1, <2>1, k \in 1 .. Len(s) - 1
    <3>2. u[k] = a[k]
      BY ONLY <1>1, <1>2, <1>3, <3>1
    <3> QED
      BY <1>1, <2>1, <3>1, <3>2
  <2>2. CASE ~(k < i)
    <3>1. /\ k - (i - 1) \in 1 .. Len(s) - i /\ k - (i - 1) + i = k + 1
          /\ k \in Len(a) + 1 .. Len(a) + Len(b) /\ k - Len(a) = k - (i - 1)
      BY ONLY <1>0, <1>1, <1>2, <2>2, k \in 1 .. Len(s) - 1
    <3>2. u[k] = b[k - Len(a)]
      BY ONLY <1>1, <1>2, <1>3, <3>1
    <3> QED
      BY <1>2, <2>2, <3>1, <3>2
  <2> QED
    BY <2>1, <2>2
<1> QED
  BY <1>4, <1>5

\* A set of numbers that is not empty has a least one.
LEMMA LeastOfNat ==
  ASSUME NEW S, S \subseteq Nat, S # {}
  PROVE  \E x \in S : \A y \in S : x <= y
<1> DEFINE R == {ss \in Nat \X Nat : ss[1] < ss[2]}
<1>1. IsWellFoundedOn(R, Nat)
  <2>1. OpToRel(<, Nat) = R
    BY DEF OpToRel
  <2> QED
    BY <2>1, NatLessThanWellFounded
<1> HIDE DEF R
<1>2. PICK x \in S : \A y \in S : <<y, x>> \notin R
  BY <1>1, WFMin
<1>3. ASSUME NEW y \in S PROVE x <= y
  <2>1. x \in Nat /\ y \in Nat /\ <<y, x>> \notin R
    BY <1>2
  <2> QED
    BY <2>1 DEF R
<1> QED
  BY <1>3

\* The first of some places exists.
LEMMA FirstIs ==
  ASSUME NEW S, NEW s \in Seq(S), NEW x, NEW hits,
         hits = {i \in DOMAIN s : s[i] = x}, hits # {}
  PROVE  (CHOOSE i \in hits : \A k \in hits : i <= k) \in hits
         /\ hits \subseteq 1 .. Len(s)
<1>1. hits \subseteq 1 .. Len(s) /\ hits \subseteq Nat
  OBVIOUS
<1> QED
  BY <1>1, LeastOfNat

-----------------------------------------------------------------------------
(* The types.                                                              *)

\* What the settings are.
LEMMA WorldIs ==
  ASSUME NEW w \in Worlds
  PROVE  /\ w.modes \in Modes /\ {w.retro, w.flash} \subseteq BOOLEAN
         /\ w.maxPictures \in 0 .. MaxPictures /\ MaxPictures \in Nat /\ w.maxOps \in Nat
         /\ \A t \in Apps : w.ops[t] \subseteq Seq(Calls)
BY AppsAssumption

\* What the work of a handler does to the camera.
LEMMA WorkIs ==
  ASSUME TypeOK, NEW w \in Works, w = "take" => pictures < world.maxPictures, Work(w)
  PROVE  /\ pictures' \in 0 .. world.maxPictures /\ cam' \in Camera
         /\ ncmds' \in Seq(0 .. MaxPictures)
         /\ cam'.alive = cam.alive
         /\ cam'.prep = IF w = "prepare" THEN TRUE ELSE cam.prep
         /\ w = "take" => cam'.retro = flags.retro
         /\ w = "cancel" => ~cam'.retro
         /\ w \in {"none", "prepare"} => cam'.retro = cam.retro
         /\ w = "take" => cam'.pic # 0
         /\ w = "cancel" => cam'.pic = 0
         /\ w \in {"none", "prepare"} => cam'.pic = cam.pic
<1>1. /\ pictures \in 0 .. world.maxPictures /\ cam \in Camera /\ ncmds \in Seq(0 .. MaxPictures)
      /\ world.maxPictures \in 0 .. MaxPictures /\ MaxPictures \in Nat
      /\ flags.retro \in BOOLEAN /\ world.flash \in BOOLEAN
  BY WorldIs DEF TypeOK
<1>2. CASE w = "take"
  <2>1. PICK c, l : c = (~world.modes.zsl /\ m_state # "RECORDING") /\ c \in BOOLEAN
                    /\ l = (flags.retro /\ world.flash) /\ l \in BOOLEAN
    OBVIOUS
  <2>2. /\ pictures' = pictures + 1 /\ ncmds' = <<pictures + 1>> \o ncmds
        /\ cam' = [cam EXCEPT !.pic = pictures + 1, !.retro = flags.retro, !.led = l,
                              !.channel = c]
    BY <1>2, <2>1 DEF Work
  <2>3. pictures + 1 \in 0 .. world.maxPictures /\ pictures + 1 \in 0 .. MaxPictures
        /\ pictures + 1 # 0
    BY <1>1, <1>2
  <2>4. ncmds' \in Seq(0 .. MaxPictures)
    BY <1>1, <2>2, <2>3
  <2>5. cam' \in Camera
    BY <1>1, <2>1, <2>2, <2>3 DEF Camera
  <2> QED
    BY <1>1, <1>2, <2>2, <2>3, <2>4, <2>5 DEF Camera
<1>3. CASE w = "cancel"
  <2>1. /\ pictures' = pictures /\ ncmds' = <<0>> \o ncmds
        /\ cam' = [cam EXCEPT !.pic = 0, !.retro = FALSE, !.led = FALSE, !.channel = FALSE]
    BY <1>3 DEF Work
  <2>2. ncmds' \in Seq(0 .. MaxPictures)
    BY <1>1, <2>1
  <2>3. 0 \in 0 .. MaxPictures
    BY <1>1
  <2>4. cam' \in Camera
    BY <1>1, <2>1, <2>3 DEF Camera
  <2>5. cam'.alive = cam.alive /\ cam'.prep = cam.prep /\ ~cam'.retro /\ cam'.pic = 0
    BY <1>1, <2>1 DEF Camera
  <2> QED
    BY <1>1, <1>3, <2>1, <2>2, <2>4, <2>5
<1>4. CASE w = "prepare"
  <2>1. /\ pictures' = pictures /\ ncmds' = ncmds /\ cam' = [cam EXCEPT !.prep = TRUE]
    BY <1>4 DEF Work
  <2> QED
    BY <1>1, <1>4, <2>1 DEF Camera
<1>5. CASE w = "none"
  <2>1. pictures' = pictures /\ ncmds' = ncmds /\ cam' = cam
    BY <1>5 DEF Work
  <2> QED
    BY <1>1, <1>5, <2>1
<1> QED
  BY <1>2, <1>3, <1>4, <1>5 DEF Works

\* A handler runs: what it changes keeps its type.
LEMMA HandledType ==
  ASSUME TypeOK, NEW e \in Calls \cup Evts, NEW o \in Outcomes, Handled(e, o),
         UNCHANGED <<waits, world>>
  PROVE  /\ m_state' \in States /\ flags' \in Flags /\ results' \in Seq(Apis)
         /\ woken' \subseteq {t \in Apps : waits'[t] # None}
         /\ pictures' \in 0 .. world'.maxPictures /\ cam' \in Camera
         /\ ncmds' \in Seq(0 .. MaxPictures)
<1>1. /\ o.state \in States /\ o.answers \in Seq(Apis) /\ o.work \in Works
  BY DEF Outcomes
<1>2. m_state' \in States /\ results' \in Seq(Apis)
  BY <1>1 DEF Handled, TypeOK
<1>3. woken' \subseteq {t \in Apps : waits'[t] # None}
  BY DEF Handled, TypeOK
<1>4. flags' \in Flags
  <2>1. flags \in Flags
    BY DEF TypeOK, Flags
  <2>2. PICK l, w : /\ l = ((flags.longshot \/ LongshotOn(e)) /\ ~LongshotOff(e)) /\ l \in BOOLEAN
                    /\ w = ((flags.window \/ e = "SET_WINDOW") /\ e # "CLEAR_WINDOW")
                    /\ w \in BOOLEAN
    OBVIOUS
  <2>3. flags' = [flags EXCEPT !.longshot = l,
                               !.window = IF m_state \in {"PREVIEW_STOPPED", "PREVIEW_READY"}
                                          THEN w ELSE flags.window]
    BY <2>2 DEF Handled, FlagsAfter
  <2> QED
    BY <2>1, <2>2, <2>3 DEF Flags
<1>5. PICK w \in Works : Work(w) /\ (w = "take" => pictures < world.maxPictures)
  <2>1. "cancel" \in Works
    BY DEF Works
  <2> QED
    BY <1>1, <2>1 DEF Handled
<1> QED
  BY <1>2, <1>3, <1>4, <1>5, WorkIs

\* What the state machine thread runs.
LEMMA HandlersRun ==
  ASSUME TypeOK
  PROVE  /\ Luck \subseteq Lucks
         /\ \A e \in Calls \cup Evts : \A r \in Luck :
              Handle(m_state, e, flags, world.modes, r) \in Outcomes
         /\ api_queue # << >> => /\ Head(api_queue) # "EXIT" => Head(api_queue) \in Calls
                                 /\ Tail(api_queue) \in Seq(Calls \cup {"EXIT"})
         /\ evt_queue # << >> => Head(evt_queue) \in Evts /\ Tail(evt_queue) \in Seq(Evts)
<1>1. Luck \subseteq Lucks
  <2>1. [ok |-> FALSE, restart |-> FALSE] \in Lucks
    BY DEF Lucks
  <2> QED
    BY <2>1 DEF Luck, Lucks
<1>2. m_state \in States /\ flags \in Flags /\ world.modes \in Modes
  BY WorldIs DEF TypeOK, Flags
<1>3. \A e \in Calls \cup Evts : \A r \in Luck :
        Handle(m_state, e, flags, world.modes, r) \in Outcomes
  BY <1>1, <1>2, HandleType
<1>4. api_queue \in Seq(Calls \cup {"EXIT"}) /\ evt_queue \in Seq(Evts)
  BY DEF TypeOK
<1> QED
  BY <1>1, <1>3, <1>4

\* The types hold at first.
LEMMA TypeInit == Init => TypeOK
<1> SUFFICES ASSUME Init PROVE TypeOK
  OBVIOUS
<1>1. /\ world \in Worlds /\ world.maxPictures \in Nat /\ world.maxOps \in Nat
      /\ MaxPictures \in Nat
  BY WorldIs DEF Init
<1>2. cam \in Camera
  BY <1>1 DEF Init, Camera
<1>3. m_state \in States /\ flags \in [longshot : BOOLEAN, retro : BOOLEAN, window : BOOLEAN]
  BY DEF Init, States
<1>4. /\ todo \in [Apps -> Seq(Calls)] /\ waits \in [Apps -> Apis \cup {None}]
      /\ ops \in [Apps -> 0 .. world.maxOps] /\ pictures \in 0 .. world.maxPictures
      /\ armed \in 0 .. MaxPictures
  BY <1>1 DEF Init
<1>5. /\ api_queue \in Seq(Calls \cup {"EXIT"}) /\ evt_queue \in Seq(Evts)
      /\ results \in Seq(Apis) /\ ncmds \in Seq(0 .. MaxPictures)
      /\ woken = {} /\ smRunning \in BOOLEAN /\ notifier = "running" /\ closing = "open"
  BY DEF Init
<1> QED
  BY <1>1, <1>2, <1>3, <1>4, <1>5 DEF TypeOK

\* Every step keeps the types.
LEMMA TypeNext == TypeOK /\ [Next]_vars => TypeOK'
<1> SUFFICES ASSUME TypeOK, [Next]_vars PROVE TypeOK'
  OBVIOUS
<1>0. /\ world \in Worlds /\ \A t \in Apps : world.ops[t] \subseteq Seq(Calls)
      /\ world.maxOps \in Nat /\ MaxPictures \in Nat
      /\ world.maxPictures \in 0 .. MaxPictures
  BY WorldIs DEF TypeOK
<1>1. ASSUME NEW t \in Apps, NEW op \in world.ops[t], Begin(t, op) PROVE TypeOK'
  <2>1. op \in Seq(Calls)
    BY <1>0
  <2>2. todo' \in [Apps -> Seq(Calls)]
    BY <1>1, <2>1 DEF Begin, TypeOK
  <2>3. ops' \in [Apps -> 0 .. world.maxOps]
    <3>1. ops[t] + 1 \in 0 .. world.maxOps
      BY <1>0, <1>1 DEF Begin, TypeOK
    <3> QED
      BY <1>1, <3>1 DEF Begin, TypeOK
  <2> QED
    BY <1>1, <2>2, <2>3 DEF Begin, TypeOK, notify
<1>2. ASSUME NEW t \in Apps, Call(t) PROVE TypeOK'
  <2>1. /\ Head(todo[t]) \in Calls /\ Tail(todo[t]) \in Seq(Calls)
    BY <1>2 DEF Call, TypeOK
  <2>2. Api(Head(todo[t])) \in Apis
    BY <2>1, ApiType
  <2>3. /\ todo' \in [Apps -> Seq(Calls)] /\ waits' \in [Apps -> Apis \cup {None}]
        /\ api_queue' \in Seq(Calls \cup {"EXIT"})
    BY <1>2, <2>1, <2>2 DEF Call, TypeOK
  <2>4. woken' \subseteq {u \in Apps : waits'[u] # None}
    BY <1>2, <2>2, ApiType DEF Call, TypeOK
  <2>5. flags' \in [longshot : BOOLEAN, retro : BOOLEAN, window : BOOLEAN]
    <3>1. PICK r \in BOOLEAN : r = RetroPicture(Head(todo[t]))
      BY DEF RetroPicture, TypeOK
    <3>2. flags' = [flags EXCEPT !.retro = r]
      BY <1>2, <3>1 DEF Call
    <3> QED
      BY <3>1, <3>2 DEF TypeOK
  <2> QED
    BY <1>2, <2>3, <2>4, <2>5 DEF Call, TypeOK, notify
<1>3. ASSUME NEW t \in Apps, Return(t) PROVE TypeOK'
  <2> DEFINE hits == {i \in DOMAIN results : results[i] = waits[t]}
  <2>1. CASE hits = {}
    BY <1>3, <2>1 DEF Return, TypeOK, notify
  <2>2. CASE hits # {}
    <3>1. PICK i : /\ i = (CHOOSE j \in hits : \A k \in hits : j <= k)
                   /\ i \in 1 .. Len(results) /\ results[i] = waits[t]
      <4>1. results \in Seq(Apis)
        BY DEF TypeOK
      <4>2. PICK x, h : x = waits[t] /\ h = hits
        OBVIOUS
      <4>3. /\ (CHOOSE i \in h : \A k \in h : i <= k) \in h
            /\ h \subseteq 1 .. Len(results)
        BY ONLY <4>1, <4>2, <2>2, FirstIs
      <4> QED
        BY <4>2, <4>3
    <3>2. results' = SubSeq(results, 1, i - 1) \o SubSeq(results, i + 1, Len(results))
      BY <1>3, <2>2, <3>1 DEF Return
    <3>3. results' \in Seq(Apis)
      BY <3>1, <3>2, DropPlace DEF TypeOK
    <3>4. waits' = [waits EXCEPT ![t] = None] /\ woken' = woken \ {t}
      BY <1>3, <2>2 DEF Return
    <3> QED
      BY <1>3, <3>3, <3>4 DEF Return, TypeOK, notify
  <2> QED
    BY <2>1, <2>2
<1>4. CASE SmCall
  <2>1. PICK r \in Luck :
          Handled(Head(api_queue), Handle(m_state, Head(api_queue), flags, world.modes, r))
    BY <1>4 DEF SmCall
  <2>2. PICK e \in Calls : e = Head(api_queue)
    BY <1>4, HandlersRun DEF SmCall
  <2>3. PICK o \in Outcomes : Handled(e, o)
    BY <2>1, <2>2, HandlersRun
  <2>4. /\ api_queue' \in Seq(Calls \cup {"EXIT"})
    BY <1>4, HandlersRun DEF SmCall
  <2>5. evt_queue' \in Seq(Evts)
    <3>1. "SNAPSHOT_DONE" \in Evts
      BY DEF Evts
    <3> QED
      BY <1>4, <2>2, <3>1 DEF SmCall, TypeOK
  <2>6. UNCHANGED <<waits, world>> /\ e \in Calls \cup Evts
    BY <1>4 DEF SmCall
  <2>7. /\ m_state' \in States /\ flags' \in Flags /\ results' \in Seq(Apis)
        /\ woken' \subseteq {t \in Apps : waits'[t] # None}
        /\ pictures' \in 0 .. world'.maxPictures /\ cam' \in Camera
        /\ ncmds' \in Seq(0 .. MaxPictures)
    BY <2>3, <2>6, HandledType
  <2> QED
    BY <1>4, <2>4, <2>5, <2>7 DEF SmCall, TypeOK, Flags
<1>5. CASE SmEvt
  <2>1. PICK r \in Luck :
          Handled(Head(evt_queue), Handle(m_state, Head(evt_queue), flags, world.modes, r))
    BY <1>5 DEF SmEvt
  <2>2. PICK e \in Evts : e = Head(evt_queue)
    BY <1>5, HandlersRun DEF SmEvt
  <2>3. PICK o \in Outcomes : Handled(e, o)
    BY <2>1, <2>2, HandlersRun
  <2>4. evt_queue' \in Seq(Evts) /\ notifier' \in {"running", "sync", "exited"}
    BY <1>5, HandlersRun DEF SmEvt, TypeOK
  <2>6. UNCHANGED <<waits, world>> /\ e \in Calls \cup Evts
    BY <1>5 DEF SmEvt
  <2>7. /\ m_state' \in States /\ flags' \in Flags /\ results' \in Seq(Apis)
        /\ woken' \subseteq {t \in Apps : waits'[t] # None}
        /\ pictures' \in 0 .. world'.maxPictures /\ cam' \in Camera
        /\ ncmds' \in Seq(0 .. MaxPictures)
    BY <2>3, <2>6, HandledType
  <2> QED
    BY <1>5, <2>4, <2>7 DEF SmEvt, TypeOK, Flags
<1>6. CASE SmExit
  BY <1>6, HandlersRun DEF SmExit, TypeOK, callers, notify
<1>7. ASSUME MetaPrep \/ FrameReady \/ StopCapture \/ DaemonDies PROVE TypeOK'
  <2>1. evt_queue' \in Seq(Evts) /\ api_queue' \in Seq(Calls \cup {"EXIT"})
    <3>1. {"PREP_SNAPSHOT_DONE", "READY_FOR_SNAPSHOT"} \subseteq Evts
          /\ "STOP_CAPTURE_CHANNEL" \in Calls
      BY DEF Evts, Calls
    <3>2. evt_queue \in Seq(Evts) /\ api_queue \in Seq(Calls \cup {"EXIT"})
      BY DEF TypeOK
    <3>3. \/ /\ \E e \in Evts : evt_queue' = Append(evt_queue, e)
             /\ api_queue' = api_queue
          \/ \E e \in Calls : api_queue' = Append(api_queue, e) /\ evt_queue' = evt_queue
          \/ api_queue' = api_queue /\ evt_queue' = evt_queue
      BY <1>7, <3>1 DEF MetaPrep, FrameReady, StopCapture, DaemonDies, Event
    <3>4. \A e \in Evts : Append(evt_queue, e) \in Seq(Evts)
      BY ONLY <3>2
    <3>5. \A e \in Calls : Append(api_queue, e) \in Seq(Calls \cup {"EXIT"})
      BY ONLY <3>2
    <3> QED
      BY ONLY <3>2, <3>3, <3>4, <3>5
  <2>2. cam' \in Camera
    BY <1>7 DEF MetaPrep, FrameReady, StopCapture, DaemonDies, Camera, TypeOK
  <2>3. /\ UNCHANGED <<m_state, flags, smRunning, results, todo, waits, woken, ops, pictures>>
        /\ UNCHANGED <<ncmds, closing, world, notifier, armed>>
    BY <1>7 DEF MetaPrep, FrameReady, StopCapture, DaemonDies, UnchangedByCamera, callers
  <2> QED
    BY <2>1, <2>2, <2>3 DEF TypeOK
<1>8. CASE NotifierCmd
  <2>1. ncmds' \in Seq(0 .. MaxPictures) /\ armed' \in 0 .. MaxPictures
    <3>1. PICK D : D = 0 .. MaxPictures
      OBVIOUS
    <3>2. ncmds \in Seq(D) /\ ncmds # << >> /\ ncmds' = Tail(ncmds) /\ armed' = Head(ncmds)
      BY <1>8, <3>1 DEF NotifierCmd, TypeOK
    <3>3. ncmds' \in Seq(D) /\ armed' \in D
      BY ONLY <3>2
    <3> QED
      BY ONLY <3>1, <3>3
  <2> QED
    BY <1>8, <2>1 DEF NotifierCmd, TypeOK, callers
<1>9. CASE NotifierAll
  <2>1. "SNAPSHOT_DONE" \in Evts
    BY DEF Evts
  <2> QED
    BY <1>0, <1>9, <2>1 DEF NotifierAll, UnchangedByCamera, Event, TypeOK, callers
<1>10. CASE NotifierExit
  BY <1>0, <1>10 DEF NotifierExit, TypeOK, callers
<1>11. CASE Close
  BY <1>11 DEF Close, TypeOK, callers, notify
<1>12. CASE ExitNotifier
  BY <1>12 DEF ExitNotifier, TypeOK, callers, notify
<1>13. CASE CloseReturn
  <2>1. 0 \in 0 .. MaxPictures /\ << >> \in Seq(Apis)
    BY <1>0
  <2>2. cam' \in Camera
    BY <1>13, <2>1 DEF CloseReturn, Camera, TypeOK
  <2> QED
    BY <1>13, <2>1, <2>2 DEF CloseReturn, TypeOK, callers, notify
<1>14. CASE UNCHANGED vars
  BY <1>14 DEF vars, TypeOK, callers, notify
<1> QED
  BY <1>1, <1>2, <1>3, <1>4, <1>5, <1>6, <1>7, <1>8, <1>9, <1>10, <1>11, <1>12, <1>13, <1>14
  DEF Next, StateMachineThread, Hardware, NotifierThread

\* Every variable keeps its type, for any worlds and callers: no result but those of the
\* calls is signalled, the bounds hold, and only callers that wait are woken.
THEOREM TypesHold == Spec => []TypeOK
BY TypeInit, TypeNext, PTL DEF Spec

-----------------------------------------------------------------------------
(* The picture.                                                            *)

\* A handler runs: the outcome, and the work that is done.
LEMMA HandlerStep ==
  ASSUME TypeOK, NEW e \in Calls \cup Evts, NEW r \in Luck,
         Handled(e, Handle(m_state, e, flags, world.modes, r))
  PROVE  \E o \in Outcomes : \E w \in Works :
           /\ Handled(e, o) /\ PictureKept(m_state, e, o)
           /\ ~flags.retro => AnswerKept(m_state, e, o)
           /\ w = IF EndsLongshot(e) THEN "cancel" ELSE o.work
           /\ Work(w) /\ (w = "take" => pictures < world.maxPictures)
<1>1. m_state \in States /\ flags \in Flags /\ world.modes \in Modes /\ r \in Lucks
  BY WorldIs, HandlersRun DEF TypeOK, Flags
<1>2. PICK o : o = Handle(m_state, e, flags, world.modes, r)
  OBVIOUS
<1>3. /\ o \in Outcomes /\ PictureKept(m_state, e, o)
      /\ ~flags.retro => AnswerKept(m_state, e, o)
  BY <1>1, <1>2, HandleType, HandlePicture, HandleAnswers
<1>4. PICK w : w = IF EndsLongshot(e) THEN "cancel" ELSE o.work
  OBVIOUS
<1>5. w \in Works
  BY <1>3, <1>4 DEF Works, Outcomes
<1>6. Work(w) /\ (w = "take" => pictures < world.maxPictures)
  BY <1>2, <1>4 DEF Handled
<1> QED
  BY <1>2, <1>3, <1>4, <1>5, <1>6

\* Longshot is switched off during a picture of the preview only if it is on: without it
\* the state returns to PREVIEWING and the camera keeps the picture
\* (QCameraStateMachine.cpp:2108, 3347).
OffEndsLongshot ==
  SmCall /\ Head(api_queue) = "LONGSHOT_OFF" /\ m_state \in {"PIC_TAKING", "PREVIEW_PIC_TAKING"}
    => flags.longshot

\* Where neither the state nor the picture changes.
LEMMA SamePicture ==
  ASSUME CaptureState, m_state' = m_state,
         closing' # "closed" => closing # "closed" /\ cam'.pic = cam.pic,
         Queued("SNAPSHOT_DONE") => Queued("SNAPSHOT_DONE")'
  PROVE  CaptureState'
BY DEF CaptureState

\* The event queue gets longer, or loses its head.
LEMMA QueuedKept ==
  ASSUME evt_queue \in Seq(Evts), NEW e \in Evts, Queued(e)
  PROVE  /\ \A x \in Evts : evt_queue' = Append(evt_queue, x) => Queued(e)'
         /\ evt_queue' = Tail(evt_queue) /\ Head(evt_queue) # e => Queued(e)'
<1>1. PICK i \in 1 .. Len(evt_queue) : evt_queue[i] = e
  BY DEF Queued
<1>2. ASSUME NEW x \in Evts, evt_queue' = Append(evt_queue, x) PROVE Queued(e)'
  <2>1. i \in DOMAIN evt_queue' /\ evt_queue'[i] = e
    BY <1>1, <1>2
  <2> QED
    BY <2>1 DEF Queued
<1>3. ASSUME evt_queue' = Tail(evt_queue), Head(evt_queue) # e PROVE Queued(e)'
  <2>1. i # 1 /\ evt_queue # << >>
    BY <1>1, <1>3
  <2>2. /\ i - 1 \in 1 .. Len(evt_queue) - 1 /\ Len(evt_queue') = Len(evt_queue) - 1
        /\ evt_queue'[i - 1] = evt_queue[i] /\ evt_queue' \in Seq(Evts)
    BY <1>1, <1>3, <2>1
  <2>3. i - 1 \in DOMAIN evt_queue'
    BY <2>2
  <2> QED
    BY <1>1, <2>2, <2>3 DEF Queued
<1> QED
  BY <1>2, <1>3

\* What appends to the event queue leaves it the events it has.
LEMMA EventQueues ==
  ASSUME evt_queue \in Seq(Evts), NEW e \in Evts, evt_queue' = Append(evt_queue, e)
  PROVE  Queued(e)'
<1>1. Len(evt_queue) + 1 \in DOMAIN evt_queue' /\ evt_queue'[Len(evt_queue) + 1] = e
  OBVIOUS
<1> QED
  BY <1>1 DEF Queued

\* No picture is taken at first.
LEMMA CaptureInit == Init => CaptureState
BY DEF Init, CaptureState, Capturing

\* A call.
LEMMA CaptureCall ==
  ASSUME TypeOK, CaptureState, SmCall, OffEndsLongshot
  PROVE  CaptureState'
<1>1. PICK e \in Calls : /\ e = Head(api_queue) /\ e \in Calls \cup Evts
                         /\ \E r \in Luck : Handled(e, Handle(m_state, e, flags, world.modes, r))
  BY HandlersRun DEF SmCall
<1>2. PICK o \in Outcomes, w \in Works :
        /\ Handled(e, o) /\ PictureKept(m_state, e, o)
        /\ w = IF EndsLongshot(e) THEN "cancel" ELSE o.work
        /\ Work(w) /\ (w = "take" => pictures < world.maxPictures)
  BY <1>1, HandlerStep
<1>3. /\ cam'.alive = cam.alive /\ closing' = closing /\ m_state' = o.state
      /\ w = "take" => cam'.pic # 0
      /\ w = "cancel" => cam'.pic = 0
      /\ w \in {"none", "prepare"} => cam'.pic = cam.pic
  BY <1>2, WorkIs DEF SmCall, Handled
<1>4. CASE EndsLongshot(e)
  <2>1. cam'.pic = 0
    BY <1>2, <1>3, <1>4
  <2>2. Queued("SNAPSHOT_DONE")'
    <3>1. evt_queue' = Append(evt_queue, "SNAPSHOT_DONE") /\ "SNAPSHOT_DONE" \in Evts
      BY <1>1, <1>4 DEF SmCall, Evts
    <3>2. evt_queue \in Seq(Evts)
      BY DEF TypeOK
    <3> QED
      BY <3>1, <3>2, EventQueues
  <2> QED
    BY <2>1, <2>2 DEF CaptureState
<1>5. CASE ~EndsLongshot(e)
  <2>1. w = o.work /\ evt_queue' = evt_queue
    BY <1>1, <1>2, <1>5 DEF SmCall
  <2>2. Queued("SNAPSHOT_DONE")' <=> Queued("SNAPSHOT_DONE")
    BY <2>1 DEF Queued
  <2>3. ~(e = "LONGSHOT_OFF" /\ m_state \in {"PIC_TAKING", "PREVIEW_PIC_TAKING"})
    BY <1>1, <1>5 DEF OffEndsLongshot, EndsLongshot, LongshotOff, Capturing
  <2> QED
    BY <1>2, <1>3, <2>1, <2>2, <2>3 DEF CaptureState, PictureKept, Works
<1> QED
  BY <1>4, <1>5

\* An event.
LEMMA CaptureEvt ==
  ASSUME TypeOK, CaptureState, SmEvt
  PROVE  CaptureState'
<1>1. PICK e \in Evts : /\ e = Head(evt_queue) /\ e \in Calls \cup Evts
                        /\ \E r \in Luck : Handled(e, Handle(m_state, e, flags, world.modes, r))
  BY HandlersRun DEF SmEvt
<1>2. PICK o \in Outcomes, w \in Works :
        /\ Handled(e, o) /\ PictureKept(m_state, e, o)
        /\ w = IF EndsLongshot(e) THEN "cancel" ELSE o.work
        /\ Work(w) /\ (w = "take" => pictures < world.maxPictures)
  BY <1>1, HandlerStep
<1>3. /\ cam'.alive = cam.alive /\ closing' = closing /\ m_state' = o.state
      /\ w = "cancel" => cam'.pic = 0
      /\ w \in {"none", "prepare"} => cam'.pic = cam.pic
  BY <1>2, WorkIs DEF SmEvt, Handled
<1>4. e # "LONGSHOT_OFF" /\ e # "TAKE_PICTURE" /\ w = o.work
  BY <1>2 DEF Evts, EndsLongshot, LongshotOff
<1>5. CASE e = "SNAPSHOT_DONE"
  BY <1>2, <1>3, <1>4, <1>5 DEF CaptureState, PictureKept, Works
<1>6. CASE e # "SNAPSHOT_DONE"
  <2>1. Queued("SNAPSHOT_DONE") => Queued("SNAPSHOT_DONE")'
    <3>1. evt_queue \in Seq(Evts) /\ evt_queue' = Tail(evt_queue) /\ "SNAPSHOT_DONE" \in Evts
      BY DEF TypeOK, SmEvt, Evts
    <3> QED
      BY <1>1, <1>6, <3>1, QueuedKept
  <2> QED
    BY <1>2, <1>3, <1>4, <2>1 DEF CaptureState, PictureKept, Works
<1> QED
  BY <1>5, <1>6

\* Every step keeps the state and the picture together, if a longshot that is switched off
\* during a picture was on.
LEMMA CaptureNext ==
  TypeOK /\ CaptureState /\ [Next /\ OffEndsLongshot]_vars => CaptureState'
<1> SUFFICES ASSUME TypeOK, CaptureState, [Next /\ OffEndsLongshot]_vars PROVE CaptureState'
  OBVIOUS
<1>0. /\ evt_queue \in Seq(Evts) /\ cam \in Camera
      /\ {"PREP_SNAPSHOT_DONE", "READY_FOR_SNAPSHOT", "SNAPSHOT_DONE"} \subseteq Evts
  BY DEF TypeOK, Evts
<1>1. ASSUME SmCall, OffEndsLongshot PROVE CaptureState'
  BY <1>1, CaptureCall
<1>2. CASE SmEvt
  BY <1>2, CaptureEvt
<1>3. ASSUME UNCHANGED <<m_state, evt_queue, cam>>, closing' = "closed" \/ closing # "closed"
      PROVE  CaptureState'
  <2>1. Queued("SNAPSHOT_DONE") => Queued("SNAPSHOT_DONE")'
    BY <1>3 DEF Queued
  <2> QED
    BY <1>3, <2>1, SamePicture
<1>4. ASSUME MetaPrep \/ FrameReady \/ StopCapture \/ DaemonDies \/ NotifierAll
      PROVE  CaptureState'
  <2>1. /\ m_state' = m_state /\ closing' = closing
        /\ cam'.pic = cam.pic
    BY <1>0, <1>4 DEF MetaPrep, FrameReady, StopCapture, DaemonDies, NotifierAll,
                      UnchangedByCamera, Camera
  <2>2. evt_queue' = evt_queue \/ \E e \in Evts : evt_queue' = Append(evt_queue, e)
    BY <1>0, <1>4 DEF MetaPrep, FrameReady, StopCapture, DaemonDies, NotifierAll, Event
  <2>3. Queued("SNAPSHOT_DONE") => Queued("SNAPSHOT_DONE")'
    <3>1. CASE evt_queue' = evt_queue
      BY <3>1 DEF Queued
    <3> QED
      BY <1>0, <2>2, <3>1, QueuedKept
  <2> QED
    BY <2>1, <2>3, SamePicture
<1>5. CASE CloseReturn
  BY <1>5 DEF CloseReturn, CaptureState
<1>6. ASSUME \/ \E t \in Apps : \E op \in world.ops[t] : Begin(t, op)
             \/ \E t \in Apps : Call(t) \/ Return(t)
             \/ SmExit \/ NotifierCmd \/ NotifierExit \/ Close \/ ExitNotifier
      PROVE  CaptureState'
  <2>1. UNCHANGED <<m_state, evt_queue, cam>> /\ (closing' = closing \/ closing # "closed")
    BY <1>6 DEF Begin, Call, Return, SmExit, NotifierCmd, NotifierExit, Close, ExitNotifier
  <2> QED
    BY <1>3, <2>1
<1>7. CASE UNCHANGED vars
  BY <1>3, <1>7 DEF vars
<1> QED
  BY <1>1, <1>2, <1>4, <1>5, <1>6, <1>7 DEF Next, StateMachineThread, Hardware, NotifierThread, vars

\* The state says that a picture is being taken exactly when the camera takes one, for any
\* callers and worlds in which a longshot is switched off during a picture only if it
\* was on before (isCaptureRunning, the SNAPSHOT_DONE of a cancelled longshot).
THEOREM CaptureStateAlways == Spec /\ [][OffEndsLongshot]_vars => []CaptureState
<1>1. [Next]_vars /\ [OffEndsLongshot]_vars => [Next /\ OffEndsLongshot]_vars
  OBVIOUS
<1> QED
  BY <1>1, CaptureInit, CaptureNext, TypesHold, PTL DEF Spec

-----------------------------------------------------------------------------
(* The answers, in worlds without retro pictures.                          *)

\* A world without retro pictures, whose callers make calls that every state answers.
PlainWorld(w) == ~w.retro /\ \A t \in Apps : w.ops[t] \subseteq Seq(Answered)

Open == closing # "closed"

Preparing == m_state = "PREPARE_SNAPSHOT"

\* The APIs whose results are counted, and the calls of one of them.
Counted == Apis \ {"STOP_CAPTURE_CHANNEL", "SNAPSHOT_DONE"}
CallsOf(a) == {e \in Calls : Api(e) = a}

Waiting(a) == {t \in Apps : waits[t] = a}

\* What is on the queues of calls, and nothing about retro pictures.
PlainCalls ==
  /\ PlainWorld(world)
  /\ ~flags.retro /\ ~cam.retro /\ ~Queued("READY_FOR_SNAPSHOT")
  /\ todo \in [Apps -> Seq(Answered)]
  /\ api_queue \in Seq(Answered \cup {"EXIT", "STOP_CAPTURE_CHANNEL"})

\* The camera prepares a snapshot, or its metadata is queued once, exactly in PREPARE_SNAPSHOT.
PrepareOnce ==
  Cardinality(Places(evt_queue, {"PREP_SNAPSHOT_DONE"})) + One(cam.prep) = One(Preparing)

\* Who waits has a call on the queue, a result on the list, or is answered by
\* PREP_SNAPSHOT_DONE.
AnswersMatch ==
  \A a \in Counted :
    Cardinality(Waiting(a)) =
      Cardinality(Places(api_queue, CallsOf(a))) + Cardinality(Places(results, {a}))
        + One(a = "PREPARE_SNAPSHOT" /\ Preparing)

AnswerInv ==
  /\ PlainCalls
  /\ Open => PrepareOnce /\ AnswersMatch

\* The counts are numbers.
LEMMA CountTypes ==
  ASSUME TypeOK
  PROVE  /\ \A V : /\ Cardinality(Places(api_queue, V)) \in Nat
                   /\ Cardinality(Places(results, V)) \in Nat
                   /\ Cardinality(Places(evt_queue, V)) \in Nat
         /\ \A a : IsFiniteSet(Waiting(a)) /\ Cardinality(Waiting(a)) \in Nat
<1>1. \A V : /\ Cardinality(Places(api_queue, V)) \in Nat
             /\ Cardinality(Places(results, V)) \in Nat
             /\ Cardinality(Places(evt_queue, V)) \in Nat
  BY PlacesFinite DEF TypeOK
<1>2. ASSUME NEW a PROVE IsFiniteSet(Waiting(a)) /\ Cardinality(Waiting(a)) \in Nat
  <2>1. Waiting(a) \in SUBSET Apps /\ IsFiniteSet(Apps)
    BY AppsAssumption DEF Waiting
  <2> QED
    BY <2>1, FS_Subset, FS_CardinalityType
<1> QED
  BY <1>1, <1>2

\* Nobody waits at first.
LEMMA AnswerInit ==
  ASSUME Init, \A w \in Worlds : PlainWorld(w)
  PROVE  AnswerInv
<1>1. /\ PlainWorld(world) /\ ~flags.retro /\ ~cam.retro /\ ~cam.prep /\ cam.alive
      /\ m_state = "PREVIEW_STOPPED"
      /\ evt_queue = << >> /\ api_queue = << >> /\ results = << >>
      /\ todo = [t \in Apps |-> << >>]
  BY DEF Init
<1>2. \A V : /\ Places(evt_queue, V) = {} /\ Places(api_queue, V) = {} /\ Places(results, V) = {}
  BY <1>1 DEF Places
<1>3. \A a \in Counted : Waiting(a) = {}
  BY ApiType DEF Init, Waiting, Counted
<1>4. PlainCalls
  BY <1>1 DEF PlainCalls, Queued
<1>5. ~Preparing
  BY <1>1 DEF Preparing
<1>6. PrepareOnce /\ AnswersMatch
  <2>1. One(cam.prep) = 0 /\ One(Preparing) = 0
    BY <1>1, <1>5 DEF One
  <2>2. \A a : One(a = "PREPARE_SNAPSHOT" /\ Preparing) = 0
    BY <1>5 DEF One
  <2>3. Cardinality({}) = 0
    BY FS_EmptySet
  <2>4. PrepareOnce
    <3>1. Cardinality(Places(evt_queue, {"PREP_SNAPSHOT_DONE"})) = 0
      BY <1>2, <2>3
    <3> QED
      BY <2>1, <3>1 DEF PrepareOnce
  <2>5. ASSUME NEW a \in Counted
        PROVE  Cardinality(Waiting(a)) =
                 Cardinality(Places(api_queue, CallsOf(a))) + Cardinality(Places(results, {a}))
                   + One(a = "PREPARE_SNAPSHOT" /\ Preparing)
    <3>1. Cardinality(Waiting(a)) = 0
      BY <1>3, <2>3
    <3>2. Cardinality(Places(api_queue, CallsOf(a))) = 0
      BY <1>2, <2>3
    <3>3. Cardinality(Places(results, {a})) = 0
      BY <1>2, <2>3
    <3>4. One(a = "PREPARE_SNAPSHOT" /\ Preparing) = 0
      BY <2>2
    <3> QED
      BY ONLY <3>1, <3>2, <3>3, <3>4
  <2> QED
    BY <2>4, <2>5 DEF AnswersMatch
<1> QED
  BY <1>4, <1>6 DEF AnswerInv

\* What AnswerInv says, for the counts of one API.
LEMMA ApiCalls ==
  /\ \A a \in Counted : \A e \in Answered : e \in CallsOf(a) <=> Api(e) = a
  /\ \A a \in Counted : /\ "STOP_CAPTURE_CHANNEL" \notin CallsOf(a) /\ "EXIT" \notin CallsOf(a)
                        /\ a # "STOP_CAPTURE_CHANNEL" /\ a # None
  /\ Api("STOP_CAPTURE_CHANNEL") = "STOP_CAPTURE_CHANNEL"
  /\ Api("PREPARE_SNAPSHOT") = "PREPARE_SNAPSHOT"
  /\ "PREPARE_SNAPSHOT" \in Counted
<1>1. /\ Api("STOP_CAPTURE_CHANNEL") = "STOP_CAPTURE_CHANNEL"
      /\ Api("PREPARE_SNAPSHOT") = "PREPARE_SNAPSHOT"
  BY DEF Api
<1>2. "EXIT" \notin Calls /\ Answered \subseteq Calls
  BY DEF Calls, Answered
<1>3. "PREPARE_SNAPSHOT" \in Counted
  BY ApiType DEF Counted
<1> QED
  BY <1>1, <1>2, <1>3, ApiType DEF CallsOf, Counted

\* The answers of a handler join the results.
LEMMA ResultCount ==
  ASSUME TypeOK, NEW o \in Outcomes, results' = results \o o.answers,
         o.answers = << >> \/ \E x \in Apis : o.answers = <<x>>
  PROVE  \A a : Cardinality(Places(results', {a})) =
                  Cardinality(Places(results, {a})) + One(o.answers = <<a>>)
<1>1. results \in Seq(Apis) /\ \A a : Cardinality(Places(results, {a})) \in Nat
  BY CountTypes DEF TypeOK
<1>2. CASE o.answers = << >>
  <2>1. results' = results
    BY <1>1, <1>2
  <2>2. \A a : o.answers # <<a>>
    BY <1>2
  <2> QED
    BY <1>1, <2>1, <2>2 DEF One
<1>3. ASSUME NEW x \in Apis, o.answers = <<x>>
      PROVE  \A a : Cardinality(Places(results', {a})) =
                      Cardinality(Places(results, {a})) + One(o.answers = <<a>>)
  <2>1. results' = Append(results, x)
    BY <1>1, <1>3
  <2>2. \A a : x \in {a} <=> o.answers = <<a>>
    BY <1>3
  <2>3. \A a : Cardinality(Places(results', {a})) =
                 Cardinality(Places(results, {a})) + One(x \in {a})
    BY <1>1, <2>1, AppendCount
  <2> QED
    BY <2>2, <2>3 DEF One
<1> QED
  BY <1>2, <1>3

\* One counts 0 or 1.
LEMMA OneType == \A c : One(c) \in {0, 1}
BY DEF One

\* An event that is not queued is not when another one is.
LEMMA NotQueued ==
  ASSUME NEW x, NEW y, x # y, ~Queued(y), evt_queue \in Seq(Evts),
         evt_queue' \in {evt_queue, Append(evt_queue, x)}
  PROVE  ~Queued(y)'
<1>1. CASE evt_queue' = evt_queue
  BY <1>1 DEF Queued
<1>2. CASE evt_queue' = Append(evt_queue, x)
  <2>1. \A i \in 1 .. Len(evt_queue) : evt_queue[i] # y
    BY DEF Queued
  <2>2. \A i \in 1 .. Len(evt_queue) + 1 :
          evt_queue'[i] = IF i = Len(evt_queue) + 1 THEN x ELSE evt_queue[i]
    BY <1>2
  <2>3. DOMAIN evt_queue' = 1 .. Len(evt_queue) + 1
    BY <1>2
  <2> QED
    BY <2>1, <2>2, <2>3 DEF Queued
<1> QED
  BY <1>1, <1>2

\* Nor when the head goes, which it is not.
LEMMA NotQueuedTail ==
  ASSUME evt_queue \in Seq(Evts), evt_queue # << >>, evt_queue' = Tail(evt_queue),
         NEW x \in Evts, ~Queued(x)
  PROVE  ~Queued(x)' /\ Head(evt_queue) # x
<1>1. \A i \in 1 .. Len(evt_queue) : evt_queue[i] # x
  BY DEF Queued
<1>2. Head(evt_queue) # x
  BY <1>1
<1>3. \A i \in 1 .. Len(evt_queue) - 1 : evt_queue'[i] = evt_queue[i + 1]
  OBVIOUS
<1>4. DOMAIN evt_queue' = 1 .. Len(evt_queue) - 1
  OBVIOUS
<1>5. \A i \in DOMAIN evt_queue' : evt_queue'[i] # x
  BY <1>1, <1>3, <1>4
<1> QED
  BY <1>2, <1>5 DEF Queued

\* A call.
LEMMA AnswerCall ==
  ASSUME TypeOK, AnswerInv, SmCall
  PROVE  AnswerInv'
<1>1. PICK e \in Calls : /\ e = Head(api_queue) /\ e \in Calls \cup Evts
                         /\ \E r \in Luck : Handled(e, Handle(m_state, e, flags, world.modes, r))
  BY HandlersRun DEF SmCall
<1>2. PICK o \in Outcomes, w \in Works :
        /\ Handled(e, o) /\ AnswerKept(m_state, e, o)
        /\ w = IF EndsLongshot(e) THEN "cancel" ELSE o.work
        /\ Work(w) /\ (w = "take" => pictures < world.maxPictures)
  BY <1>1, HandlerStep DEF AnswerInv, PlainCalls
<1>3. /\ cam'.alive = cam.alive /\ closing' = closing /\ m_state' = o.state
      /\ results' = results \o o.answers /\ UNCHANGED <<todo, waits, world>>
      /\ cam'.prep = IF w = "prepare" THEN TRUE ELSE cam.prep
  BY <1>2, WorkIs DEF SmCall, Handled
<1>4. /\ api_queue \in Seq(Answered \cup {"EXIT", "STOP_CAPTURE_CHANNEL"}) /\ api_queue # << >>
      /\ api_queue' = Tail(api_queue) /\ e # "EXIT"
  BY <1>1 DEF AnswerInv, PlainCalls, SmCall
<1>5. e \in Answered \/ e = "STOP_CAPTURE_CHANNEL"
  BY <1>1, <1>4
<1>6. evt_queue \in Seq(Evts) /\ "SNAPSHOT_DONE" \in Evts
      /\ evt_queue' \in {evt_queue, Append(evt_queue, "SNAPSHOT_DONE")}
  BY <1>1 DEF TypeOK, Evts, SmCall
<1>7. PlainCalls'
  <2>1. ~flags'.retro
    <3>1. flags' = FlagsAfter(e) /\ flags \in Flags /\ ~flags.retro
      BY <1>2 DEF Handled, TypeOK, Flags, AnswerInv, PlainCalls
    <3> QED
      BY <3>1 DEF FlagsAfter, Flags
  <2>2. ~cam'.retro
    BY <1>2, WorkIs DEF AnswerInv, PlainCalls, Works
  <2>3. ~Queued("READY_FOR_SNAPSHOT")'
    <3>1. ~Queued("READY_FOR_SNAPSHOT")
      BY DEF AnswerInv, PlainCalls
    <3> QED
      BY <1>6, <3>1, NotQueued
  <2>4. api_queue' \in Seq(Answered \cup {"EXIT", "STOP_CAPTURE_CHANNEL"})
    BY <1>4
  <2> QED
    BY <1>3, <2>1, <2>2, <2>3, <2>4 DEF AnswerInv, PlainCalls
<1>8. ASSUME Open' PROVE PrepareOnce' /\ AnswersMatch'
  <2>1. PrepareOnce /\ AnswersMatch
    BY <1>3, <1>8 DEF AnswerInv, Open
  <2>3. \/ /\ e \in Answered /\ o.answers = <<Api(e)>> /\ w # "prepare"
           /\ Preparing' <=> Preparing
        \/ /\ e = "STOP_CAPTURE_CHANNEL" /\ o.answers \in {<< >>, <<e>>} /\ w # "prepare"
           /\ Preparing' <=> Preparing
        \/ /\ e = "PREPARE_SNAPSHOT" /\ e \in Answered /\ o.answers = << >> /\ w = "prepare"
           /\ ~Preparing /\ Preparing'
    <3>1. e = "PREPARE_SNAPSHOT" => ~EndsLongshot(e)
      BY DEF EndsLongshot, LongshotOff
    <3>2. e = "STOP_CAPTURE_CHANNEL" => Api(e) = e
      BY ApiCalls
    <3> QED
      BY <1>2, <1>3, <1>5, <3>1, <3>2 DEF AnswerKept, Preparing
  <2>4. PrepareOnce'
    <3>1. Cardinality(Places(evt_queue', {"PREP_SNAPSHOT_DONE"})) =
            Cardinality(Places(evt_queue, {"PREP_SNAPSHOT_DONE"}))
      <4>1. CASE evt_queue' = Append(evt_queue, "SNAPSHOT_DONE")
        <5>1. One("SNAPSHOT_DONE" \in {"PREP_SNAPSHOT_DONE"}) = 0
          BY DEF One
        <5> QED
          BY <1>6, <4>1, <5>1, AppendCount, CountTypes
      <4> QED
        BY <1>6, <4>1
    <3> QED
      BY <1>3, <2>1, <2>3, <3>1, CountTypes DEF PrepareOnce, One
  <2>5. ASSUME NEW a \in Counted
        PROVE  Cardinality(Waiting(a)') =
                 Cardinality(Places(api_queue', CallsOf(a))) + Cardinality(Places(results', {a}))
                   + One(a = "PREPARE_SNAPSHOT" /\ Preparing')
    <3>1. Cardinality(Places(api_queue, CallsOf(a))) =
            Cardinality(Places(api_queue', CallsOf(a))) + One(e \in CallsOf(a))
      BY <1>1, <1>4, TailCount
    <3>2. Cardinality(Places(results', {a})) =
            Cardinality(Places(results, {a})) + One(o.answers = <<a>>)
      <4>1. o.answers = << >> \/ \E x \in Apis : o.answers = <<x>>
        <5>1. Api(e) \in Apis /\ "STOP_CAPTURE_CHANNEL" \in Apis
          BY ApiType
        <5> QED
          BY <2>3, <5>1
      <4> QED
        BY <1>3, <4>1, ResultCount
    <3>3. Waiting(a)' = Waiting(a)
      BY <1>3 DEF Waiting
    <3>4. Cardinality(Waiting(a)) =
            Cardinality(Places(api_queue, CallsOf(a))) + Cardinality(Places(results, {a}))
              + One(a = "PREPARE_SNAPSHOT" /\ Preparing)
      BY <2>1 DEF AnswersMatch
    <3>5. One(o.answers = <<a>>) + One(a = "PREPARE_SNAPSHOT" /\ Preparing') =
            One(e \in CallsOf(a)) + One(a = "PREPARE_SNAPSHOT" /\ Preparing)
      <4>1. /\ e \in Answered => (e \in CallsOf(a) <=> Api(e) = a)
            /\ "STOP_CAPTURE_CHANNEL" \notin CallsOf(a) /\ a # "STOP_CAPTURE_CHANNEL"
            /\ Api("PREPARE_SNAPSHOT") = "PREPARE_SNAPSHOT"
        BY ApiCalls
      <4>2. \A x, y : (<<x>> = <<y>> <=> x = y) /\ << >> # <<y>>
        OBVIOUS
      <4> QED
        BY <2>3, <4>1, <4>2 DEF One
    <3>6. /\ Cardinality(Places(api_queue', CallsOf(a))) \in Nat
          /\ Cardinality(Places(results, {a})) \in Nat
      <4>1. api_queue' \in Seq(Answered \cup {"EXIT", "STOP_CAPTURE_CHANNEL"})
        BY <1>4
      <4>2. Cardinality(Places(api_queue', CallsOf(a))) \in Nat
        BY <4>1, PlacesFinite
      <4> QED
        BY <4>2, CountTypes
    <3> QED
      BY ONLY <3>1, <3>2, <3>3, <3>4, <3>5, <3>6, OneType
  <2>6. AnswersMatch'
    BY <2>5 DEF AnswersMatch
  <2> QED
    BY <2>4, <2>6
<1> QED
  BY <1>7, <1>8 DEF AnswerInv

\* An event.
LEMMA AnswerEvt ==
  ASSUME TypeOK, AnswerInv, SmEvt
  PROVE  AnswerInv'
<1>1. PICK e \in Evts : /\ e = Head(evt_queue) /\ e \in Calls \cup Evts
                        /\ \E r \in Luck : Handled(e, Handle(m_state, e, flags, world.modes, r))
  BY HandlersRun DEF SmEvt
<1>2. PICK o \in Outcomes, w \in Works :
        /\ Handled(e, o) /\ AnswerKept(m_state, e, o)
        /\ w = IF EndsLongshot(e) THEN "cancel" ELSE o.work
        /\ Work(w) /\ (w = "take" => pictures < world.maxPictures)
  BY <1>1, HandlerStep DEF AnswerInv, PlainCalls
<1>3. /\ cam'.alive = cam.alive /\ closing' = closing /\ m_state' = o.state
      /\ results' = results \o o.answers /\ UNCHANGED <<todo, waits, world, api_queue>>
      /\ cam'.prep = IF w = "prepare" THEN TRUE ELSE cam.prep
  BY <1>2, WorkIs DEF SmEvt, Handled
<1>4. evt_queue \in Seq(Evts) /\ evt_queue # << >> /\ evt_queue' = Tail(evt_queue)
  BY DEF TypeOK, SmEvt
<1>5. w = o.work
  BY <1>2 DEF EndsLongshot, LongshotOff, Evts
<1>6. \A x \in Evts : ~Queued(x) => ~Queued(x)' /\ e # x
  BY <1>1, <1>4, NotQueuedTail
<1>7. PlainCalls'
  <2>1. ~flags'.retro
    <3>1. flags' = FlagsAfter(e) /\ flags \in Flags /\ ~flags.retro
      BY <1>2 DEF Handled, TypeOK, Flags, AnswerInv, PlainCalls
    <3> QED
      BY <3>1 DEF FlagsAfter, Flags
  <2>2. ~cam'.retro
    BY <1>2, WorkIs DEF AnswerInv, PlainCalls, Works
  <2>3. ~Queued("READY_FOR_SNAPSHOT")'
    BY <1>6 DEF AnswerInv, PlainCalls, Evts
  <2> QED
    BY <1>3, <2>1, <2>2, <2>3 DEF AnswerInv, PlainCalls
<1>8. ASSUME Open' PROVE PrepareOnce' /\ AnswersMatch'
  <2>1. PrepareOnce /\ AnswersMatch
    BY <1>3, <1>8 DEF AnswerInv, Open
  <2>3. Cardinality(Places(evt_queue, {"PREP_SNAPSHOT_DONE"})) =
          Cardinality(Places(evt_queue', {"PREP_SNAPSHOT_DONE"})) + One(e = "PREP_SNAPSHOT_DONE")
    <3>1. e \in {"PREP_SNAPSHOT_DONE"} <=> e = "PREP_SNAPSHOT_DONE"
      OBVIOUS
    <3> QED
      BY <1>1, <1>4, <3>1, TailCount
  <2>4. Cardinality(Places(evt_queue', {"PREP_SNAPSHOT_DONE"})) \in Nat
    <3>1. evt_queue' \in Seq(Evts)
      BY <1>4
    <3> QED
      BY <3>1, PlacesFinite
  <2>5. \/ /\ e = "PREP_SNAPSHOT_DONE" /\ Preparing /\ ~Preparing' /\ w # "prepare"
           /\ o.answers = <<"PREPARE_SNAPSHOT">>
        \/ /\ e # "PREP_SNAPSHOT_DONE" /\ (Preparing' <=> Preparing) /\ w # "prepare"
           /\ o.answers = << >>
    <3>1. e = "PREP_SNAPSHOT_DONE" => Preparing
      BY <2>1, <2>3, <2>4 DEF PrepareOnce, One
    <3>2. Api("PREPARE_SNAPSHOT") = "PREPARE_SNAPSHOT"
      BY ApiCalls
    <3> QED
      BY <1>2, <1>3, <1>5, <3>1, <3>2 DEF AnswerKept, Preparing
  <2>6. PrepareOnce'
    BY <1>3, <2>1, <2>3, <2>4, <2>5 DEF PrepareOnce, One
  <2>7. ASSUME NEW a \in Counted
        PROVE  Cardinality(Waiting(a)') =
                 Cardinality(Places(api_queue', CallsOf(a))) + Cardinality(Places(results', {a}))
                   + One(a = "PREPARE_SNAPSHOT" /\ Preparing')
    <3>1. Cardinality(Places(api_queue, CallsOf(a))) = Cardinality(Places(api_queue', CallsOf(a)))
      BY <1>3
    <3>2. Cardinality(Places(results', {a})) =
            Cardinality(Places(results, {a})) + One(o.answers = <<a>>)
      <4>1. o.answers = << >> \/ \E x \in Apis : o.answers = <<x>>
        BY <2>5, ApiType
      <4> QED
        BY <1>3, <4>1, ResultCount
    <3>3. Waiting(a)' = Waiting(a)
      BY <1>3 DEF Waiting
    <3>4. Cardinality(Waiting(a)) =
            Cardinality(Places(api_queue, CallsOf(a))) + Cardinality(Places(results, {a}))
              + One(a = "PREPARE_SNAPSHOT" /\ Preparing)
      BY <2>1 DEF AnswersMatch
    <3>5. One(o.answers = <<a>>) + One(a = "PREPARE_SNAPSHOT" /\ Preparing') =
            One(a = "PREPARE_SNAPSHOT" /\ Preparing)
      <4>2. \A x, y : (<<x>> = <<y>> <=> x = y) /\ << >> # <<y>>
        OBVIOUS
      <4> QED
        BY <2>5, <4>2 DEF One
    <3>6. /\ Cardinality(Places(api_queue, CallsOf(a))) \in Nat
          /\ Cardinality(Places(results, {a})) \in Nat
      BY CountTypes
    <3> QED
      BY ONLY <3>1, <3>2, <3>3, <3>4, <3>5, <3>6, OneType
  <2>8. AnswersMatch'
    BY <2>7 DEF AnswersMatch
  <2> QED
    BY <2>6, <2>8
<1> QED
  BY <1>7, <1>8 DEF AnswerInv

\* What leaves the events alone.
LEMMA AnswerQueues ==
  ASSUME TypeOK, AnswerInv, PlainCalls', Open' => Open,
         m_state' = m_state, evt_queue' = evt_queue, cam'.prep = cam.prep,
         Open' => \A a \in Counted :
           Cardinality(Waiting(a)') =
             Cardinality(Places(api_queue', CallsOf(a))) + Cardinality(Places(results', {a}))
               + One(a = "PREPARE_SNAPSHOT" /\ Preparing)
  PROVE  AnswerInv'
<1>1. ASSUME Open' PROVE PrepareOnce' /\ AnswersMatch'
  <2>1. PrepareOnce
    BY <1>1 DEF AnswerInv
  <2>2. Preparing' <=> Preparing
    BY DEF Preparing
  <2>4. PrepareOnce'
    BY <2>1, <2>2 DEF PrepareOnce, One
  <2>5. \A a : One(a = "PREPARE_SNAPSHOT" /\ Preparing') = One(a = "PREPARE_SNAPSHOT" /\ Preparing)
    BY <2>2 DEF One
  <2>6. AnswersMatch'
    BY <1>1, <2>5 DEF AnswersMatch
  <2> QED
    BY <2>4, <2>6
<1> QED
  BY <1>1 DEF AnswerInv

\* What leaves the calls and the results alone too.
LEMMA AnswerSame ==
  ASSUME TypeOK, AnswerInv, Open' => Open, todo' \in [Apps -> Seq(Answered)],
         UNCHANGED <<m_state, evt_queue, api_queue, results, waits, flags, world>>,
         cam'.prep = cam.prep, cam'.retro = cam.retro
  PROVE  AnswerInv'
<1>1. PlainCalls'
  BY DEF AnswerInv, PlainCalls, Queued
<1>2. \A a : Waiting(a)' = Waiting(a)
  BY DEF Waiting
<1>3. ASSUME Open', NEW a \in Counted
      PROVE  Cardinality(Waiting(a)') =
               Cardinality(Places(api_queue', CallsOf(a))) + Cardinality(Places(results', {a}))
                 + One(a = "PREPARE_SNAPSHOT" /\ Preparing)
  BY <1>2, <1>3 DEF AnswerInv, AnswersMatch
<1> QED
  BY <1>1, <1>3, AnswerQueues

\* What appends to the calls something that nobody waits for, or takes EXIT.
LEMMA AnswerUncounted ==
  ASSUME TypeOK, AnswerInv, Open' => Open, NEW x \in {"EXIT", "STOP_CAPTURE_CHANNEL"},
         \/ api_queue' = Append(api_queue, x)
         \/ api_queue # << >> /\ x = Head(api_queue) /\ api_queue' = Tail(api_queue),
         UNCHANGED <<m_state, evt_queue, results, waits, flags, world, todo>>,
         cam'.prep = cam.prep, cam'.retro = cam.retro
  PROVE  AnswerInv'
<1>0. /\ api_queue \in Seq(Answered \cup {"EXIT", "STOP_CAPTURE_CHANNEL"})
      /\ \A a : Cardinality(Places(api_queue, CallsOf(a))) \in Nat
  BY CountTypes DEF AnswerInv, PlainCalls
<1>1. api_queue' \in Seq(Answered \cup {"EXIT", "STOP_CAPTURE_CHANNEL"})
  BY <1>0
<1>2. PlainCalls'
  BY <1>1 DEF AnswerInv, PlainCalls, Queued
<1>3. ASSUME Open', NEW a \in Counted
      PROVE  Cardinality(Waiting(a)') =
               Cardinality(Places(api_queue', CallsOf(a))) + Cardinality(Places(results', {a}))
                 + One(a = "PREPARE_SNAPSHOT" /\ Preparing)
  <2>1. One(x \in CallsOf(a)) = 0
    BY ApiCalls DEF One
  <2>2. Cardinality(Places(api_queue', CallsOf(a))) = Cardinality(Places(api_queue, CallsOf(a)))
    <3>1. Cardinality(Places(api_queue', CallsOf(a))) \in Nat
      BY <1>1, PlacesFinite
    <3>2. CASE api_queue' = Append(api_queue, x)
      <4>1. Cardinality(Places(api_queue', CallsOf(a))) =
              Cardinality(Places(api_queue, CallsOf(a))) + One(x \in CallsOf(a))
        BY <1>0, <3>2, AppendCount
      <4> QED
        BY <1>0, <2>1, <4>1
    <3>3. CASE api_queue # << >> /\ x = Head(api_queue) /\ api_queue' = Tail(api_queue)
      <4>1. Cardinality(Places(api_queue, CallsOf(a))) =
              Cardinality(Places(api_queue', CallsOf(a))) + One(x \in CallsOf(a))
        BY <1>0, <3>3, TailCount
      <4> QED
        BY <2>1, <3>1, <4>1
    <3> QED
      BY <3>2, <3>3
  <2>3. Waiting(a)' = Waiting(a)
    BY DEF Waiting
  <2> QED
    BY <1>3, <2>2, <2>3 DEF AnswerInv, AnswersMatch
<1> QED
  BY <1>2, <1>3, AnswerQueues

\* A caller calls.
LEMMA AnswerCaller ==
  ASSUME TypeOK, AnswerInv, NEW t \in Apps, Call(t)
  PROVE  AnswerInv'
<1>1. PICK e : e = Head(todo[t])
  OBVIOUS
<1>2. /\ waits[t] = None /\ todo[t] # << >> /\ api_queue' = Append(api_queue, e)
      /\ todo' = [todo EXCEPT ![t] = Tail(@)] /\ waits' = [waits EXCEPT ![t] = Api(e)]
      /\ flags' = [flags EXCEPT !.retro = RetroPicture(e)]
      /\ UNCHANGED <<m_state, evt_queue, results, cam, closing, world>>
  BY <1>1 DEF Call, notify
<1>3. /\ todo \in [Apps -> Seq(Answered)] /\ ~world.retro /\ ~flags.retro
      /\ api_queue \in Seq(Answered \cup {"EXIT", "STOP_CAPTURE_CHANNEL"})
      /\ flags \in Flags /\ waits \in [Apps -> Apis \cup {None}]
  BY DEF AnswerInv, PlainCalls, PlainWorld, TypeOK, Flags
<1>4. e \in Answered /\ Tail(todo[t]) \in Seq(Answered)
  BY <1>1, <1>2, <1>3
<1>5. PlainCalls'
  <2>1. ~flags'.retro
    BY <1>2, <1>3 DEF RetroPicture, Flags
  <2>2. todo' \in [Apps -> Seq(Answered)]
    BY <1>2, <1>3, <1>4
  <2>3. api_queue' \in Seq(Answered \cup {"EXIT", "STOP_CAPTURE_CHANNEL"})
    BY <1>2, <1>3, <1>4
  <2> QED
    BY <1>2, <2>1, <2>2, <2>3 DEF AnswerInv, PlainCalls, Queued
<1>6. ASSUME Open', NEW a \in Counted
      PROVE  Cardinality(Waiting(a)') =
               Cardinality(Places(api_queue', CallsOf(a))) + Cardinality(Places(results', {a}))
                 + One(a = "PREPARE_SNAPSHOT" /\ Preparing)
  <2>1. (e \in CallsOf(a) <=> Api(e) = a) /\ a # None
    BY <1>4, ApiCalls
  <2>2. Cardinality(Places(api_queue', CallsOf(a))) =
          Cardinality(Places(api_queue, CallsOf(a))) + One(e \in CallsOf(a))
    <3>1. e \in Answered \cup {"EXIT", "STOP_CAPTURE_CHANNEL"}
      BY <1>4
    <3>2. Cardinality(Places(Append(api_queue, e), CallsOf(a))) =
            Cardinality(Places(api_queue, CallsOf(a))) + One(e \in CallsOf(a))
      BY ONLY <1>3, <3>1, AppendCount
    <3> QED
      BY <1>2, <3>2
  <2>3. Cardinality(Waiting(a)') = Cardinality(Waiting(a)) + One(e \in CallsOf(a))
    <3>1. IsFiniteSet(Waiting(a)) /\ Cardinality(Waiting(a)) \in Nat /\ t \notin Waiting(a)
      BY <1>2, <2>1, CountTypes DEF Waiting
    <3>2. CASE Api(e) = a
      <4>1. Waiting(a)' = Waiting(a) \cup {t}
        BY <1>2, <1>3, <3>2 DEF Waiting
      <4>2. Cardinality(Waiting(a) \cup {t}) = Cardinality(Waiting(a)) + 1
        BY <3>1, FS_AddElement
      <4> QED
        BY <2>1, <3>2, <4>1, <4>2 DEF One
    <3>3. CASE Api(e) # a
      <4>1. Waiting(a)' = Waiting(a)
        BY <1>2, <1>3, <2>1, <3>3 DEF Waiting
      <4> QED
        BY <2>1, <3>1, <3>3, <4>1 DEF One
    <3> QED
      BY <3>2, <3>3
  <2>4. Cardinality(Waiting(a)) =
          Cardinality(Places(api_queue, CallsOf(a))) + Cardinality(Places(results, {a}))
            + One(a = "PREPARE_SNAPSHOT" /\ Preparing)
    BY <1>2, <1>6 DEF AnswerInv, AnswersMatch, Open
  <2>5. /\ Cardinality(Places(api_queue, CallsOf(a))) \in Nat
        /\ Cardinality(Places(results, {a})) \in Nat
        /\ results' = results
    BY <1>2, CountTypes
  <2> QED
    BY ONLY <2>2, <2>3, <2>4, <2>5, OneType
<1>7. Open' => Open
  BY <1>2 DEF Open
<1> QED
  BY <1>2, <1>5, <1>6, <1>7, AnswerQueues

\* A caller takes its result, or waits again.
LEMMA AnswerReturn ==
  ASSUME TypeOK, AnswerInv, NEW t \in Apps, Return(t)
  PROVE  AnswerInv'
<1>1. PICK hits : hits = {i \in DOMAIN results : results[i] = waits[t]}
  OBVIOUS
<1>2. PICK first : first = CHOOSE i \in hits : \A k \in hits : i <= k
  OBVIOUS
<1>3. /\ UNCHANGED <<m_state, flags, api_queue, evt_queue, todo, cam, closing, world>>
      /\ t \in woken
      /\ hits = {} => results' = results /\ waits' = waits
      /\ hits # {} => /\ results' = SubSeq(results, 1, first - 1)
                                      \o SubSeq(results, first + 1, Len(results))
                      /\ waits' = [waits EXCEPT ![t] = None]
  BY <1>1, <1>2 DEF Return, notify
<1>4. /\ results \in Seq(Apis) /\ waits \in [Apps -> Apis \cup {None}]
      /\ waits[t] \in Apis /\ todo \in [Apps -> Seq(Answered)]
  BY <1>3 DEF TypeOK, AnswerInv, PlainCalls
<1>5. CASE hits = {}
  <2>1. (Open' => Open) /\ todo' \in [Apps -> Seq(Answered)]
    BY <1>3, <1>4 DEF Open
  <2> QED
    BY <1>3, <1>5, <2>1, AnswerSame
<1>6. CASE hits # {}
  <2>1. first \in 1 .. Len(results) /\ results[first] = waits[t]
    <3>1. first \in hits /\ hits \subseteq 1 .. Len(results)
      <4>1. results \in Seq(Apis) /\ hits = {i \in DOMAIN results : results[i] = waits[t]}
        BY <1>1, <1>4
      <4>2. /\ (CHOOSE i \in hits : \A k \in hits : i <= k) \in hits
            /\ hits \subseteq 1 .. Len(results)
        BY ONLY <1>6, <4>1, FirstIs
      <4> QED
        BY <1>2, <4>2
    <3> QED
      BY <1>1, <3>1
  <2>2. /\ results' \in Seq(Apis) /\ Len(results') = Len(results) - 1
        /\ \A k \in 1 .. Len(results) - 1 :
             results'[k] = IF k < first THEN results[k] ELSE results[k + 1]
    <3>1. PICK u : u = SubSeq(results, 1, first - 1) \o SubSeq(results, first + 1, Len(results))
      OBVIOUS
    <3>2. results \in Seq(Apis) /\ first \in 1 .. Len(results)
      BY <1>4, <2>1
    <3>3. /\ u \in Seq(Apis) /\ Len(u) = Len(results) - 1
          /\ \A k \in 1 .. Len(results) - 1 :
               u[k] = IF k < first THEN results[k] ELSE results[k + 1]
      BY ONLY <3>1, <3>2, DropPlace
    <3>4. results' = u
      BY <1>3, <1>6, <3>1
    <3> QED
      BY <3>3, <3>4
  <2>3. PlainCalls'
    BY <1>3 DEF AnswerInv, PlainCalls, Queued
  <2>4. ASSUME Open', NEW a \in Counted
        PROVE  Cardinality(Waiting(a)') =
                 Cardinality(Places(api_queue', CallsOf(a))) + Cardinality(Places(results', {a}))
                   + One(a = "PREPARE_SNAPSHOT" /\ Preparing)
    <3>1. Cardinality(Places(results, {a})) =
            Cardinality(Places(results', {a})) + One(results[first] \in {a})
      <4>1. PICK u : u = results'
        OBVIOUS
      <4>2. results \in Seq(Apis) /\ first \in 1 .. Len(results)
        BY <1>4, <2>1
      <4>3. /\ u \in Seq(Apis) /\ Len(u) = Len(results) - 1
            /\ \A k \in 1 .. Len(results) - 1 :
                 u[k] = IF k < first THEN results[k] ELSE results[k + 1]
        BY <2>2, <4>1
      <4>4. Cardinality(Places(results, {a})) =
              Cardinality(Places(u, {a})) + One(results[first] \in {a})
        BY ONLY <4>2, <4>3, DropCount
      <4> QED
        BY <4>1, <4>4
    <3>2. Cardinality(Waiting(a)) = Cardinality(Waiting(a)') + One(results[first] \in {a})
      <4>1. IsFiniteSet(Waiting(a)) /\ Cardinality(Waiting(a)) \in Nat /\ a # None
        BY CountTypes, ApiCalls
      <4>2. CASE waits[t] = a
        <5>1. Waiting(a)' = Waiting(a) \ {t} /\ t \in Waiting(a)
          BY <1>3, <1>4, <1>6, <4>1, <4>2 DEF Waiting
        <5>2. Cardinality(Waiting(a) \ {t}) = Cardinality(Waiting(a)) - 1
          BY <4>1, <5>1, FS_RemoveElement
        <5>3. One(results[first] \in {a}) = 1
          BY <2>1, <4>2 DEF One
        <5> QED
          BY <4>1, <5>1, <5>2, <5>3
      <4>3. CASE waits[t] # a
        <5>1. Waiting(a)' = Waiting(a)
          BY <1>3, <1>4, <1>6, <4>1, <4>3 DEF Waiting
        <5>2. One(results[first] \in {a}) = 0
          BY <2>1, <4>3 DEF One
        <5> QED
          BY <4>1, <5>1, <5>2
      <4> QED
        BY <4>2, <4>3
    <3>3. Cardinality(Waiting(a)) =
            Cardinality(Places(api_queue, CallsOf(a))) + Cardinality(Places(results, {a}))
              + One(a = "PREPARE_SNAPSHOT" /\ Preparing)
      BY <1>3, <2>4 DEF AnswerInv, AnswersMatch, Open
    <3>4. /\ Cardinality(Places(api_queue, CallsOf(a))) \in Nat
          /\ Cardinality(Places(results', {a})) \in Nat
          /\ Cardinality(Waiting(a)') \in Nat
          /\ api_queue' = api_queue
      <4>1. Cardinality(Places(results', {a})) \in Nat
        BY <2>2, PlacesFinite
      <4>2. Cardinality(Waiting(a)') \in Nat
        <5>1. Waiting(a)' \in SUBSET Apps /\ IsFiniteSet(Apps)
          BY AppsAssumption DEF Waiting
        <5> QED
          BY <5>1, FS_Subset, FS_CardinalityType
      <4> QED
        BY <1>3, <4>1, <4>2, CountTypes
    <3> QED
      BY ONLY <3>1, <3>2, <3>3, <3>4, OneType
  <2>5. Open' => Open
    BY <1>3 DEF Open
  <2> QED
    BY <1>3, <2>3, <2>4, <2>5, AnswerQueues
<1> QED
  BY <1>5, <1>6

\* The camera's events.
LEMMA AnswerEvents ==
  ASSUME TypeOK, AnswerInv, NEW x \in Evts,
         x # "READY_FOR_SNAPSHOT",
         evt_queue' = Append(evt_queue, x),
         UNCHANGED <<m_state, flags, api_queue, results, todo, waits, closing, world>>,
         cam'.alive = cam.alive, ~cam'.retro,
         \/ x # "PREP_SNAPSHOT_DONE" /\ cam'.prep = cam.prep
         \/ x = "PREP_SNAPSHOT_DONE" /\ cam.prep /\ ~cam'.prep
  PROVE  AnswerInv'
<1>1. evt_queue \in Seq(Evts) /\ ~Queued("READY_FOR_SNAPSHOT")
  BY DEF TypeOK, AnswerInv, PlainCalls
<1>2. ~Queued("READY_FOR_SNAPSHOT")'
  BY <1>1, NotQueued
<1>3. PlainCalls'
  BY <1>2 DEF AnswerInv, PlainCalls
<1>4. ASSUME Open' PROVE PrepareOnce' /\ AnswersMatch'
  <2>1. PrepareOnce /\ AnswersMatch
    BY <1>4 DEF AnswerInv, Open
  <2>2. Preparing' <=> Preparing
    BY DEF Preparing
  <2>4. PrepareOnce'
    <3>1. Cardinality(Places(evt_queue', {"PREP_SNAPSHOT_DONE"})) =
            Cardinality(Places(evt_queue, {"PREP_SNAPSHOT_DONE"}))
              + One(x \in {"PREP_SNAPSHOT_DONE"})
      BY <1>1, AppendCount
    <3>2. One(x \in {"PREP_SNAPSHOT_DONE"}) + One(cam'.prep) = One(cam.prep)
      BY DEF One
    <3>3. Cardinality(Places(evt_queue, {"PREP_SNAPSHOT_DONE"})) \in Nat
      BY CountTypes
    <3>4. One(Preparing') = One(Preparing)
      BY <2>2 DEF One
    <3>5. Cardinality(Places(evt_queue, {"PREP_SNAPSHOT_DONE"})) + One(cam.prep) = One(Preparing)
      BY <2>1 DEF PrepareOnce
    <3>6. Cardinality(Places(evt_queue', {"PREP_SNAPSHOT_DONE"})) + One(cam'.prep) = One(Preparing')
      BY ONLY <3>1, <3>2, <3>3, <3>4, <3>5, OneType
    <3> QED
      BY <3>6 DEF PrepareOnce
  <2>5. \A a : One(a = "PREPARE_SNAPSHOT" /\ Preparing') = One(a = "PREPARE_SNAPSHOT" /\ Preparing)
    BY <2>2 DEF One
  <2>6. \A a : Waiting(a)' = Waiting(a)
    BY DEF Waiting
  <2>7. AnswersMatch'
    BY <2>1, <2>5, <2>6 DEF AnswersMatch
  <2> QED
    BY <2>4, <2>7
<1> QED
  BY <1>3, <1>4 DEF AnswerInv

\* Every step keeps the answers matched.
LEMMA AnswerNext == TypeOK /\ AnswerInv /\ [Next]_vars => AnswerInv'
<1> SUFFICES ASSUME TypeOK, AnswerInv, [Next]_vars PROVE AnswerInv'
  OBVIOUS
<1>0. /\ todo \in [Apps -> Seq(Answered)] /\ ~cam.retro /\ ~flags.retro /\ PlainWorld(world)
      /\ ~Queued("READY_FOR_SNAPSHOT")
      /\ cam \in Camera /\ evt_queue \in Seq(Evts)
      /\ {"PREP_SNAPSHOT_DONE", "READY_FOR_SNAPSHOT", "SNAPSHOT_DONE"} \subseteq Evts
  BY DEF AnswerInv, PlainCalls, TypeOK, Evts
<1>1. ASSUME NEW t \in Apps, NEW op \in world.ops[t], Begin(t, op) PROVE AnswerInv'
  <2>1. todo' \in [Apps -> Seq(Answered)]
    BY <1>0, <1>1 DEF Begin, PlainWorld
  <2>2. /\ UNCHANGED <<m_state, evt_queue, api_queue, results, waits, flags, world, cam>>
        /\ Open' => Open
    BY <1>1 DEF Begin, Open
  <2> QED
    BY <2>1, <2>2, AnswerSame
<1>2. ASSUME NEW t \in Apps, Call(t) \/ Return(t) PROVE AnswerInv'
  BY <1>2, AnswerCaller, AnswerReturn
<1>3. ASSUME SmCall \/ SmEvt PROVE AnswerInv'
  BY <1>3, AnswerCall, AnswerEvt
<1>4. CASE SmExit
  <2>1. /\ api_queue # << >> /\ "EXIT" = Head(api_queue) /\ api_queue' = Tail(api_queue)
        /\ UNCHANGED <<m_state, evt_queue, results, waits, flags, world, todo, cam>>
        /\ Open' => Open
    BY <1>4 DEF SmExit, callers, Open
  <2> QED
    BY <2>1, AnswerUncounted
<1>5. CASE StopCapture
  <2>1. /\ api_queue' = Append(api_queue, "STOP_CAPTURE_CHANNEL")
        /\ UNCHANGED <<m_state, evt_queue, results, waits, flags, world, todo>>
        /\ cam'.prep = cam.prep /\ cam'.retro = cam.retro
        /\ Open' => Open
    BY <1>0, <1>5 DEF StopCapture, UnchangedByCamera, callers, Open, Camera
  <2> QED
    BY <2>1, AnswerUncounted
<1>6. CASE Close
  <2>1. /\ api_queue' = Append(api_queue, "EXIT")
        /\ UNCHANGED <<m_state, evt_queue, results, waits, flags, world, todo, cam>>
        /\ Open' => Open
    BY <1>6 DEF Close, callers, Open
  <2> QED
    BY <2>1, AnswerUncounted
<1>7. ASSUME NotifierCmd \/ NotifierExit \/ ExitNotifier \/ UNCHANGED vars PROVE AnswerInv'
  <2>1. /\ UNCHANGED <<m_state, evt_queue, api_queue, results, waits, flags, world, todo, cam>>
        /\ Open' => Open
    BY <1>7 DEF NotifierCmd, NotifierExit, ExitNotifier, vars, callers, notify, Open
  <2>2. todo' \in [Apps -> Seq(Answered)] /\ cam'.prep = cam.prep /\ cam'.retro = cam.retro
    BY <1>0, <2>1
  <2> QED
    BY <2>1, <2>2, AnswerSame
<1>8. CASE MetaPrep
  <2>1. /\ evt_queue' = Append(evt_queue, "PREP_SNAPSHOT_DONE")
        /\ UNCHANGED <<m_state, flags, api_queue, results, todo, waits, closing, world>>
        /\ cam'.alive = cam.alive /\ ~cam'.retro /\ cam.prep /\ ~cam'.prep
    BY <1>0, <1>8 DEF MetaPrep, Event, UnchangedByCamera, callers, Camera
  <2> QED
    BY <1>0, <2>1, AnswerEvents
<1>9. CASE NotifierAll
  <2>1. /\ evt_queue' = Append(evt_queue, "SNAPSHOT_DONE")
        /\ UNCHANGED <<m_state, flags, api_queue, results, todo, waits, closing, world, cam>>
    BY <1>9 DEF NotifierAll, Event, UnchangedByCamera, callers
  <2> QED
    BY <1>0, <2>1, AnswerEvents
<1>10. CASE DaemonDies
  <2>1. /\ UNCHANGED <<m_state, evt_queue, api_queue, results, waits, flags, world, todo>>
        /\ cam'.prep = cam.prep /\ cam'.retro = cam.retro
        /\ Open' => Open
    BY <1>0, <1>10 DEF DaemonDies, UnchangedByCamera, callers, Open, Camera
  <2>2. todo' \in [Apps -> Seq(Answered)]
    BY <1>0, <2>1
  <2> QED
    BY <2>1, <2>2, AnswerSame
<1>11. CASE CloseReturn
  <2>1. /\ UNCHANGED <<m_state, flags, api_queue, evt_queue, todo, world>>
        /\ closing' = "closed" /\ ~cam'.retro
    BY <1>0, <1>11 DEF CloseReturn, callers, Camera
  <2>2. ~Open'
    BY <2>1 DEF Open
  <2> QED
    BY <2>1, <2>2 DEF AnswerInv, PlainCalls, Queued
<1>12. ~FrameReady
  BY <1>0 DEF FrameReady
<1> QED
  BY <1>1, <1>2, <1>3, <1>4, <1>5, <1>6, <1>7, <1>8, <1>9, <1>10, <1>11, <1>12
     DEF Next, StateMachineThread, Hardware, NotifierThread

\* The matched answers are those of the run.
LEMMA AnswerEach == TypeOK /\ AnswerInv => OneAnswerEach
<1> SUFFICES ASSUME TypeOK, AnswerInv, Open, NEW a \in Counted
             PROVE  Cardinality({t \in Apps : waits[t] = a}) =
                      Cardinality({i \in DOMAIN api_queue : api_queue[i] # "EXIT" /\ Api(api_queue[i]) = a})
                        + Cardinality({i \in DOMAIN results : results[i] = a})
                        + (IF Postponed(a) THEN 1 ELSE 0)
  BY DEF OneAnswerEach, Count, Open, Counted
<1>1. PrepareOnce /\ AnswersMatch
  BY DEF AnswerInv
<1>2. {t \in Apps : waits[t] = a} = Waiting(a)
  BY DEF Waiting
<1>3. {i \in DOMAIN results : results[i] = a} = Places(results, {a})
  <2>1. DOMAIN results = 1 .. Len(results)
    BY DEF TypeOK
  <2> QED
    BY <2>1 DEF Places
<1>4. {i \in DOMAIN api_queue : api_queue[i] # "EXIT" /\ Api(api_queue[i]) = a}
        = Places(api_queue, CallsOf(a))
  <2>1. api_queue \in Seq(Calls \cup {"EXIT"})
    BY DEF TypeOK
  <2>2. DOMAIN api_queue = 1 .. Len(api_queue)
    BY <2>1
  <2>3. \A i \in 1 .. Len(api_queue) : api_queue[i] \in Calls \cup {"EXIT"}
    BY <2>1
  <2>4. "EXIT" \notin Calls
    BY DEF Calls
  <2> QED
    BY <2>2, <2>3, <2>4 DEF Places, CallsOf
<1>5. (IF Postponed(a) THEN 1 ELSE 0) = One(a = "PREPARE_SNAPSHOT" /\ Preparing)
  <2>1. CASE a = "PREPARE_SNAPSHOT"
    <3>1. Queued("PREP_SNAPSHOT_DONE") <=> Places(evt_queue, {"PREP_SNAPSHOT_DONE"}) # {}
      <4>1. DOMAIN evt_queue = 1 .. Len(evt_queue)
        BY DEF TypeOK
      <4> QED
        BY <4>1 DEF Queued, Places
    <3>2. Places(evt_queue, {"PREP_SNAPSHOT_DONE"}) # {} <=>
            Cardinality(Places(evt_queue, {"PREP_SNAPSHOT_DONE"})) # 0
      <4>1. IsFiniteSet(Places(evt_queue, {"PREP_SNAPSHOT_DONE"}))
        BY PlacesFinite DEF TypeOK
      <4> QED
        BY <4>1, FS_EmptySet
    <3>3. (cam.prep \/ Queued("PREP_SNAPSHOT_DONE")) <=> Preparing
      <4>1. Cardinality(Places(evt_queue, {"PREP_SNAPSHOT_DONE"})) \in Nat
        BY CountTypes
      <4> QED
        BY <1>1, <3>1, <3>2, <4>1 DEF PrepareOnce, One
    <3>4. Postponed(a) <=> (cam.prep \/ Queued("PREP_SNAPSHOT_DONE"))
      BY <2>1 DEF Postponed
    <3> QED
      BY <2>1, <3>3, <3>4 DEF One
  <2>2. CASE a = "TAKE_PICTURE"
    <3>1. ~Postponed(a)
      BY <2>2 DEF Postponed, AnswerInv, PlainCalls
    <3> QED
      BY <2>2, <3>1 DEF One
  <2>3. CASE a \notin {"PREPARE_SNAPSHOT", "TAKE_PICTURE"}
    <3>1. ~Postponed(a)
      BY <2>3 DEF Postponed
    <3> QED
      BY <2>3, <3>1 DEF One
  <2> QED
    BY <2>1, <2>2, <2>3
<1>6. Cardinality(Waiting(a)) =
        Cardinality(Places(api_queue, CallsOf(a))) + Cardinality(Places(results, {a}))
          + One(a = "PREPARE_SNAPSHOT" /\ Preparing)
  BY <1>1 DEF AnswersMatch
<1> QED
  BY <1>2, <1>3, <1>4, <1>5, <1>6

\* In worlds without retro pictures, for any number of callers and any sequences of the
\* calls that every state answers: each waiting caller has exactly one call queued, one
\* answer on the list or one that the camera still owes (signalAPIResult, waitAPIResult).
THEOREM EachAnsweredOnce ==
  (\A w \in Worlds : PlainWorld(w)) /\ Spec => []OneAnswerEach
<1>1. (\A w \in Worlds : PlainWorld(w)) /\ Init => AnswerInv
  BY AnswerInit
<1>2. (\A w \in Worlds : PlainWorld(w)) /\ Spec => []AnswerInv
  BY <1>1, AnswerNext, TypesHold, PTL DEF Spec
<1> QED
  BY <1>2, TypesHold, AnswerEach, PTL

=============================================================================
