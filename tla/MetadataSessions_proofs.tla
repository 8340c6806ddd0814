------------------------ MODULE MetadataSessions_proofs ------------------------
(***************************************************************************)
(* What holds of the metadata sessions for any number of sessions, runs    *)
(* and failures: the scratch of a session is not touched before every      *)
(* process that its exchanges started is gone; no session is forgotten by  *)
(* the disposals, which go backwards; and a run publishes only when its    *)
(* sessions were disposed.                                                 *)
(***************************************************************************)
EXTENDS MetadataSessions, SequenceTheorems, TLAPS

-----------------------------------------------------------------------------
(* The invariant. *)

Known  == {s \in Sessions : session[s].state # "Unborn"}
Guests == {s \in Known : session[s].slot \in Embedded}

Frames ==
  [op : {"run"}, run : Nat]
  \cup [op : {"acquire"}, slot : Slots]
  \cup [op : {"exchange"}, session : Known]
  \cup [op : {"cleanup"}, session : Guests]
  \cup [op : {"dispose"}, left : Seq(Known), failed : Seq(Known), finishing : BOOLEAN]
  \cup [op : {"publish"}, run : Nat, clean : BOOLEAN]

(* What a session is, and whose it is, is known to all that name it. *)
StackInv ==
  /\ runs \in Nat
  /\ frames \in Seq(Frames)
  /\ frames # << >> => frames[1].op # "cleanup"
  /\ cleanups \in Seq(Known)

SlotStates == {Empty, Acquiring} \cup [kind : {"Acquired"}, session : Sessions]

SlotInv ==
  /\ slot \in [Slots -> SlotStates]
  /\ \A p \in Slots :
       slot[p].kind = "Acquired" =>
         slot[p].session \in Known /\ session[slot[p].session].slot = p

SessionInv ==
  /\ DOMAIN session = Sessions
  /\ session = [s \in Sessions |-> session[s]]
  /\ \A s \in Sessions :
       \/ session[s] = Unborn
       \/ session[s] \in
            [state : {"Fresh", "Retained", "Refused", "Disposed"},
             unconfirmed : Stages \cup {"none"}, held : BOOLEAN,
             slot : Slots, run : {session[s].run}]

HelperTypes ==
  /\ helper \in [Exchanges -> [at : Points, refused : BOOLEAN, quiescent : BOOLEAN]]
  /\ group \in [Exchanges -> Groups]
  /\ receipt \in [Exchanges -> Receipts \cup {NoReceipt}]

(* A helper that says that the group is gone is right. *)
HelperTruth(x) ==
  /\ helper[x].at \in {"none", "checking"} => group[x] = "none"
  /\ helper[x].quiescent => Quiet(x)
  /\ receipt[x].quiescent => helper[x].at = "gone" /\ Quiet(x)

(* Nothing runs, and nothing will be spawned unless an exchange is begun.  *)
Still(x) == helper[x].at # "checking" /\ Quiet(x)

Asking(s) == Top.op = "exchange" /\ Top.session = s

(* The host looks at one exchange only: the other one is quiet, or was     *)
(* never begun.                                                            *)
Watched(s) ==
  /\ session[s].unconfirmed = "none" => Still(<<s, "probe">>) /\ Still(<<s, "restore">>)
  /\ session[s].unconfirmed = "probe" => helper[<<s, "restore">>].at = "none"
  /\ session[s].unconfirmed = "restore" => Still(<<s, "probe">>)
  /\ \/ session[s].state \in {"Unborn", "Fresh"} /\ ~Asking(s)
     \/ s \in Guests
     =>
       /\ session[s].unconfirmed = "none"
       /\ helper[<<s, "probe">>].at = "none"
       /\ helper[<<s, "restore">>].at = "none"

HelpersInv ==
  /\ HelperTypes
  /\ \A x \in Exchanges : HelperTruth(x)
  /\ \A s \in Sessions : Watched(s)

IInv == StackInv /\ SlotInv /\ SessionInv /\ HelpersInv

-----------------------------------------------------------------------------
(* Sequences. *)

LEMMA InitialParts ==
  ASSUME NEW S, NEW q \in Seq(S), NEW n \in Int, n <= Len(q)
  PROVE  /\ SubSeq(q, 1, n) \in Seq(S)
         /\ Len(SubSeq(q, 1, n)) = IF 1 <= n THEN n ELSE 0
<1>1. \A k \in 1..n : q[k] \in S
  BY ElementOfSeq, LenProperties
<1> QED BY <1>1, SubSeqProperties

LEMMA FrontsOfAny ==
  ASSUME NEW S, NEW q \in Seq(S)
  PROVE  Front(q) \in Seq(S)
<1>1. Len(q) \in Nat
  BY LenProperties
<1> QED BY <1>1, InitialParts DEF Front

LEMMA Fronts ==
  ASSUME NEW S, NEW q \in Seq(S), q # << >>
  PROVE  /\ Front(q) \in Seq(S)
         /\ Last(q) \in S
         /\ Len(Front(q)) = Len(q) - 1
         /\ Len(q) \in Nat \ {0}
<1>1. Len(q) \in Nat \ {0}
  BY EmptySeq
<1>2. Len(q) - 1 \in Nat /\ Len(q) - 1 <= Len(q)
  BY <1>1
<1>3. Front(q) \in Seq(S) /\ Len(Front(q)) = IF 1 <= Len(q) - 1 THEN Len(q) - 1 ELSE 0
  BY <1>2, InitialParts DEF Front
<1>4. Len(Front(q)) = Len(q) - 1
  <2>1. \A n \in Nat \ {0} : (IF 1 <= n - 1 THEN n - 1 ELSE 0) = n - 1
    OBVIOUS
  <2> QED BY <2>1, <1>1, <1>3
<1>5. Last(q) \in S
  BY <1>1, ElementOfSeq DEF Last
<1> QED BY <1>1, <1>3, <1>4, <1>5

LEMMA Pairs ==
  ASSUME NEW S, NEW a \in S, NEW b \in S
  PROVE  <<a, b>> \in Seq(S) /\ Len(<<a, b>>) = 2
  OBVIOUS

LEMMA Reversed ==
  ASSUME NEW S, NEW q \in Seq(S)
  PROVE  Reverse(q) \in Seq(S)
<1>1. Len(q) \in Nat
  BY LenProperties
<1>2. \A k \in 1..Len(q) : q[(Len(q) - k) + 1] \in S
  BY <1>1, ElementOfSeq
<1>3. Reverse(q) \in [1..Len(q) -> S]
  BY <1>2 DEF Reverse
<1> QED BY <1>1, <1>3, SeqDef

-----------------------------------------------------------------------------
(* The stack. *)

LEMMA Tops ==
  ASSUME StackInv
  PROVE  /\ Top.op # "outside" => /\ frames # << >>
                                  /\ Top = Last(frames)
                                  /\ Top \in Frames
                                  /\ Front(frames) \in Seq(Frames)
                                  /\ Len(frames) \in Nat \ {0}
                                  /\ Len(Front(frames)) = Len(frames) - 1
         /\ Top.op = "run" => Top.run \in Nat
         /\ Top.op = "acquire" => Top.slot \in Slots
         /\ Top.op = "exchange" => Top.session \in Known
         /\ Top.op = "cleanup" => Top.session \in Guests
         /\ Top.op = "dispose" =>
              Top \in [op : {"dispose"}, left : Seq(Known), failed : Seq(Known),
                       finishing : BOOLEAN]
<1>1. CASE frames = << >>
  BY <1>1 DEF Top, Outside
<1>2. CASE frames # << >>
  <2>1. /\ Front(frames) \in Seq(Frames) /\ Last(frames) \in Frames
        /\ Len(Front(frames)) = Len(frames) - 1 /\ Len(frames) \in Nat \ {0}
    BY <1>2, Fronts DEF StackInv
  <2>2. Top = Last(frames) /\ Top \in Frames
    BY <1>2, <2>1 DEF Top
  <2> QED BY <1>2, <2>1, <2>2 DEF Frames
<1> QED BY <1>1, <1>2

(* The sessions that are known, and the guests among them, only grow. *)
LEMMA KnownGrows ==
  ASSUME Known \subseteq Known', Guests \subseteq Guests'
  PROVE  /\ Frames \subseteq Frames'
         /\ \A q \in Seq(Known) : q \in Seq(Known')
         /\ \A q \in Seq(Frames) : q \in Seq(Frames')
<1>1. \A q \in Seq(Known) : q \in Seq(Known')
  BY SeqMonotonic
<1>2. Frames \subseteq Frames'
  BY <1>1 DEF Frames
<1> QED BY <1>1, <1>2, SeqMonotonic

LEMMA Pushes ==
  ASSUME StackInv, NEW fr \in Frames', Known \subseteq Known', Guests \subseteq Guests',
         frames' = Append(frames, fr), runs' \in Nat, cleanups' \in Seq(Known'),
         frames = << >> => fr.op # "cleanup"
  PROVE  StackInv'
<1>1. frames \in Seq(Frames')
  BY KnownGrows DEF StackInv
<1>2. frames' \in Seq(Frames') /\ Len(frames) \in Nat
      /\ \A i \in 1..Len(frames) : frames'[i] = frames[i]
      /\ frames'[Len(frames) + 1] = fr
  BY <1>1, AppendProperties, LenProperties
<1>3. frames'[1].op # "cleanup"
  <2>1. CASE frames = << >>
    BY <2>1, <1>2, EmptySeq
  <2>2. CASE frames # << >>
    BY <2>2, <1>1, <1>2, EmptySeq DEF StackInv
  <2> QED BY <2>1, <2>2
<1> QED BY <1>2, <1>3 DEF StackInv

LEMMA Pops ==
  ASSUME StackInv, Top.op # "outside", Known \subseteq Known', Guests \subseteq Guests',
         frames' = Front(frames), runs' \in Nat, cleanups' \in Seq(Known')
  PROVE  StackInv'
<1>1. frames' \in Seq(Frames')
  BY Tops, KnownGrows
<1>2. ASSUME frames' # << >> PROVE frames'[1] = frames[1]
  <2>1. Len(frames') \in Nat \ {0} /\ Len(frames') = Len(frames) - 1
    BY <1>1, <1>2, Tops, EmptySeq
  <2> QED BY <2>1 DEF Front
<1>3. frames # << >>
  BY Tops
<1> QED BY <1>1, <1>2, <1>3 DEF StackInv

LEMMA Swaps ==
  ASSUME StackInv, Top.op # "outside", NEW fr \in Frames', fr.op # "cleanup",
         Known \subseteq Known', Guests \subseteq Guests',
         Becomes(fr), runs' \in Nat, cleanups' \in Seq(Known')
  PROVE  StackInv'
<1> DEFINE rest == Front(frames)
<1>1. rest \in Seq(Frames') /\ Len(rest) = Len(frames) - 1 /\ Len(frames) \in Nat \ {0}
  BY Tops, KnownGrows
<1>2. /\ frames' \in Seq(Frames')
      /\ \A i \in 1..Len(rest) : frames'[i] = rest[i]
      /\ frames'[Len(rest) + 1] = fr
  BY <1>1, AppendProperties DEF Becomes
<1>3. frames'[1].op # "cleanup"
  <2>1. CASE Len(frames) = 1
    BY <2>1, <1>1, <1>2
  <2>2. CASE Len(frames) # 1
    <3>1. 1 \in 1..Len(rest) /\ rest[1] = frames[1]
      BY <2>2, <1>1 DEF Front
    <3> QED BY <3>1, <1>2, Tops DEF StackInv
  <2> QED BY <2>1, <2>2
<1> QED BY <1>2, <1>3 DEF StackInv

-----------------------------------------------------------------------------
(* The helpers. *)

(* What a step of the helpers leaves true of an exchange. *)
LEMMA HelperKeeps ==
  ASSUME HelperTypes, NEW x \in Exchanges, HelperTruth(x), HelperNext(x)
  PROVE  /\ HelperTypes'
         /\ HelperTruth(x)'
         /\ Still(x) => Still(x)'
         /\ helper[x].at # "none"
         /\ \A y \in Exchanges : y # x => /\ helper'[y] = helper[y]
                                         /\ group'[y] = group[y]
                                         /\ receipt'[y] = receipt[y]
<1> USE DEF HelperTypes, HelperTruth, Still, Quiet, Points, Groups
<1>1. CASE Refuse(x)
  BY <1>1 DEF Refuse
<1>2. CASE Spawn(x)
  BY <1>2 DEF Spawn
<1>3. CASE Reclaim(x)
  BY <1>3 DEF Reclaim
<1>4. CASE Confirm(x)
  BY <1>4 DEF Confirm
<1>5. CASE GiveUp(x)
  BY <1>5 DEF GiveUp
<1>6. CASE Report(x)
  <2>1. PICK result \in Results :
          receipt' = [receipt EXCEPT ![x] =
                        [quiescent |-> helper[x].quiescent, result |-> result]]
    BY <1>6 DEF Report
  <2>2. [quiescent |-> helper[x].quiescent, result |-> result] \in Receipts
    BY DEF Receipts
  <2> QED BY <1>6, <2>1, <2>2 DEF Report
<1>7. CASE Exit(x)
  BY <1>7 DEF Exit
<1>8. CASE Stop(x)
  BY <1>8 DEF Stop
<1>9. CASE Die(x)
  BY <1>9 DEF Die
<1>10. CASE Lose(x)
  BY <1>10 DEF Lose
<1> QED BY <1>1, <1>2, <1>3, <1>4, <1>5, <1>6, <1>7, <1>8, <1>9, <1>10
        DEF HelperNext, HelperStep

LEMMA WatchedKept ==
  ASSUME NEW s \in Sessions, session'[s] = session[s], Asking(s) => Asking(s)',
         \A stage \in Stages :
           /\ Still(<<s, stage>>) => Still(<<s, stage>>)'
           /\ helper[<<s, stage>>].at = "none" => helper'[<<s, stage>>].at = "none",
         Watched(s)
  PROVE  Watched(s)'
<1>1. s \in Guests' => s \in Guests
  BY DEF Guests, Known
<1> QED BY <1>1 DEF Watched, Stages

(* A step that leaves the sessions and the helpers alone, outside of an    *)
(* exchange.                                                               *)
LEMMA QuietStep ==
  ASSUME HelpersInv, SessionInv, UNCHANGED <<session, helperVars>>, Top.op # "exchange"
  PROVE  HelpersInv' /\ SessionInv' /\ Known' = Known /\ Guests' = Guests
<1> USE DEF helperVars
<1>1. HelperTypes' /\ \A x \in Exchanges : HelperTruth(x)'
  BY DEF HelpersInv, HelperTypes, HelperTruth, Quiet
<1>2. ASSUME NEW s \in Sessions PROVE Watched(s)'
  BY WatchedKept DEF HelpersInv, Asking, Still, Quiet
<1> QED BY <1>1, <1>2 DEF HelpersInv, SessionInv, Known, Guests

LEMMA ProcessStep ==
  ASSUME IInv, NEW x \in Exchanges, Process(x)
  PROVE  IInv'
<1>1. /\ HelperTypes' /\ HelperTruth(x)'
      /\ Still(x) => Still(x)'
      /\ helper[x].at # "none"
      /\ \A y \in Exchanges : y # x => /\ helper'[y] = helper[y]
                                      /\ group'[y] = group[y]
                                      /\ receipt'[y] = receipt[y]
  BY HelperKeeps DEF IInv, HelpersInv, Process
<1>2. \A y \in Exchanges : HelperTruth(y)'
  BY <1>1 DEF IInv, HelpersInv, HelperTruth, Quiet
<1>3. \A y \in Exchanges : /\ Still(y) => Still(y)'
                           /\ helper[y].at = "none" => helper'[y].at = "none"
  BY <1>1 DEF Still, Quiet
<1>4. ASSUME NEW s \in Sessions PROVE Watched(s)'
  <2>1. \A stage \in Stages : <<s, stage>> \in Exchanges
    BY DEF Exchanges
  <2>2. Asking(s) => Asking(s)'
    BY DEF Process, Asking, Top, Outside
  <2> QED BY <2>1, <2>2, <1>3, WatchedKept DEF Process, IInv, HelpersInv
<1>5. Known' = Known /\ Guests' = Guests /\ Frames' = Frames
  BY DEF Process, Known, Guests, Frames
<1>6. StackInv' /\ SlotInv' /\ SessionInv'
  BY <1>5 DEF Process, IInv, StackInv, SlotInv, SessionInv
<1> QED BY <1>1, <1>2, <1>4, <1>6 DEF IInv, HelpersInv

-----------------------------------------------------------------------------
(* Steps of the host that leave the sessions and the helpers alone. *)

LEMMA BeginStep ==
  ASSUME IInv, Begin
  PROVE  IInv'
<1>1. HelpersInv' /\ SessionInv' /\ Known' = Known /\ Guests' = Guests
  BY QuietStep DEF IInv, Begin, Guest
<1>2. [op |-> "run", run |-> runs + 1] \in Frames'
  BY DEF Frames, IInv, StackInv
<1>3. << >> \in Seq(Known')
  BY EmptySeq
<1>4. StackInv'
  BY <1>1, <1>2, <1>3, Pushes DEF Begin, Call, IInv, StackInv
<1>5. SlotInv'
  BY <1>1 DEF Begin, IInv, SlotInv
<1> QED BY <1>1, <1>4, <1>5 DEF IInv

LEMMA AcquireStep ==
  ASSUME IInv, NEW p \in Slots, Acquire(p)
  PROVE  IInv'
<1>1. HelpersInv' /\ SessionInv' /\ Known' = Known /\ Guests' = Guests
  BY QuietStep DEF IInv, Acquire, Guest
<1>2. [op |-> "acquire", slot |-> p] \in Frames'
  BY DEF Frames
<1>3. StackInv'
  BY <1>1, <1>2, Pushes DEF Acquire, Call, IInv, StackInv
<1>4. SlotInv'
  BY <1>1 DEF Acquire, Acquiring, IInv, SlotInv, SlotStates
<1> QED BY <1>1, <1>3, <1>4 DEF IInv

LEMMA AcquireRaisesStep ==
  ASSUME IInv, AcquireRaises
  PROVE  IInv'
<1>1. HelpersInv' /\ SessionInv' /\ Known' = Known /\ Guests' = Guests
  BY QuietStep DEF IInv, AcquireRaises
<1>2. StackInv'
  BY <1>1, Pops DEF AcquireRaises, Return, IInv, StackInv
<1>3. SlotInv'
  BY <1>1 DEF AcquireRaises, Empty, IInv, SlotInv, SlotStates
<1> QED BY <1>1, <1>2, <1>3 DEF IInv

LEMMA FinishStep ==
  ASSUME IInv, Finish
  PROVE  IInv'
<1>1. HelpersInv' /\ SessionInv' /\ Known' = Known /\ Guests' = Guests
  BY QuietStep DEF IInv, Finish
<1>2. << >> \in Seq(Known') /\ runs' \in Nat
  BY EmptySeq DEF Finish, IInv, StackInv
<1> DEFINE publish == [op |-> "publish", run |-> Top.run, clean |-> FALSE]
           disposal == Disposal(cleanups, TRUE)
           rest == Front(frames)
<1>3. publish \in Frames' /\ disposal \in Frames'
  BY <1>1, <1>2, Tops DEF Frames, IInv, StackInv, Finish, Disposal
<1>4. rest \in Seq(Frames') /\ Len(rest) \in Nat
  BY <1>1, Tops, KnownGrows, LenProperties DEF IInv, Finish
<1>5. <<publish, disposal>> \in Seq(Frames') /\ Len(<<publish, disposal>>) = 2
  <2> HIDE DEF publish, disposal
  <2> QED BY <1>3, Pairs
<1>6. /\ frames' \in Seq(Frames')
      /\ \A i \in 1..(Len(rest) + 2) :
           frames'[i] = IF i <= Len(rest) THEN rest[i] ELSE <<publish, disposal>>[i - Len(rest)]
  <2>1. frames' = rest \o <<publish, disposal>>
    BY DEF Finish
  <2> HIDE DEF rest, publish, disposal
  <2> QED BY <2>1, <1>4, <1>5, ConcatProperties
<1>7. frames'[1].op # "cleanup"
  <2>1. CASE Len(rest) = 0
    <3>1. frames'[1] = publish
      BY <1>6, <2>1
    <3> QED BY <3>1
  <2>2. CASE Len(rest) # 0
    <3>1. 1 <= Len(rest) /\ rest[1] = frames[1]
      BY <2>2, <1>4, Tops DEF Front, IInv, Finish
    <3>2. frames'[1] = rest[1]
      BY <1>4, <1>6, <3>1
    <3> QED BY <3>1, <3>2, Tops DEF IInv, StackInv, Finish
  <2> QED BY <2>1, <2>2
<1>8. StackInv'
  BY <1>2, <1>6, <1>7 DEF StackInv, Finish
<1>9. SlotInv'
  BY <1>1 DEF Finish, IInv, SlotInv
<1> QED BY <1>1, <1>8, <1>9 DEF IInv

LEMMA RetryStep ==
  ASSUME IInv, Retry
  PROVE  IInv'
<1>1. HelpersInv' /\ SessionInv' /\ Known' = Known /\ Guests' = Guests
  BY QuietStep DEF IInv, Retry, Guest
<1>2. << >> \in Seq(Known) /\ runs' \in Nat
  BY EmptySeq DEF Retry, IInv, StackInv
<1>3. Disposal(cleanups, FALSE) \in Frames'
  BY <1>1, <1>2 DEF Frames, IInv, StackInv, Disposal
<1>4. Disposal(cleanups, FALSE).op # "cleanup"
  BY DEF Disposal
<1>5. StackInv'
  BY <1>1, <1>2, <1>3, <1>4, Pushes DEF Retry, Call, IInv
<1>6. SlotInv'
  BY <1>1 DEF Retry, IInv, SlotInv
<1> QED BY <1>1, <1>5, <1>6 DEF IInv

LEMMA PublishStep ==
  ASSUME IInv, Publish
  PROVE  IInv'
<1>1. HelpersInv' /\ SessionInv' /\ Known' = Known /\ Guests' = Guests
  BY QuietStep DEF IInv, Publish
<1>2. Frames' = Frames
  BY DEF Frames, Known, Guests, Publish
<1> QED BY <1>1, <1>2 DEF Publish, IInv, StackInv, SlotInv

LEMMA RunReturnsStep ==
  ASSUME IInv, RunReturns
  PROVE  IInv'
<1>1. HelpersInv' /\ SessionInv' /\ Known' = Known /\ Guests' = Guests
  BY QuietStep DEF IInv, RunReturns
<1>2. StackInv'
  BY <1>1, Pops DEF RunReturns, Return, IInv, StackInv
<1>3. SlotInv'
  BY <1>1 DEF RunReturns, IInv, SlotInv
<1> QED BY <1>1, <1>2, <1>3 DEF IInv

(* The outcome of a disposal is told to the frame below. *)
LEMMA Told ==
  ASSUME NEW fr \in Frames, NEW clean \in BOOLEAN
  PROVE  [fr EXCEPT !.clean = clean] \in Frames /\ [fr EXCEPT !.clean = clean].op = fr.op
  BY DEF Frames

LEMMA DisposeEndsStep ==
  ASSUME IInv, DisposeEnds
  PROVE  IInv'
<1>1. HelpersInv' /\ SessionInv' /\ Known' = Known /\ Guests' = Guests
  BY QuietStep DEF IInv, DisposeEnds
<1>2. Frames' = Frames
  BY DEF Frames, Known, Guests, DisposeEnds
<1>3. cleanups' \in Seq(Known') /\ runs' \in Nat /\ Top.op = "dispose" /\ StackInv
  BY <1>1, Tops, Reversed DEF DisposeEnds, Kept, IInv, StackInv
<1> DEFINE rest == Front(frames)
           clean == Top.failed = << >>
<1>4. /\ rest \in Seq(Frames) /\ Len(rest) \in Nat /\ Len(rest) = Len(frames) - 1
      /\ Len(frames) \in Nat \ {0}
  BY Tops, LenProperties DEF IInv, DisposeEnds
<1>5. StackInv'
  <2>1. CASE Top.finishing
    <3>1. frames' = [rest EXCEPT ![Len(rest)].clean = clean]
      BY <1>4, <2>1 DEF DisposeEnds
    <3> HIDE DEF rest, clean
    <3>2. CASE Len(rest) = 0
      <4>1. frames' = rest
        BY <3>1, <3>2, <1>4, LenProperties
      <4> QED BY <4>1, <1>1, <1>3, Pops DEF rest
    <3>3. CASE Len(rest) # 0
      <4>1. Len(rest) \in 1..Len(rest) /\ 1 \in 1..Len(rest)
        BY <3>3, <1>4
      <4>2. rest[Len(rest)] \in Frames
        BY <4>1, <1>4, ElementOfSeq
      <4> DEFINE fr == [rest[Len(rest)] EXCEPT !.clean = clean]
      <4>3. fr \in Frames /\ fr.op = rest[Len(rest)].op
        BY <4>2, Told DEF clean
      <4>4. frames' = [rest EXCEPT ![Len(rest)] = fr]
        BY <3>1
      <4> HIDE DEF fr
      <4>5. /\ frames' \in Seq(Frames)
            /\ \A j \in 1..Len(rest) : frames'[j] = IF j = Len(rest) THEN fr ELSE rest[j]
        BY <4>1, <4>3, <4>4, <1>4, ExceptSeq
      <4>6. frames'[1].op = rest[1].op
        BY <4>1, <4>3, <4>5
      <4>7. rest[1] = frames[1]
        BY <4>1, <1>4 DEF rest, Front
      <4>8. frames[1].op # "cleanup"
        BY <1>3, Tops DEF StackInv
      <4> QED BY <4>5, <4>6, <4>7, <4>8, <1>2, <1>3 DEF StackInv
    <3> QED BY <3>2, <3>3
  <2>2. CASE ~Top.finishing
    <3>1. frames' = Front(frames)
      BY <2>2 DEF DisposeEnds
    <3> QED BY <3>1, <1>1, <1>3, Pops
  <2> QED BY <2>1, <2>2
<1>7. SlotInv'
  BY <1>1 DEF DisposeEnds, IInv, SlotInv
<1> QED BY <1>1, <1>5, <1>7 DEF IInv

-----------------------------------------------------------------------------
(* Steps of the host that change a session. *)

(* What is true of every session but one, which a step may change. *)
Others(s) ==
  /\ DOMAIN session' = Sessions /\ session' = [r \in Sessions |-> session'[r]]
  /\ \A r \in Sessions \ {s} : session'[r] = session[r]

LEMMA AcquireReturnsStep ==
  ASSUME IInv, AcquireReturns
  PROVE  IInv'
<1>1. PICK s \in Sessions : /\ session[s] = Unborn
                            /\ slot' = [slot EXCEPT ![Top.slot] = Acquired(s)]
                            /\ session' = [session EXCEPT ![s] = Fresh(Top.slot, Run)]
                            /\ cleanups' = Append(cleanups, s)
  BY DEF AcquireReturns, Newest
<1>2. Top.op = "acquire" /\ Top.slot \in Slots
  BY Tops DEF IInv, AcquireReturns
<1>3. Others(s) /\ session'[s] = Fresh(Top.slot, Run)
  BY <1>1 DEF IInv, SessionInv, Others
<1>4. Known' = Known \cup {s} /\ s \notin Known
  BY <1>1, <1>3 DEF Known, Others, Fresh, Unborn
<1>5. Guests \subseteq Guests' /\ Guests' \subseteq Guests \cup {s}
  BY <1>1, <1>3, <1>4 DEF Guests, Known, Others
<1>6. SessionInv'
  <2>1. ASSUME NEW r \in Sessions, r # s
        PROVE  session'[r] = session[r]
    BY <2>1, <1>3 DEF Others
  <2>2. session'[s] \in [state : {"Fresh"}, unconfirmed : {"none"}, held : BOOLEAN,
                          slot : Slots, run : {session'[s].run}]
    BY <1>2, <1>3 DEF Fresh
  <2> QED BY <2>1, <2>2, <1>3 DEF IInv, SessionInv, Others
<1>7. SlotInv'
  <2>1. slot' \in [Slots -> SlotStates]
    BY <1>1, <1>2 DEF IInv, SlotInv, SlotStates, Acquired
  <2>2. ASSUME NEW p \in Slots, slot'[p].kind = "Acquired"
        PROVE  slot'[p].session \in Known' /\ session'[slot'[p].session].slot = p
    <3>1. CASE p = Top.slot
      BY <3>1, <1>1, <1>2, <1>3, <1>4 DEF IInv, SlotInv, Acquired, Fresh
    <3>2. CASE p # Top.slot
      <4>1. slot'[p] = slot[p] /\ slot[p].session \in Known
        BY <2>2, <3>2, <1>1, <1>2 DEF IInv, SlotInv
      <4>2. slot[p].session # s /\ slot[p].session \in Sessions
        BY <4>1, <1>4 DEF Known
      <4> QED BY <2>2, <4>1, <4>2, <1>3, <1>4 DEF IInv, SlotInv, Others
    <3> QED BY <3>1, <3>2
  <2> QED BY <2>1, <2>2 DEF SlotInv
<1>8. StackInv'
  <2>1. cleanups' \in Seq(Known')
    <3>1. cleanups \in Seq(Known') /\ s \in Known'
      BY <1>4, <1>5, KnownGrows DEF IInv, StackInv
    <3> QED BY <3>1, <1>1, AppendProperties
  <2>2. frames' = Front(frames) /\ runs' \in Nat
    BY DEF AcquireReturns, Return, IInv, StackInv
  <2> QED BY <2>1, <2>2, <1>2, <1>4, <1>5, Pops DEF IInv
<1>9. HelpersInv'
  <2> USE DEF helperVars
  <2>1. HelperTypes' /\ \A x \in Exchanges : HelperTruth(x)'
    BY DEF AcquireReturns, IInv, HelpersInv, HelperTypes, HelperTruth, Quiet
  <2>2. ASSUME NEW r \in Sessions, r # s PROVE Watched(r)'
    BY <2>2, <1>2, <1>3, WatchedKept DEF AcquireReturns, IInv, HelpersInv, Asking, Still, Quiet, Others
  <2>3. Watched(s)'
    <3>1. /\ helper[<<s, "probe">>].at = "none"
          /\ helper[<<s, "restore">>].at = "none"
      BY <1>1, <1>2 DEF IInv, HelpersInv, Watched, Unborn, Asking
    <3>2. Still(<<s, "probe">>) /\ Still(<<s, "restore">>)
      BY <3>1 DEF IInv, HelpersInv, HelperTruth, Still, Quiet, Exchanges, Stages
    <3> QED BY <3>1, <3>2, <1>3 DEF AcquireReturns, Watched, Fresh, Still, Quiet
  <2> QED BY <2>1, <2>2, <2>3 DEF HelpersInv
<1> QED BY <1>6, <1>7, <1>8, <1>9 DEF IInv

(* A known session keeps its slot and its run. *)
Altered(s) ==
  [state : {"Fresh", "Retained", "Refused", "Disposed"},
   unconfirmed : Stages \cup {"none"}, held : BOOLEAN,
   slot : {session[s].slot}, run : {session[s].run}]

LEMMA KnownSession ==
  ASSUME SessionInv, NEW s \in Known
  PROVE  /\ s \in Sessions
         /\ session[s] \in Altered(s)
         /\ session[s].slot \in Slots
<1>1. s \in Sessions /\ session[s] # Unborn
  BY DEF Known, Unborn
<1>2. session[s] \in [state : {"Fresh", "Retained", "Refused", "Disposed"},
                      unconfirmed : Stages \cup {"none"}, held : BOOLEAN,
                      slot : Slots, run : {session[s].run}]
  BY <1>1 DEF SessionInv
<1>3. session[s].slot \in Slots
  BY <1>2
<1>4. session[s] \in Altered(s)
  BY <1>2 DEF Altered
<1> QED BY <1>1, <1>3, <1>4

LEMMA Alters ==
  ASSUME SessionInv, NEW s \in Known, NEW value \in Altered(s),
         session' = [session EXCEPT ![s] = value]
  PROVE  /\ Others(s) /\ session'[s] = value
         /\ SessionInv' /\ Known' = Known /\ Guests' = Guests
         /\ \A r \in Sessions : session'[r].slot = session[r].slot
<1>1. s \in Sessions /\ session[s] \in Altered(s) /\ session[s].slot \in Slots
  BY KnownSession
<1>2. Others(s) /\ session'[s] = value
  BY <1>1 DEF SessionInv, Others
<1>3. value.state # "Unborn" /\ value.slot = session[s].slot /\ value.run = session[s].run
  BY DEF Altered
<1>4. Known' = Known
  BY <1>1, <1>2, <1>3 DEF Known, Others
<1>5. \A r \in Sessions : session'[r].slot = session[r].slot
  BY <1>1, <1>2, <1>3 DEF Others
<1>6. Guests' = Guests
  BY <1>4, <1>5 DEF Guests, Known
<1>7. SessionInv'
  <2>1. session'[s] \in [state : {"Fresh", "Retained", "Refused", "Disposed"},
                          unconfirmed : Stages \cup {"none"}, held : BOOLEAN,
                          slot : Slots, run : {session'[s].run}]
    BY <1>1, <1>2, <1>3 DEF Altered
  <2>2. \A r \in Sessions \ {s} : session'[r] = session[r]
    BY <1>2 DEF Others
  <2> QED BY <2>1, <2>2, <1>2 DEF SessionInv, Others
<1> QED BY <1>2, <1>4, <1>5, <1>6, <1>7

LEMMA SlotsKept ==
  ASSUME SlotInv, Known' = Known, slot' = slot,
         \A r \in Sessions : session'[r].slot = session[r].slot
  PROVE  SlotInv'
<1>1. ASSUME NEW p \in Slots, slot[p].kind = "Acquired"
      PROVE  slot[p].session \in Known' /\ session'[slot[p].session].slot = p
  BY <1>1 DEF SlotInv, Known
<1> QED BY <1>1 DEF SlotInv

(* An exchange that is begun was not begun before. *)
LEMMA Starts ==
  ASSUME HelpersInv, NEW x \in Exchanges, Start(x)
  PROVE  /\ HelperTypes'
         /\ \A y \in Exchanges : HelperTruth(y)'
         /\ \A y \in Exchanges : y # x => helper'[y] = helper[y]
         /\ \A y \in Exchanges : y # x /\ Still(y) => Still(y)'
<1>1. helper' = [helper EXCEPT ![x].at = "checking"] /\ UNCHANGED <<group, receipt>>
  BY DEF Start
<1>2. HelperTypes'
  BY <1>1 DEF HelpersInv, HelperTypes, Points
<1>3. ASSUME NEW y \in Exchanges, y # x PROVE helper'[y] = helper[y]
  BY <1>1, <1>3 DEF HelpersInv, HelperTypes
<1>4. HelperTruth(x)'
  BY <1>1 DEF HelpersInv, HelperTypes, HelperTruth, Quiet, Start
<1>5. \A y \in Exchanges : HelperTruth(y)'
  BY <1>1, <1>3, <1>4 DEF HelpersInv, HelperTruth, Quiet
<1>6. \A y \in Exchanges : y # x /\ Still(y) => Still(y)'
  BY <1>1, <1>3 DEF Still, Quiet
<1> QED BY <1>2, <1>3, <1>5, <1>6

LEMMA RestoreStep ==
  ASSUME IInv, NEW p \in Slots, Restore(p)
  PROVE  IInv'
<1> DEFINE s == slot[p].session
<1>1. /\ s \in Known /\ s \in Sessions /\ s \notin Guests
      /\ session[s] \in Altered(s) /\ session[s].state = "Fresh"
  BY KnownSession DEF Restore, IInv, SlotInv, Guests
<1>2. Top.op # "exchange" /\ frames \in Seq(Frames) /\ cleanups \in Seq(Known)
      /\ runs \in Nat /\ UNCHANGED <<runs, cleanups, slot>>
  BY DEF Restore, Guest, IInv, StackInv
<1>3. /\ session[s].unconfirmed = "none"
      /\ helper[<<s, "probe">>].at = "none"
      /\ helper[<<s, "restore">>].at = "none"
  BY <1>1, <1>2 DEF IInv, HelpersInv, Watched, Asking
<1>4. Still(<<s, "probe">>) /\ Still(<<s, "restore">>)
      /\ <<s, "probe">> \in Exchanges /\ <<s, "restore">> \in Exchanges
  BY <1>1, <1>3 DEF IInv, HelpersInv, HelperTruth, Still, Quiet, Exchanges, Stages
<1> HIDE DEF s
<1>5. CASE Launch(s, "probe") /\ Call([op |-> "exchange", session |-> s])
  <2>1. session' = [session EXCEPT ![s] = [session[s] EXCEPT !.unconfirmed = "probe"]]
    BY <1>5 DEF Launch
  <2>2. [session[s] EXCEPT !.unconfirmed = "probe"] \in Altered(s)
    BY <1>1 DEF Altered, Stages
  <2>3. /\ Others(s) /\ session'[s] = [session[s] EXCEPT !.unconfirmed = "probe"]
        /\ SessionInv' /\ Known' = Known /\ Guests' = Guests
        /\ \A r \in Sessions : session'[r].slot = session[r].slot
    BY <2>1, <2>2, <1>1, Alters DEF IInv
  <2>4. [op |-> "exchange", session |-> s] \in Frames'
    BY <1>1, <2>3 DEF Frames
  <2>5. StackInv'
    BY <2>3, <2>4, <1>2, <1>5, Pushes DEF Call, IInv
  <2>6. SlotInv'
    BY <2>3, <1>2, SlotsKept DEF IInv
  <2>7. /\ HelperTypes' /\ \A y \in Exchanges : HelperTruth(y)'
        /\ \A y \in Exchanges : y # <<s, "probe">> => helper'[y] = helper[y]
        /\ \A y \in Exchanges : y # <<s, "probe">> /\ Still(y) => Still(y)'
    BY <1>4, <1>5, Starts DEF IInv, HelpersInv, Launch
  <2>8. Top' = [op |-> "exchange", session |-> s]
    <3>1. frames' = Append(frames, [op |-> "exchange", session |-> s])
      BY <1>5 DEF Call
    <3>2. frames' # << >> /\ Last(frames') = [op |-> "exchange", session |-> s]
      BY <3>1, <1>2, <2>3, <2>4, KnownGrows, AppendProperties DEF Last
    <3> QED BY <3>2 DEF Top
  <2>9. ASSUME NEW r \in Sessions PROVE Watched(r)'
    <3>1. CASE r = s
      BY <3>1, <1>1, <1>3, <1>4, <2>3, <2>7, <2>8 DEF Watched, Asking
    <3>2. CASE r # s
      <4>1. session'[r] = session[r] /\ ~Asking(r)
        BY <3>2, <2>3, <1>2 DEF Others, Asking
      <4>2. ASSUME NEW stage \in Stages
            PROVE  <<r, stage>> \in Exchanges /\ <<r, stage>> # <<s, "probe">>
        BY <3>2 DEF Exchanges
      <4> QED BY <4>1, <4>2, <2>7, WatchedKept DEF IInv, HelpersInv
    <3> QED BY <3>1, <3>2
  <2> QED BY <2>3, <2>5, <2>6, <2>7, <2>9 DEF IInv, HelpersInv
<1>6. CASE (Refused(s) \/ Unstarted(s, "probe")) /\ UNCHANGED frames
  <2>1. PICK stage \in {"none", "probe"} :
          session' = [session EXCEPT ![s] =
                        [session[s] EXCEPT !.unconfirmed = stage, !.state = "Refused"]]
    <3>1. CASE Refused(s)
      <4>1. [session[s] EXCEPT !.state = "Refused"]
              = [session[s] EXCEPT !.unconfirmed = "none", !.state = "Refused"]
        BY <1>1, <1>3 DEF Altered
      <4> QED BY <4>1, <3>1 DEF Refused
    <3>2. CASE Unstarted(s, "probe")
      BY <3>2 DEF Unstarted
    <3> QED BY <3>1, <3>2, <1>6
  <2> DEFINE value == [session[s] EXCEPT !.unconfirmed = stage, !.state = "Refused"]
  <2>2. value \in Altered(s)
    BY <1>1 DEF Altered, Stages
  <2>3. /\ Others(s) /\ session'[s] = value
        /\ SessionInv' /\ Known' = Known /\ Guests' = Guests
        /\ \A r \in Sessions : session'[r].slot = session[r].slot
    <3> HIDE DEF value
    <3>1. session' = [session EXCEPT ![s] = value]
      BY <2>1 DEF value
    <3> QED BY <3>1, <2>2, <1>1, Alters DEF IInv
  <2>4. UNCHANGED <<helper, group, receipt, frames>>
    BY <1>6 DEF Refused, Unstarted, helperVars
  <2>5. Frames' = Frames
    BY <2>3 DEF Frames
  <2>6. StackInv' /\ SlotInv'
    BY <2>3, <2>4, <2>5, <1>2, SlotsKept DEF IInv, StackInv
  <2>7. HelperTypes' /\ \A x \in Exchanges : HelperTruth(x)'
    BY <2>4 DEF IInv, HelpersInv, HelperTypes, HelperTruth, Quiet
  <2>8. ASSUME NEW r \in Sessions PROVE Watched(r)'
    <3>1. CASE r = s
      BY <3>1, <1>1, <1>3, <1>4, <2>3, <2>4, <2>2 DEF Watched, Still, Quiet, Altered
    <3>2. CASE r # s
      <4>1. session'[r] = session[r] /\ ~Asking(r)
        BY <3>2, <2>3, <1>2 DEF Others, Asking
      <4> QED BY <4>1, <2>4, WatchedKept DEF IInv, HelpersInv, Still, Quiet
    <3> QED BY <3>1, <3>2
  <2> QED BY <2>3, <2>6, <2>7, <2>8 DEF IInv, HelpersInv
<1> QED BY <1>5, <1>6 DEF Restore, s

LEMMA AnswerStep ==
  ASSUME IInv, Answer
  PROVE  IInv'
<1>0. PICK s \in Known : s = Top.session
  BY Tops DEF Answer, IInv
<1>1. PICK stage \in Stages :
        LET heard == receipt[<<s, stage>>]
            seen  == [session[s] EXCEPT !.unconfirmed =
                        IF heard.quiescent THEN "none" ELSE stage]
        IN /\ stage = session[s].unconfirmed
           /\ helper[<<s, stage>>].at = "gone"
           /\ \/ /\ \E known \in {session[s], seen} :
                       session' = [session EXCEPT ![s] = [known EXCEPT !.state = "Refused"]]
                 /\ Return
                 /\ UNCHANGED helperVars
              \/ /\ heard.quiescent
                 /\ \/ /\ stage = "probe"
                       /\ Launch(s, "restore")
                       /\ UNCHANGED frames
                    \/ /\ stage = "probe"
                       /\ Unstarted(s, "restore")
                       /\ Return
                    \/ /\ session' = [session EXCEPT ![s] = [seen EXCEPT !.state = "Retained"]]
                       /\ Return
                       /\ UNCHANGED helperVars
  BY <1>0 DEF Answer, Answered
<1>2. /\ s \in Known /\ s \in Sessions /\ session[s] \in Altered(s)
      /\ Top.op = "exchange"
      /\ StackInv /\ frames \in Seq(Frames) /\ cleanups \in Seq(Known) /\ runs \in Nat
      /\ UNCHANGED <<runs, cleanups, slot>>
  BY KnownSession DEF Answer, IInv, StackInv
<1>3. s \notin Guests
  BY <1>1, <1>2 DEF IInv, HelpersInv, Watched, Stages
<1>4. <<s, "probe">> \in Exchanges /\ <<s, "restore">> \in Exchanges
  BY <1>2 DEF Exchanges, Stages
<1>5. /\ stage = "probe" => helper[<<s, "restore">>].at = "none" /\ Still(<<s, "restore">>)
      /\ stage = "restore" => Still(<<s, "probe">>)
      /\ receipt[<<s, stage>>].quiescent => Still(<<s, stage>>)
      /\ receipt[<<s, stage>>].quiescent \in BOOLEAN
  <2>1. HelperTruth(<<s, "probe">>) /\ HelperTruth(<<s, "restore">>) /\ Watched(s)
    BY <1>2, <1>4 DEF IInv, HelpersInv
  <2>2. stage \in {"probe", "restore"} /\ helper[<<s, stage>>].at = "gone"
        /\ stage = session[s].unconfirmed
    BY <1>1 DEF Stages
  <2>3. receipt[<<s, stage>>] \in Receipts \cup {NoReceipt}
    BY <1>4, <2>2 DEF IInv, HelpersInv, HelperTypes
  <2>4. receipt[<<s, stage>>].quiescent \in BOOLEAN
    <3>1. CASE receipt[<<s, stage>>] = NoReceipt
      BY <3>1 DEF NoReceipt
    <3>2. CASE receipt[<<s, stage>>] \in Receipts
      <4> DEFINE heard == receipt[<<s, stage>>]
      <4>1. heard \in [quiescent : BOOLEAN, result : Results]
        BY <3>2 DEF Receipts
      <4> HIDE DEF heard
      <4>2. heard.quiescent \in BOOLEAN
        BY <4>1
      <4> QED BY <4>2 DEF heard
    <3> QED BY <2>3, <3>1, <3>2
  <2>5. receipt[<<s, stage>>].quiescent => Still(<<s, stage>>)
    BY <2>1, <2>2 DEF HelperTruth, Still
  <2>6. stage = "restore" => Still(<<s, "probe">>)
    BY <2>1, <2>2 DEF Watched
  <2>7. stage = "probe" => helper[<<s, "restore">>].at = "none" /\ Still(<<s, "restore">>)
    BY <2>1, <2>2 DEF Watched, HelperTruth, Still, Quiet
  <2> QED BY <2>4, <2>5, <2>6, <2>7
<1>6. CASE stage = "probe" /\ receipt[<<s, stage>>].quiescent /\ Launch(s, "restore")
           /\ UNCHANGED frames
  <2> DEFINE value == [session[s] EXCEPT !.unconfirmed = "restore"]
  <2>1. session' = [session EXCEPT ![s] = value]
    BY <1>6 DEF Launch
  <2>2. value \in Altered(s)
    BY <1>2 DEF Altered, Stages
  <2>3. /\ Others(s) /\ session'[s] = value
        /\ SessionInv' /\ Known' = Known /\ Guests' = Guests
        /\ \A r \in Sessions : session'[r].slot = session[r].slot
    BY <2>1, <2>2, <1>2, Alters DEF IInv
  <2>4. Frames' = Frames
    BY <2>3 DEF Frames
  <2>5. StackInv' /\ SlotInv'
    BY <2>3, <2>4, <1>2, <1>6, SlotsKept DEF IInv, StackInv
  <2>6. /\ HelperTypes' /\ \A y \in Exchanges : HelperTruth(y)'
        /\ \A y \in Exchanges : y # <<s, "restore">> => helper'[y] = helper[y]
        /\ \A y \in Exchanges : y # <<s, "restore">> /\ Still(y) => Still(y)'
    BY <1>4, <1>6, Starts DEF IInv, HelpersInv, Launch
  <2>7. ASSUME NEW r \in Sessions PROVE Watched(r)'
    <3>1. CASE r = s
      <4>1. Top' = Top /\ s = Top.session
        BY <1>0, <1>6 DEF Top, Outside
      <4>2. Asking(s)'
        BY <4>1, <1>2 DEF Asking
      <4> QED BY <3>1, <4>2, <1>3, <1>4, <1>5, <1>6, <2>3, <2>6 DEF Watched
    <3>2. CASE r # s
      <4>1. session'[r] = session[r] /\ ~Asking(r)
        BY <3>2, <2>3, <1>0 DEF Others, Asking
      <4>2. ASSUME NEW other \in Stages
            PROVE  <<r, other>> \in Exchanges /\ <<r, other>> # <<s, "restore">>
        BY <3>2 DEF Exchanges
      <4> QED BY <4>1, <4>2, <2>6, WatchedKept DEF IInv, HelpersInv
    <3> QED BY <3>1, <3>2
  <2> QED BY <2>3, <2>5, <2>6, <2>7 DEF IInv, HelpersInv
<1>7. ASSUME NEW known \in {"none", "probe", "restore"}, NEW state \in {"Refused", "Retained"},
             session' = [session EXCEPT ![s] =
                           [session[s] EXCEPT !.unconfirmed = known, !.state = state]],
             \/ known = stage
             \/ known = "none" /\ receipt[<<s, stage>>].quiescent
             \/ known = "restore" /\ stage = "probe" /\ receipt[<<s, stage>>].quiescent,
             UNCHANGED helperVars, Return
      PROVE  IInv'
  <2> DEFINE value == [session[s] EXCEPT !.unconfirmed = known, !.state = state]
  <2>1. value \in Altered(s)
    BY <1>2 DEF Altered, Stages
  <2>2. /\ Others(s) /\ session'[s] = value
        /\ SessionInv' /\ Known' = Known /\ Guests' = Guests
        /\ \A r \in Sessions : session'[r].slot = session[r].slot
    <3> HIDE DEF value
    <3>1. session' = [session EXCEPT ![s] = value]
      BY <1>7 DEF value
    <3> QED BY <3>1, <2>1, <1>2, Alters DEF IInv
  <2>3. UNCHANGED <<helper, group, receipt>>
    BY <1>7 DEF helperVars
  <2>4. StackInv' /\ SlotInv'
    BY <2>2, <1>2, <1>7, Pops, SlotsKept DEF IInv, Return
  <2>5. HelperTypes' /\ \A x \in Exchanges : HelperTruth(x)'
    BY <2>3 DEF IInv, HelpersInv, HelperTypes, HelperTruth, Quiet
  <2>6. ASSUME NEW r \in Sessions PROVE Watched(r)'
    <3>1. CASE r = s
      <4>1. session'[s].unconfirmed = known /\ session'[s].state = state
        BY <2>1, <2>2 DEF Altered
      <4>2. /\ known = "none" => Still(<<s, "probe">>) /\ Still(<<s, "restore">>)
            /\ known = "probe" => helper[<<s, "restore">>].at = "none"
            /\ known = "restore" => Still(<<s, "probe">>)
        BY <1>5, <1>7 DEF Stages
      <4>3. \A x \in Exchanges : Still(x)' <=> Still(x)
        BY <2>3 DEF Still, Quiet
      <4> QED BY <3>1, <4>1, <4>2, <4>3, <1>3, <1>4, <2>2, <2>3 DEF Watched
    <3>2. CASE r # s
      <4>1. session'[r] = session[r] /\ ~Asking(r)
        BY <3>2, <2>2, <1>0 DEF Others, Asking
      <4> QED BY <4>1, <2>3, WatchedKept DEF IInv, HelpersInv, Still, Quiet
    <3> QED BY <3>1, <3>2
  <2> QED BY <2>2, <2>4, <2>5, <2>6 DEF IInv, HelpersInv
<1>8. \/ stage = "probe" /\ receipt[<<s, stage>>].quiescent /\ Launch(s, "restore")
        /\ UNCHANGED frames
      \/ \E known \in {"none", "probe", "restore"}, state \in {"Refused", "Retained"} :
           /\ session' = [session EXCEPT ![s] =
                            [session[s] EXCEPT !.unconfirmed = known, !.state = state]]
           /\ \/ known = stage
              \/ known = "none" /\ receipt[<<s, stage>>].quiescent
              \/ known = "restore" /\ stage = "probe" /\ receipt[<<s, stage>>].quiescent
           /\ UNCHANGED helperVars
           /\ Return
  <2>1. /\ [session[s] EXCEPT !.unconfirmed = stage] = session[s]
        /\ stage \in {"probe", "restore"}
    BY <1>1, <1>2 DEF Altered, Stages
  <2>2. CASE UNCHANGED helperVars /\ Return
             /\ \E known \in {session[s], [session[s] EXCEPT !.unconfirmed =
                              IF receipt[<<s, stage>>].quiescent THEN "none" ELSE stage]} :
                  session' = [session EXCEPT ![s] = [known EXCEPT !.state = "Refused"]]
    <3>1. CASE session' = [session EXCEPT ![s] =
                             [session[s] EXCEPT !.unconfirmed = stage, !.state = "Refused"]]
      BY <3>1, <2>1, <2>2
    <3>2. CASE /\ receipt[<<s, stage>>].quiescent
               /\ session' = [session EXCEPT ![s] =
                                [session[s] EXCEPT !.unconfirmed = "none", !.state = "Refused"]]
      BY <3>2, <2>2
    <3> QED BY <3>1, <3>2, <2>1, <2>2
  <2>3. CASE /\ stage = "probe" /\ receipt[<<s, stage>>].quiescent
             /\ Unstarted(s, "restore") /\ Return
    BY <2>3 DEF Unstarted
  <2>4. CASE /\ receipt[<<s, stage>>].quiescent
             /\ session' = [session EXCEPT ![s] =
                              [session[s] EXCEPT !.unconfirmed = "none", !.state = "Retained"]]
             /\ Return /\ UNCHANGED helperVars
    BY <2>4
  <2> QED BY <1>1, <2>2, <2>3, <2>4
<1> QED BY <1>6, <1>7, <1>8

-----------------------------------------------------------------------------
(* Disposal. *)

(* What is known to have ended has ended. *)
LEMMA ConfirmedIsStill ==
  ASSUME HelpersInv, SessionInv, NEW s \in Known, Confirmed(s)
  PROVE  Still(<<s, "probe">>) /\ Still(<<s, "restore">>)
<1>1. /\ HelperTruth(<<s, "probe">>) /\ HelperTruth(<<s, "restore">>) /\ Watched(s)
  <2>1. s \in Sessions /\ <<s, "probe">> \in Exchanges /\ <<s, "restore">> \in Exchanges
    BY DEF Known, Exchanges, Stages
  <2> QED BY <2>1 DEF HelpersInv
<1>2. session[s].unconfirmed \in {"none", "probe", "restore"}
  BY KnownSession DEF Altered, Stages
<1>3. CASE session[s].unconfirmed = "none"
  BY <1>1, <1>3 DEF Watched
<1>4. CASE session[s].unconfirmed = "probe"
  BY <1>1, <1>4 DEF Confirmed, Watched, HelperTruth, Still, Quiet
<1>5. CASE session[s].unconfirmed = "restore"
  BY <1>1, <1>5 DEF Confirmed, Watched, HelperTruth, Still, Quiet
<1> QED BY <1>2, <1>3, <1>4, <1>5

(* Receipts that are gone say nothing. *)
LEMMA Forgets ==
  ASSUME HelpersInv, UNCHANGED <<helper, group>>,
         receipt' \in [Exchanges -> Receipts \cup {NoReceipt}],
         \A x \in Exchanges : receipt'[x] \in {receipt[x], NoReceipt}
  PROVE  HelperTypes' /\ \A x \in Exchanges : HelperTruth(x)'
<1>1. HelperTypes'
  BY DEF HelpersInv, HelperTypes
<1>2. ASSUME NEW x \in Exchanges PROVE HelperTruth(x)'
  <2>1. CASE receipt'[x] = receipt[x]
    BY <2>1 DEF HelpersInv, HelperTruth, Quiet
  <2>2. CASE receipt'[x] = NoReceipt
    BY <2>2 DEF HelpersInv, HelperTruth, Quiet, NoReceipt
  <2> QED BY <2>1, <2>2
<1> QED BY <1>1, <1>2

LEMMA WithoutTypes ==
  ASSUME HelperTypes, NEW s, NEW stages, Without(s, stages)
  PROVE  /\ receipt' \in [Exchanges -> Receipts \cup {NoReceipt}]
         /\ \A x \in Exchanges : receipt'[x] \in {receipt[x], NoReceipt}
  BY DEF HelperTypes, Without

(* What the end of the disposal of a session leaves true of it: nothing    *)
(* that it started runs.                                                   *)
LEMMA DisposeChanges ==
  ASSUME IInv, NEW s \in Known, Top.op # "exchange",
         UNCHANGED <<helper, group>>,
         receipt' \in [Exchanges -> Receipts \cup {NoReceipt}],
         \A x \in Exchanges : receipt'[x] \in {receipt[x], NoReceipt},
         \/ session' = session
         \/ /\ Still(<<s, "probe">>) /\ Still(<<s, "restore">>)
            /\ \/ session' = [session EXCEPT ![s].unconfirmed = "none"]
               \/ Done(s)
  PROVE  /\ HelpersInv' /\ SessionInv' /\ Known' = Known /\ Guests' = Guests
         /\ \A r \in Sessions : session'[r].slot = session[r].slot
<1>1. HelperTypes' /\ \A x \in Exchanges : HelperTruth(x)'
  BY Forgets DEF IInv
<1>2. \A x \in Exchanges : Still(x)' <=> Still(x)
  BY DEF Still, Quiet
<1>3. s \in Sessions /\ session[s] \in Altered(s)
  BY KnownSession DEF IInv
<1>4. CASE session' = session
  <2>1. ASSUME NEW r \in Sessions PROVE Watched(r)'
    BY <1>4, WatchedKept DEF IInv, HelpersInv, Asking, Still, Quiet
  <2>2. SessionInv' /\ Known' = Known /\ Guests' = Guests
    BY <1>4 DEF IInv, SessionInv, Known, Guests
  <2> QED BY <1>1, <1>4, <2>1, <2>2 DEF HelpersInv
<1>5. ASSUME NEW value \in Altered(s), session' = [session EXCEPT ![s] = value],
             value.unconfirmed = "none", value.state \in {session[s].state, "Disposed"},
             Still(<<s, "probe">>), Still(<<s, "restore">>)
      PROVE  /\ HelpersInv' /\ SessionInv' /\ Known' = Known /\ Guests' = Guests
             /\ \A r \in Sessions : session'[r].slot = session[r].slot
  <2>1. /\ Others(s) /\ session'[s] = value
        /\ SessionInv' /\ Known' = Known /\ Guests' = Guests
        /\ \A r \in Sessions : session'[r].slot = session[r].slot
    BY <1>5, Alters DEF IInv
  <2>2. ASSUME NEW r \in Sessions PROVE Watched(r)'
    <3>1. CASE r = s
      <4>1. <<s, "probe">> \in Exchanges /\ <<s, "restore">> \in Exchanges
        BY <1>3 DEF Exchanges, Stages
      <4>2. Watched(s) /\ ~Asking(s)
        BY <1>3 DEF IInv, HelpersInv, Asking
      <4> QED BY <3>1, <1>2, <1>5, <2>1, <4>1, <4>2 DEF Watched
    <3>2. CASE r # s
      BY <3>2, <2>1, WatchedKept DEF IInv, HelpersInv, Asking, Still, Quiet, Others
    <3> QED BY <3>1, <3>2
  <2> QED BY <1>1, <2>1, <2>2 DEF HelpersInv
<1>6. CASE /\ Still(<<s, "probe">>) /\ Still(<<s, "restore">>)
           /\ session' = [session EXCEPT ![s].unconfirmed = "none"]
  <2> DEFINE value == [session[s] EXCEPT !.unconfirmed = "none"]
  <2>1. value \in Altered(s) /\ value.unconfirmed = "none" /\ value.state = session[s].state
    BY <1>3 DEF Altered
  <2>2. session' = [session EXCEPT ![s] = value]
    BY <1>6
  <2> HIDE DEF value
  <2> QED BY <2>1, <2>2, <1>5, <1>6
<1>7. CASE Still(<<s, "probe">>) /\ Still(<<s, "restore">>) /\ Done(s)
  <2> DEFINE value == [session[s] EXCEPT !.state = "Disposed", !.unconfirmed = "none",
                                         !.held = FALSE]
  <2>1. value \in Altered(s) /\ value.unconfirmed = "none" /\ value.state = "Disposed"
    BY <1>3 DEF Altered
  <2>2. session' = [session EXCEPT ![s] = value]
    BY <1>7 DEF Done
  <2> HIDE DEF value
  <2> QED BY <2>1, <2>2, <1>5, <1>7
<1> QED BY <1>4, <1>6, <1>7

(* A frame of disposal that is done with a session. *)
LEMMA Passed ==
  ASSUME NEW fr \in Frames, NEW s \in Known, NEW failed \in BOOLEAN
  PROVE  LET next == [fr EXCEPT !.left = Front(@),
                                !.failed = IF failed THEN Append(@, s) ELSE @]
         IN next \in Frames /\ next.op = fr.op
<1>1. CASE fr \in [op : {"dispose"}, left : Seq(Known), failed : Seq(Known),
                    finishing : BOOLEAN]
  <2>1. Front(fr.left) \in Seq(Known)
    BY <1>1, FrontsOfAny
  <2>2. (IF failed THEN Append(fr.failed, s) ELSE fr.failed) \in Seq(Known)
    BY <1>1, AppendProperties
  <2>3. [fr EXCEPT !.left = Front(@), !.failed = IF failed THEN Append(@, s) ELSE @]
          \in [op : {"dispose"}, left : Seq(Known), failed : Seq(Known), finishing : BOOLEAN]
    BY <1>1, <2>1, <2>2
  <2> QED BY <1>1, <2>3 DEF Frames
<1>2. CASE fr \in [op : {"run"}, run : Nat]
  BY <1>2 DEF Frames
<1>3. CASE fr \in [op : {"acquire"}, slot : Slots]
  BY <1>3 DEF Frames
<1>4. CASE fr \in [op : {"exchange"}, session : Known]
  BY <1>4 DEF Frames
<1>5. CASE fr \in [op : {"cleanup"}, session : Guests]
  BY <1>5 DEF Frames
<1>6. CASE fr \in [op : {"publish"}, run : Nat, clean : BOOLEAN]
  BY <1>6 DEF Frames
<1> QED BY <1>1, <1>2, <1>3, <1>4, <1>5, <1>6 DEF Frames

(* Access to a session is revoked. *)
LEMMA SlotsRevoked ==
  ASSUME SlotInv, NEW p \in Slots, Known' = Known, slot' = [slot EXCEPT ![p] = Empty],
         \A r \in Sessions : session'[r].slot = session[r].slot
  PROVE  SlotInv'
<1>1. slot' \in [Slots -> SlotStates]
  BY DEF SlotInv, SlotStates
<1>2. ASSUME NEW o \in Slots, slot'[o].kind = "Acquired"
      PROVE  slot'[o].session \in Known' /\ session'[slot'[o].session].slot = o
  <2>1. slot'[o] = slot[o]
    BY <1>2 DEF SlotInv, Empty
  <2> QED BY <1>2, <2>1 DEF SlotInv, Known
<1> QED BY <1>1, <1>2 DEF SlotInv

(* What the dispose callback of a process session does. *)
LEMMA DisposeProcessChanges ==
  ASSUME IInv, NEW s \in Known, DisposeProcess(s)
  PROVE  /\ \E failed \in BOOLEAN : Becomes(Pass(s, failed))
         /\ receipt' \in [Exchanges -> Receipts \cup {NoReceipt}]
         /\ \A x \in Exchanges : receipt'[x] \in {receipt[x], NoReceipt}
         /\ \/ session' = session /\ receipt' = receipt
            \/ /\ Still(<<s, "probe">>) /\ Still(<<s, "restore">>)
               /\ \/ session' = [session EXCEPT ![s].unconfirmed = "none"]
                  \/ Done(s)
               /\ \E stages \in SUBSET Stages : Without(s, stages)
<1>1. receipt \in [Exchanges -> Receipts \cup {NoReceipt}]
  BY DEF IInv, HelpersInv, HelperTypes
<1>2. CASE Confirmed(s) /\ Removes(s)
  <2>1. Still(<<s, "probe">>) /\ Still(<<s, "restore">>)
    BY <1>2, ConfirmedIsStill DEF IInv
  <2>2. PICK stages \in SUBSET Stages : Without(s, stages)
    BY <1>2 DEF Removes
  <2>3. /\ receipt' \in [Exchanges -> Receipts \cup {NoReceipt}]
        /\ \A x \in Exchanges : receipt'[x] \in {receipt[x], NoReceipt}
    BY <2>2, WithoutTypes DEF IInv, HelpersInv
  <2> QED BY <1>2, <2>1, <2>2, <2>3 DEF Removes
<1>3. CASE ~Confirmed(s) /\ Becomes(Pass(s, TRUE)) /\ UNCHANGED <<session, faults, receipt>>
  BY <1>1, <1>3
<1> QED BY <1>2, <1>3 DEF DisposeProcess

(* The session that is next. *)
LEMMA NextSession ==
  ASSUME IInv, Top.op = "dispose", Top.left # << >>
  PROVE  /\ Last(Top.left) \in Known
         /\ session[Last(Top.left)].slot \in Slots
         /\ Top \in Frames
<1>1. Top.left \in Seq(Known) /\ Top \in Frames
  BY Tops DEF IInv
<1>2. Last(Top.left) \in Known
  BY <1>1, Fronts
<1> QED BY <1>1, <1>2, KnownSession DEF IInv

LEMMA DisposeNextStep ==
  ASSUME IInv, DisposeNext
  PROVE  IInv'
<1>1. PICK s \in Known : s = Last(Top.left)
  BY NextSession DEF DisposeNext
<1>2. /\ Top.op = "dispose" /\ Top \in Frames
      /\ session[s].slot \in Slots
      /\ slot' = [slot EXCEPT ![session[s].slot] = Empty]
      /\ UNCHANGED <<helper, group, runs, cleanups>>
      /\ runs \in Nat /\ cleanups \in Seq(Known) /\ StackInv
  BY <1>1, NextSession DEF DisposeNext, IInv, StackInv
<1>3. CASE /\ session[s].slot \in Embedded
           /\ Call([op |-> "cleanup", session |-> s])
           /\ UNCHANGED <<session, faults, receipt>>
  <2>1. HelpersInv' /\ SessionInv' /\ Known' = Known /\ Guests' = Guests
    BY <1>2, <1>3, QuietStep DEF IInv, helperVars
  <2>2. [op |-> "cleanup", session |-> s] \in Frames'
    BY <1>3, <2>1 DEF Frames, Guests
  <2>3. frames # << >>
    BY <1>2, Tops
  <2>4. StackInv'
    BY <1>2, <1>3, <2>1, <2>2, <2>3, Pushes DEF Call
  <2>5. SlotInv'
    BY <1>2, <1>3, <2>1, SlotsRevoked DEF IInv
  <2> QED BY <2>1, <2>4, <2>5 DEF IInv
<1>4. CASE DisposeProcess(s)
  <2>1. PICK failed \in BOOLEAN : Becomes(Pass(s, failed))
    BY <1>4, DisposeProcessChanges
  <2>2. /\ HelpersInv' /\ SessionInv' /\ Known' = Known /\ Guests' = Guests
        /\ \A r \in Sessions : session'[r].slot = session[r].slot
    BY <1>2, <1>4, DisposeProcessChanges, DisposeChanges
  <2>3. Pass(s, failed) \in Frames' /\ Pass(s, failed).op = "dispose"
    <3>1. Pass(s, failed) \in Frames /\ Pass(s, failed).op = Top.op
      BY <1>2, Passed DEF Pass
    <3> QED BY <3>1, <1>2, <2>2, KnownGrows
  <2>4. StackInv'
    BY <1>2, <2>1, <2>2, <2>3, Swaps
  <2>5. SlotInv'
    BY <1>2, <2>2, SlotsRevoked DEF IInv
  <2> QED BY <2>2, <2>4, <2>5 DEF IInv
<1> QED BY <1>1, <1>3, <1>4 DEF DisposeNext

(* The session of an embedding whose callback ends has no exchanges. *)
LEMMA CleanupEndsChanges ==
  ASSUME IInv, CleanupEnds
  PROVE  \E s \in Guests :
           /\ s = Top.session
           /\ Still(<<s, "probe">>) /\ Still(<<s, "restore">>)
           /\ session' = session \/ Done(s)
<1>1. PICK s \in Guests : s = Top.session
  BY Tops DEF CleanupEnds, IInv
<1>2. Still(<<s, "probe">>) /\ Still(<<s, "restore">>)
  <2>1. s \in Sessions /\ <<s, "probe">> \in Exchanges /\ <<s, "restore">> \in Exchanges
    BY DEF Guests, Known, Exchanges, Stages
  <2> QED BY <2>1 DEF IInv, HelpersInv, HelperTruth, Watched, Still, Quiet
<1> QED BY <1>1, <1>2 DEF CleanupEnds

LEMMA CleanupEndsStep ==
  ASSUME IInv, CleanupEnds
  PROVE  IInv'
<1>1. PICK s \in Guests : /\ s = Top.session
                          /\ Still(<<s, "probe">>) /\ Still(<<s, "restore">>)
                          /\ session' = session \/ Done(s)
  BY CleanupEndsChanges
<1>2. /\ Top.op = "cleanup" /\ s \in Known
      /\ UNCHANGED <<helper, group, receipt, runs, cleanups, slot>>
      /\ runs \in Nat /\ cleanups \in Seq(Known) /\ StackInv
  BY DEF CleanupEnds, helperVars, IInv, StackInv, Guests
<1>3. receipt \in [Exchanges -> Receipts \cup {NoReceipt}]
  BY DEF IInv, HelpersInv, HelperTypes
<1>4. /\ HelpersInv' /\ SessionInv' /\ Known' = Known /\ Guests' = Guests
      /\ \A r \in Sessions : session'[r].slot = session[r].slot
  BY <1>1, <1>2, <1>3, DisposeChanges
<1>5. SlotInv'
  BY <1>2, <1>4, SlotsKept DEF IInv
<1>6. StackInv'
  <2>0. PICK n \in Nat : n = Len(frames)
    BY LenProperties DEF IInv, StackInv
  <2> DEFINE below == frames[n - 1]
             rest == SubSeq(frames, 1, n - 2)
  <2>1. n \in Nat /\ frames \in Seq(Frames) /\ frames # << >> /\ frames[1].op # "cleanup"
        /\ frames[n].op = "cleanup" /\ n # 0
    BY <2>0, <1>2, Tops DEF Last, StackInv
  <2>2. n - 1 \in 1..n /\ n - 2 \in Nat /\ n - 2 <= n
    <3>1. n # 1
      BY <2>1
    <3> QED BY <2>1, <3>1
  <2>3. PICK failed \in BOOLEAN :
          frames' = Append(rest, [below EXCEPT !.left = Front(@),
                                    !.failed = IF failed THEN Append(@, s) ELSE @])
    BY <1>1, <2>0 DEF CleanupEnds
  <2> DEFINE next == [below EXCEPT !.left = Front(@),
                                   !.failed = IF failed THEN Append(@, s) ELSE @]
  <2>4. below \in Frames
    BY <2>0, <2>1, <2>2, ElementOfSeq
  <2>5. next \in Frames /\ next.op = below.op
    BY <2>4, <1>2, Passed
  <2>6. rest \in Seq(Frames) /\ Len(rest) = n - 2
    <3>1. rest \in Seq(Frames) /\ Len(rest) = IF 1 <= n - 2 THEN n - 2 ELSE 0
      BY <2>0, <2>1, <2>2, InitialParts
    <3> HIDE DEF rest
    <3> QED BY <2>2, <3>1
  <2> HIDE DEF rest, next
  <2>7. /\ frames' \in Seq(Frames)
        /\ \A i \in 1..Len(rest) : frames'[i] = rest[i]
        /\ frames'[Len(rest) + 1] = next
    <3>1. frames' = Append(rest, next)
      BY <2>3 DEF next
    <3> QED BY <3>1, <2>5, <2>6, AppendProperties
  <2>8. frames'[1].op = frames[1].op
    <3>1. CASE n - 2 = 0
      BY <3>1, <2>1, <2>5, <2>6, <2>7
    <3>2. CASE n - 2 # 0
      <4>1. 1 \in 1..(n - 2) /\ rest[1] = frames[1]
        BY <3>2, <2>2 DEF rest
      <4> QED BY <4>1, <2>6, <2>7
    <3> QED BY <3>1, <3>2
  <2>9. Frames' = Frames
    BY <1>4 DEF Frames
  <2> QED BY <2>1, <2>7, <2>8, <2>9, <1>2, <1>4 DEF StackInv
<1> QED BY <1>4, <1>5, <1>6 DEF IInv

-----------------------------------------------------------------------------
(* The theorems. *)

LEMMA IInvStarts == Init => IInv
<1> SUFFICES ASSUME Init PROVE IInv
  OBVIOUS
<1> USE DEF Init, HelperInit
<1>1. Known = {} /\ Guests = {}
  BY DEF Known, Guests, Unborn
<1>2. StackInv
  BY EmptySeq DEF StackInv
<1>3. SlotInv
  BY DEF SlotInv, SlotStates, Empty
<1>4. SessionInv
  BY DEF SessionInv
<1>5. HelperTypes
  BY DEF HelperTypes, Points, Groups
<1>6. \A x \in Exchanges : HelperTruth(x)
  BY DEF HelperTruth, Quiet, NoReceipt
<1>7. ASSUME NEW s \in Sessions PROVE Watched(s)
  <2>1. <<s, "probe">> \in Exchanges /\ <<s, "restore">> \in Exchanges
    BY DEF Exchanges, Stages
  <2> QED BY <2>1 DEF Watched, Still, Quiet, Unborn
<1> QED BY <1>2, <1>3, <1>4, <1>5, <1>6, <1>7 DEF IInv, HelpersInv

LEMMA IInvHolds == Spec => []IInv
<1>1. IInv /\ [Next]_vars => IInv'
  <2> SUFFICES ASSUME IInv, [Next]_vars PROVE IInv'
    OBVIOUS
  <2>1. CASE UNCHANGED vars
    <3>1. UNCHANGED <<runs, frames, cleanups, slot, session, helper, group, receipt>>
      BY <2>1 DEF vars, hostVars, helperVars
    <3>2. Known' = Known /\ Guests' = Guests /\ Frames' = Frames
      BY <3>1 DEF Known, Guests, Frames
    <3>3. StackInv' /\ SlotInv' /\ SessionInv' /\ HelperTypes'
      BY <3>1, <3>2 DEF IInv, StackInv, SlotInv, SessionInv, HelpersInv, HelperTypes
    <3>4. \A x \in Exchanges : HelperTruth(x)'
      BY <3>1 DEF IInv, HelpersInv, HelperTruth, Quiet
    <3>5. ASSUME NEW s \in Sessions PROVE Watched(s)'
      BY <3>1, WatchedKept DEF IInv, HelpersInv, Asking, Still, Quiet, Top, Outside
    <3> QED BY <3>3, <3>4, <3>5 DEF IInv, HelpersInv
  <2>2. CASE Next
    BY <2>2, BeginStep, AcquireStep, RestoreStep, AcquireReturnsStep, AcquireRaisesStep,
       AnswerStep, FinishStep, RetryStep, DisposeNextStep, CleanupEndsStep, DisposeEndsStep,
       PublishStep, RunReturnsStep, ProcessStep DEF Next
  <2> QED BY <2>1, <2>2
<1> QED BY <1>1, IInvStarts, PTL DEF Spec

(* An exchange changes what is known of a session, and its state. *)
LEMMA HeldKept ==
  ASSUME SessionInv, NEW r \in Known, NEW known, NEW state,
         \/ session' = [session EXCEPT ![r] = [session[r] EXCEPT !.unconfirmed = known]]
         \/ session' = [session EXCEPT ![r] = [session[r] EXCEPT !.state = state]]
         \/ session' = [session EXCEPT ![r].unconfirmed = known, ![r].state = state]
         \/ session' = [session EXCEPT ![r] =
                          [[session[r] EXCEPT !.unconfirmed = known] EXCEPT !.state = state]]
  PROVE  \A s \in Sessions : session'[s].held = session[s].held
<1>1. session[r] \in Altered(r) /\ r \in Sessions /\ DOMAIN session = Sessions
  BY KnownSession DEF SessionInv
<1>2. /\ [session[r] EXCEPT !.unconfirmed = known].held = session[r].held
      /\ [session[r] EXCEPT !.state = state].held = session[r].held
      /\ [[session[r] EXCEPT !.unconfirmed = known] EXCEPT !.state = state].held
            = session[r].held
  BY <1>1 DEF Altered
<1>3. \A s \in Sessions \ {r} : session'[s] = session[s]
  BY <1>1
<1>4. \/ session'[r] = [session[r] EXCEPT !.unconfirmed = known]
      \/ session'[r] = [session[r] EXCEPT !.state = state]
      \/ session'[r] = [[session[r] EXCEPT !.unconfirmed = known] EXCEPT !.state = state]
  BY <1>1
<1> QED BY <1>2, <1>3, <1>4

(* The scratch of a session is not touched before every process that its   *)
(* exchanges started is gone.                                              *)
THEOREM ScratchIsQuiet == Spec => RemovesQuietScratch
<1> DEFINE Touches(s) ==
             \/ session[s].held /\ ~session'[s].held
             \/ \E stage \in Stages : /\ receipt[<<s, stage>>] # NoReceipt
                                      /\ receipt'[<<s, stage>>] = NoReceipt
           QuietScratch ==
             \A s \in Sessions :
               Touches(s) => \A stage \in Stages : Quiet(<<s, stage>>)
<1>1. IInv /\ [Next]_vars => [QuietScratch]_vars
  <2> SUFFICES ASSUME IInv, Next, NEW s \in Sessions, Touches(s)
               PROVE  \A stage \in Stages : Quiet(<<s, stage>>)
    OBVIOUS
  <2>1. \A stage \in Stages : <<s, stage>> \in Exchanges
    BY DEF Exchanges
  <2>2. CASE DisposeNext
    <3>1. PICK r \in Known : r = Last(Top.left) /\ DisposeProcess(r)
      <4>1. ~ UNCHANGED <<session, faults, receipt>>
        OBVIOUS
      <4> QED BY <4>1, <2>2, NextSession DEF DisposeNext
    <3>2. Still(<<r, "probe">>) /\ Still(<<r, "restore">>)
      BY <3>1, DisposeProcessChanges
    <3>3. r = s
      <4>1. ASSUME NEW o \in Sessions, o # r PROVE session'[o] = session[o]
        <5>1. \/ session' = session
              \/ session' = [session EXCEPT ![r].unconfirmed = "none"]
              \/ Done(r)
          BY <3>1, DisposeProcessChanges
        <5> QED BY <4>1, <5>1 DEF IInv, SessionInv, Done
      <4>2. ASSUME NEW x \in Exchanges, x[1] # r PROVE receipt'[x] = receipt[x]
        BY <4>2, <3>1, DisposeProcessChanges DEF Without
      <4> QED BY <4>1, <4>2, <2>1
    <3> QED BY <3>2, <3>3 DEF Still, Stages
  <2>3. CASE CleanupEnds
    <3>1. PICK r \in Guests : /\ Still(<<r, "probe">>) /\ Still(<<r, "restore">>)
                              /\ session' = session \/ Done(r)
      BY <2>3, CleanupEndsChanges
    <3>2. receipt' = receipt
      BY <2>3 DEF CleanupEnds, helperVars
    <3>3. r = s
      BY <3>1, <3>2 DEF IInv, SessionInv, Done
    <3> QED BY <3>1, <3>3 DEF Still, Stages
  <2>4. CASE AcquireReturns
    <3>1. PICK r \in Sessions : /\ session[r] = Unborn
                                /\ session' = [session EXCEPT ![r] = Fresh(Top.slot, Run)]
      BY <2>4 DEF AcquireReturns, Newest
    <3>2. receipt' = receipt
      BY <2>4 DEF AcquireReturns, helperVars
    <3>3. session[r].held = FALSE
      BY <3>1 DEF Unborn
    <3>4. s # r => session'[s] = session[s]
      BY <3>1 DEF IInv, SessionInv
    <3>5. session[s].held => session'[s].held
      BY <3>3, <3>4
    <3> QED BY <3>2, <3>5
  <2>5. CASE \E p \in Slots : Restore(p)
    <3>1. session'[s].held = session[s].held /\ receipt' = receipt
      <4>1. PICK p \in Slots : Restore(p)
        BY <2>5
      <4>2. PICK r \in Known : r = slot[p].session /\ session[r] \in Altered(r)
        BY <4>1, KnownSession DEF Restore, IInv, SlotInv
      <4>3. Launch(r, "probe") \/ Refused(r) \/ Unstarted(r, "probe")
        BY <4>1, <4>2 DEF Restore
      <4>4. receipt' = receipt
        BY <4>3 DEF Launch, Refused, Unstarted, Start, helperVars
      <4>5. CASE Launch(r, "probe")
        BY <4>4, <4>5, HeldKept DEF Launch, IInv
      <4>6. CASE Refused(r)
        BY <4>4, <4>6, HeldKept DEF Refused, IInv
      <4>7. CASE Unstarted(r, "probe")
        BY <4>4, <4>7, HeldKept DEF Unstarted, IInv
      <4> QED BY <4>3, <4>5, <4>6, <4>7
    <3> QED BY <3>1
  <2>6. CASE Answer
    <3>1. session'[s].held = session[s].held /\ receipt' = receipt
      <4>1. PICK r \in Known : r = Top.session
        BY <2>6, Tops DEF Answer, IInv
      <4>2. receipt' = receipt
        BY <2>6 DEF Answer, Launch, Unstarted, Start, helperVars
      <4>3. PICK known :
              \/ session' = [session EXCEPT ![r] = [session[r] EXCEPT !.state = "Refused"]]
              \/ session' = [session EXCEPT ![r] =
                    [[session[r] EXCEPT !.unconfirmed = known] EXCEPT !.state = "Refused"]]
              \/ Launch(r, "restore")
              \/ Unstarted(r, "restore")
              \/ session' = [session EXCEPT ![r] =
                    [[session[r] EXCEPT !.unconfirmed = known] EXCEPT !.state = "Retained"]]
        <5>1. PICK stage \in Stages :
                LET known == IF receipt[<<r, stage>>].quiescent THEN "none" ELSE stage
                IN \/ session' = [session EXCEPT ![r] = [session[r] EXCEPT !.state = "Refused"]]
                   \/ session' = [session EXCEPT ![r] =
                         [[session[r] EXCEPT !.unconfirmed = known] EXCEPT !.state = "Refused"]]
                   \/ Launch(r, "restore")
                   \/ Unstarted(r, "restore")
                   \/ session' = [session EXCEPT ![r] =
                         [[session[r] EXCEPT !.unconfirmed = known] EXCEPT !.state = "Retained"]]
          BY <2>6, <4>1 DEF Answer
        <5> WITNESS IF receipt[<<r, stage>>].quiescent THEN "none" ELSE stage
        <5> QED BY <5>1
      <4>4. CASE Launch(r, "restore")
        BY <4>2, <4>4, HeldKept DEF Launch, IInv
      <4>5. CASE Unstarted(r, "restore")
        BY <4>2, <4>5, HeldKept DEF Unstarted, IInv
      <4>6. CASE session' = [session EXCEPT ![r] = [session[r] EXCEPT !.state = "Refused"]]
        BY <4>2, <4>6, HeldKept DEF IInv
      <4>7. ASSUME NEW state \in {"Refused", "Retained"},
                   session' = [session EXCEPT ![r] =
                     [[session[r] EXCEPT !.unconfirmed = known] EXCEPT !.state = state]]
            PROVE  session'[s].held = session[s].held
        BY <4>7, HeldKept DEF IInv
      <4> QED BY <4>2, <4>3, <4>4, <4>5, <4>6, <4>7
    <3> QED BY <3>1
  <2>7. CASE \E x \in Exchanges : Process(x)
    <3>1. PICK x \in Exchanges : HelperNext(x) /\ session' = session
      BY <2>7 DEF Process
    <3>2. \A y \in Exchanges : receipt'[y] = NoReceipt => receipt[y] = NoReceipt
      <4>1. CASE receipt' = receipt
        BY <4>1
      <4>2. CASE Report(x)
        BY <4>2 DEF Report, NoReceipt, Results, IInv, HelpersInv, HelperTypes
      <4> QED BY <3>1, <4>1, <4>2 DEF HelperNext, HelperStep, Refuse, Spawn, Reclaim,
                 Confirm, GiveUp, Exit, Stop, Die, Lose
    <3> QED BY <3>1, <3>2, <2>1
  <2>8. CASE UNCHANGED <<session, receipt>>
    BY <2>8
  <2> QED BY <2>2, <2>3, <2>4, <2>5, <2>6, <2>7, <2>8
          DEF Next, Begin, Acquire, AcquireRaises, Finish, Retry, DisposeEnds, Publish,
              RunReturns, helperVars
<1> QED BY IInvHolds, <1>1, PTL DEF Spec, RemovesQuietScratch

-----------------------------------------------------------------------------
(* What the host owes its sessions. *)

(* Which frame may be called from which: a disposal or an execution never  *)
(* begins inside another one, and only a callback runs on a disposal.      *)
Fits(f, k) ==
  /\ f[k].op \in {"publish", "run", "dispose"} =>
       \A j \in 1..(k - 1) : f[j].op = "publish"
  /\ f[k].op \in {"acquire", "exchange"} => k > 1 /\ f[k - 1].op \in {"run", "acquire"}
  /\ f[k].op = "cleanup" => /\ k > 1
                            /\ f[k - 1].op = "dispose"
                            /\ f[k - 1].left # << >>
                            /\ Last(f[k - 1].left) = f[k].session
  /\ f[k].op = "dispose" /\ f[k].finishing => k > 1

Shape(f) == \A k \in 1..Len(f) : Fits(f, k)

(* The state of the manager and the stack tell the same story. *)
ManagerInv ==
  /\ Shape(frames)
  /\ manager \in {"Idle", "Executing", "Disposing", "CleanupFailed"}
  /\ manager = "Executing" <=> Top.op \in {"run", "acquire", "exchange"}
  /\ manager = "Disposing" <=> Top.op \in {"dispose", "cleanup"}
  /\ manager = "Executing" => \E k \in 1..Len(frames) : frames[k].op = "run"

(* The disposal that is under way, what it has left, and what it failed    *)
(* at; outside of a disposal what is to be disposed.                       *)
Disposer == IF Top.op = "cleanup" THEN frames[Len(frames) - 1] ELSE Top
Left     == IF manager = "Disposing" THEN Disposer.left ELSE cleanups
Failed   == IF manager = "Disposing" THEN Disposer.failed ELSE << >>

Ordered(left, failed) ==
  /\ \A j, k \in 1..Len(left) : j < k => left[j] < left[k]
  /\ \A j, k \in 1..Len(failed) : j < k => failed[k] < failed[j]
  /\ \A j \in 1..Len(left), k \in 1..Len(failed) : left[j] < failed[k]

Within(s, q) == \E k \in 1..Len(q) : q[k] = s

PoolInv ==
  /\ Ordered(Left, Failed)
  /\ manager \in {"Idle", "Disposing"} => cleanups = << >>
  /\ \A s \in Sessions : session[s].held => Within(s, Left) \/ Within(s, Failed)

(* A session has resources until it is disposed, and is not disposed under *)
(* an exchange; the sessions are numbered as they are acquired.            *)
BornInv ==
  /\ \A s \in Known : session[s].held <=> session[s].state # "Disposed"
  /\ \A s \in Known : 1..(s - 1) \subseteq Known
  /\ Top.op = "exchange" => session[Top.session].state = "Fresh"

(* The acquisition of a slot is on the stack once, or not at all. *)
LiveInv ==
  /\ \A p \in Slots :
       /\ slot[p] = Acquiring <=>
            \E k \in 1..Len(frames) : frames[k].op = "acquire" /\ frames[k].slot = p
       /\ slot[p].kind = "Acquired" =>
            /\ manager \in {"Executing", "Disposing"}
            /\ session[slot[p].session].held
            /\ Within(slot[p].session, Left)
            /\ Top.op = "cleanup" => Top.session # slot[p].session
  /\ \A j, k \in 1..Len(frames) :
       frames[j].op = "acquire" /\ frames[k].op = "acquire" /\ frames[j].slot = frames[k].slot
         => j = k

(* An execution is on the stack once, as a run or as its publication. *)
RunInv ==
  /\ \A k \in 1..Len(frames) : frames[k].op \in {"run", "publish"} => frames[k].run <= runs
  /\ \A j, k \in 1..Len(frames) :
       /\ frames[j].op \in {"run", "publish"}
       /\ frames[k].op \in {"run", "publish"}
       /\ frames[j].run = frames[k].run
       => j = k
  /\ \A s \in Known : session[s].run \in Nat /\ session[s].run <= runs

(* The sessions of an execution that have resources: its run still has     *)
(* their callbacks, or its disposal has; a clean one has none.             *)
OwedInv ==
  \A s \in Known, k \in 1..Len(frames) :
    session[s].held =>
      /\ frames[k].op = "run" /\ session[s].run = frames[k].run => Within(s, cleanups)
      /\ frames[k].op = "publish" /\ session[s].run = frames[k].run => ~frames[k].clean
      /\ frames[k].op = "dispose" /\ frames[k].finishing /\ session[s].run = frames[k - 1].run =>
           Within(s, frames[k].left) \/ Within(s, frames[k].failed)

OInv == ManagerInv /\ PoolInv /\ BornInv /\ LiveInv /\ RunInv /\ OwedInv

-----------------------------------------------------------------------------
(* Sequences of sessions. *)

(* A session is taken from the end of what is left, and may be added to    *)
(* what has failed.                                                        *)
LEMMA Passes ==
  ASSUME NEW S, S \subseteq Nat, NEW left \in Seq(S), NEW failed \in Seq(S),
         left # << >>, Ordered(left, failed),
         NEW more \in {failed, Append(failed, Last(left))}
  PROVE  /\ Ordered(Front(left), more)
         /\ ~Within(Last(left), Front(left))
         /\ \A s : /\ Within(s, left) => s = Last(left) \/ Within(s, Front(left))
                   /\ Within(s, failed) => Within(s, more)
         /\ more = Append(failed, Last(left)) => Within(Last(left), more)
<1>1. /\ Len(left) \in Nat \ {0} /\ Len(failed) \in Nat
      /\ \A k \in 1..Len(left) : left[k] \in Nat
      /\ \A k \in 1..Len(failed) : failed[k] \in Nat
  BY EmptySeq, ElementOfSeq, LenProperties
<1> DEFINE n == Len(left)
           rest == Front(left)
<1>2. Last(left) = left[n] /\ n \in 1..n /\ left[n] \in S
  BY <1>1, ElementOfSeq DEF Last
<1>3. Len(rest) = n - 1 /\ \A k \in 1..(n - 1) : rest[k] = left[k]
  BY <1>1, Fronts DEF Front
<1>4. \/ more = failed
      \/ /\ Len(more) = Len(failed) + 1
         /\ \A k \in 1..Len(failed) : more[k] = failed[k]
         /\ more[Len(failed) + 1] = left[n]
  BY <1>1, <1>2, AppendProperties
<1> HIDE DEF n, rest
<1>5. /\ \A j, k \in 1..n : j < k => left[j] < left[k]
      /\ \A j, k \in 1..Len(failed) : j < k => failed[k] < failed[j]
      /\ \A j \in 1..n, k \in 1..Len(failed) : left[j] < failed[k]
  BY DEF Ordered, n
<1>6. n \in Nat \ {0} /\ \A k \in 1..n : left[k] \in Nat
  BY <1>1 DEF n
<1>7. Ordered(rest, more)
  <2>1. CASE more = failed
    BY <1>3, <1>5, <1>6, <2>1 DEF Ordered
  <2>2. CASE /\ Len(more) = Len(failed) + 1
             /\ \A k \in 1..Len(failed) : more[k] = failed[k]
             /\ more[Len(failed) + 1] = left[n]
    <3>1. \A j, k \in 1..Len(rest) : j < k => rest[j] < rest[k]
      BY <1>3, <1>5, <1>6
    <3>2. ASSUME NEW j \in 1..Len(more), NEW k \in 1..Len(more), j < k
          PROVE  more[k] < more[j]
      <4>1. j \in 1..Len(failed) /\ more[j] = failed[j]
        BY <1>1, <2>2, <3>2
      <4>2. CASE k \in 1..Len(failed)
        BY <1>5, <2>2, <3>2, <4>1, <4>2
      <4>3. CASE k = Len(failed) + 1
        <5>1. left[n] < failed[j]
          BY <1>2, <1>5, <4>1
        <5> QED BY <2>2, <4>1, <4>3, <5>1
      <4> QED BY <1>1, <2>2, <4>2, <4>3
    <3>3. ASSUME NEW j \in 1..Len(rest), NEW k \in 1..Len(more)
          PROVE  rest[j] < more[k]
      BY <1>1, <1>2, <1>3, <1>5, <1>6, <2>2
    <3> QED BY <3>1, <3>2, <3>3 DEF Ordered
  <2> QED BY <1>4, <2>1, <2>2
<1>8. ~Within(left[n], rest)
  <2>1. \A k \in 1..(n - 1) : left[k] < left[n] /\ left[k] \in Nat /\ left[n] \in Nat
    BY <1>2, <1>5, <1>6
  <2> QED BY <1>3, <2>1 DEF Within
<1>9. ASSUME NEW s
      PROVE  /\ Within(s, left) => s = left[n] \/ Within(s, rest)
             /\ Within(s, failed) => Within(s, more)
  <2>1. ASSUME Within(s, left), s # left[n] PROVE Within(s, rest)
    <3>1. PICK k \in 1..n : left[k] = s
      BY <2>1 DEF Within, n
    <3>2. k \in 1..(n - 1)
      BY <1>6, <2>1, <3>1
    <3> QED BY <1>3, <3>1, <3>2 DEF Within
  <2>2. Within(s, failed) => Within(s, more)
    BY <1>1, <1>4 DEF Within
  <2> QED BY <2>1, <2>2
<1>10. more = Append(failed, Last(left)) => Within(left[n], more)
  <2> SUFFICES ASSUME more = Append(failed, Last(left)) PROVE Within(left[n], more)
    OBVIOUS
  <2>1. Len(more) = Len(failed) + 1 /\ more[Len(failed) + 1] = left[n]
    BY <1>1, <1>2, AppendProperties
  <2> QED BY <1>1, <2>1 DEF Within
<1> QED BY <1>2, <1>7, <1>8, <1>9, <1>10 DEF rest

(* What has failed is kept in the order of acquisition. *)
LEMMA Reverses ==
  ASSUME NEW S, S \subseteq Nat, NEW failed \in Seq(S), Ordered(<< >>, failed)
  PROVE  /\ Ordered(Reverse(failed), << >>)
         /\ \A s : Within(s, failed) => Within(s, Reverse(failed))
<1> DEFINE n == Len(failed)
           back == Reverse(failed)
<1>1. n \in Nat /\ \A k \in 1..n : failed[k] \in Nat
  BY LenProperties, ElementOfSeq
<1>2. Len(back) = n /\ \A k \in 1..n : back[k] = failed[(n - k) + 1]
  BY <1>1 DEF Reverse
<1>3. \A j, k \in 1..n : j < k => failed[k] < failed[j]
  BY DEF Ordered
<1> HIDE DEF n, back
<1>4. Ordered(back, << >>)
  <2>1. ASSUME NEW j \in 1..n, NEW k \in 1..n, j < k PROVE back[j] < back[k]
    <3>1. (n - j) + 1 \in 1..n /\ (n - k) + 1 \in 1..n /\ (n - k) + 1 < (n - j) + 1
      BY <1>1, <2>1
    <3>2. failed[(n - j) + 1] < failed[(n - k) + 1]
      BY <1>3, <3>1
    <3> QED BY <1>2, <3>2
  <2>2. Len(<< >>) = 0 /\ 1..0 = {}
    OBVIOUS
  <2> QED BY <1>2, <2>1, <2>2 DEF Ordered
<1>5. ASSUME NEW s, Within(s, failed) PROVE Within(s, back)
  <2>1. PICK k \in 1..n : failed[k] = s
    BY <1>5 DEF Within, n
  <2>2. (n - k) + 1 \in 1..n /\ (n - ((n - k) + 1)) + 1 = k
    BY <1>1
  <2>3. back[(n - k) + 1] = s
    BY <1>2, <2>1, <2>2
  <2> QED BY <1>2, <2>2, <2>3 DEF Within
<1> QED BY <1>4, <1>5 DEF back

(* A pass and what it failed at, together, are in the order of acquisition. *)
LEMMA Increases ==
  ASSUME NEW S, S \subseteq Nat, NEW left \in Seq(S), NEW failed \in Seq(S),
         Ordered(left, failed)
  PROVE  Increasing(left) /\ Increasing(left \o Reverse(failed))
<1> DEFINE n == Len(left)
           m == Len(failed)
           back == Reverse(failed)
           all == left \o back
<1>1. /\ n \in Nat /\ \A k \in 1..n : left[k] \in Nat
      /\ m \in Nat /\ \A k \in 1..m : failed[k] \in Nat
  BY LenProperties, ElementOfSeq
<1>2. back \in Seq(S) /\ Len(back) = m /\ \A k \in 1..m : back[k] = failed[(m - k) + 1]
  BY <1>1, Reversed DEF Reverse
<1>3. Len(all) = n + m /\ DOMAIN all = 1..(n + m) /\ DOMAIN left = 1..n
      /\ \A k \in 1..(n + m) : all[k] = IF k <= n THEN left[k] ELSE back[k - n]
  <2> HIDE DEF n, m, back
  <2>0. left \in Seq(S) /\ Len(left) = n
    BY DEF n
  <2>1. /\ all \in Seq(S) /\ Len(all) = n + m
        /\ \A k \in 1..(n + m) : all[k] = IF k <= n THEN left[k] ELSE back[k - n]
    BY <2>0, <1>2, ConcatProperties
  <2> HIDE DEF all
  <2> QED BY <2>0, <2>1, LenProperties
<1>4. /\ \A j, k \in 1..n : j < k => left[j] < left[k]
      /\ \A j, k \in 1..m : j < k => failed[k] < failed[j]
      /\ \A j \in 1..n, k \in 1..m : left[j] < failed[k]
  BY DEF Ordered
<1> HIDE DEF n, m, back, all
<1>5. ASSUME NEW j \in 1..(n + m), NEW k \in 1..(n + m), j < k PROVE all[j] < all[k]
  <2>1. CASE k <= n
    BY <1>1, <1>3, <1>4, <1>5, <2>1
  <2>2. CASE j <= n /\ n < k
    <3>1. j \in 1..n /\ k - n \in 1..m /\ (m - (k - n)) + 1 \in 1..m
      BY <1>1, <2>2
    <3> QED BY <1>1, <1>2, <1>3, <1>4, <2>2, <3>1
  <2>3. CASE n < j
    <3>1. j - n \in 1..m /\ k - n \in 1..m /\ ~(j <= n) /\ ~(k <= n)
      BY <1>1, <1>5, <2>3
    <3>2. /\ (m - (k - n)) + 1 \in 1..m /\ (m - (j - n)) + 1 \in 1..m
          /\ (m - (k - n)) + 1 < (m - (j - n)) + 1
      BY <1>1, <1>5, <3>1
    <3>3. failed[(m - (j - n)) + 1] < failed[(m - (k - n)) + 1]
      BY <1>4, <3>2
    <3> QED BY <1>2, <1>3, <3>1, <3>3
  <2> QED BY <1>1, <2>1, <2>2, <2>3
<1>6. \A j, k \in DOMAIN left : j < k => left[j] < left[k]
  BY <1>3, <1>4
<1> QED BY <1>3, <1>5, <1>6 DEF Increasing, all, back

-----------------------------------------------------------------------------
(* The frames of the stack. *)

LEMMA FrameFields ==
  ASSUME NEW fr \in Frames
  PROVE  /\ fr.op \in {"run", "acquire", "exchange", "cleanup", "dispose", "publish"}
         /\ fr.op = "run" => fr.run \in Nat
         /\ fr.op = "acquire" => fr.slot \in Slots
         /\ fr.op = "exchange" => fr.session \in Known
         /\ fr.op = "cleanup" => fr.session \in Guests
         /\ fr.op = "dispose" => /\ fr.left \in Seq(Known) /\ fr.failed \in Seq(Known)
                                 /\ fr.finishing \in BOOLEAN
         /\ fr.op = "publish" => fr.run \in Nat /\ fr.clean \in BOOLEAN
  BY DEF Frames

(* A stack and its top. *)
LEMMA Stacked ==
  ASSUME NEW F, NEW f \in Seq(F)
  PROVE  /\ Len(f) \in Nat
         /\ \A k \in 1..Len(f) : f[k] \in F
         /\ f = << >> <=> Len(f) = 0
         /\ f # << >> => Last(f) = f[Len(f)] /\ Len(f) \in 1..Len(f)
  BY EmptySeq, LenProperties, ElementOfSeq DEF Last

LEMMA Appended ==
  ASSUME NEW F, NEW f \in Seq(F), NEW fr
  PROVE  /\ Len(Append(f, fr)) = Len(f) + 1
         /\ \A k \in 1..Len(f) : Append(f, fr)[k] = f[k]
         /\ Append(f, fr)[Len(f) + 1] = fr
         /\ Append(f, fr) # << >> /\ Last(Append(f, fr)) = fr
<1>1. f \in Seq(F \cup {fr}) /\ fr \in F \cup {fr}
  BY SeqMonotonic
<1>2. /\ Append(f, fr) \in Seq(F \cup {fr})
      /\ Len(Append(f, fr)) = Len(f) + 1 /\ Len(f) \in Nat
      /\ \A k \in 1..Len(f) : Append(f, fr)[k] = f[k]
      /\ Append(f, fr)[Len(f) + 1] = fr
  BY <1>1, AppendProperties, LenProperties
<1>3. Append(f, fr) # << >>
  BY <1>2, EmptySeq
<1> QED BY <1>2, <1>3 DEF Last

(* The size of the stack, and its top. *)
LEMMA StackNow ==
  ASSUME IInv
  PROVE  /\ Len(frames) \in Nat /\ \A k \in 1..Len(frames) : frames[k] \in Frames
         /\ Top = IF Len(frames) = 0 THEN Outside ELSE frames[Len(frames)]
         /\ Top.op = "outside" <=> Len(frames) = 0
<1>1. frames \in Seq(Frames)
  BY DEF IInv, StackInv
<1>2. Len(frames) \in Nat /\ \A k \in 1..Len(frames) : frames[k] \in Frames
  BY <1>1, Stacked
<1>3. Top = IF Len(frames) = 0 THEN Outside ELSE frames[Len(frames)]
  BY <1>1, Stacked DEF Top
<1>4. ASSUME Len(frames) # 0 PROVE Top.op # "outside"
  <2>1. Len(frames) \in 1..Len(frames)
    BY <1>2, <1>4
  <2> QED BY <1>2, <1>3, <1>4, <2>1, FrameFields
<1> QED BY <1>2, <1>3, <1>4 DEF Outside

(* The same before a step and after it. *)
LEMMA Stack ==
  ASSUME IInv, IInv'
  PROVE  /\ Len(frames) \in Nat /\ Len(frames') \in Nat
         /\ \A k \in 1..Len(frames) : frames[k] \in Frames
         /\ \A k \in 1..Len(frames') : frames'[k] \in Frames'
         /\ Top = IF Len(frames) = 0 THEN Outside ELSE frames[Len(frames)]
         /\ Top' = IF Len(frames') = 0 THEN Outside ELSE frames'[Len(frames')]
         /\ Top.op = "outside" <=> Len(frames) = 0
<1>1. frames' \in Seq(Frames')
  BY DEF IInv, StackInv
<1>2. Len(frames') \in Nat /\ \A k \in 1..Len(frames') : frames'[k] \in Frames'
  BY <1>1, Stacked
<1>3. Top' = IF Len(frames') = 0 THEN Outside ELSE frames'[Len(frames')]
  <2>1. Top' = IF frames' = << >> THEN Outside ELSE Last(frames')
    BY DEF Top, Outside
  <2> QED BY <1>1, <2>1, Stacked
<1> QED BY <1>2, <1>3, StackNow

LEMMA Pushed ==
  ASSUME IInv, IInv', NEW fr, Call(fr)
  PROVE  /\ Len(frames') = Len(frames) + 1
         /\ \A k \in 1..Len(frames) : frames'[k] = frames[k]
         /\ frames'[Len(frames) + 1] = fr
         /\ Top' = fr
<1>1. frames \in Seq(Frames)
  BY DEF IInv, StackInv
<1>2. /\ Len(frames') = Len(frames) + 1
      /\ \A k \in 1..Len(frames) : frames'[k] = frames[k]
      /\ frames'[Len(frames) + 1] = fr
  BY <1>1, Appended DEF Call
<1> QED BY <1>2, Stack

LEMMA Popped ==
  ASSUME IInv, IInv', Return, Top.op # "outside"
  PROVE  /\ Len(frames') = Len(frames) - 1
         /\ \A k \in 1..(Len(frames) - 1) : frames'[k] = frames[k]
<1>1. Len(frames') = Len(frames) - 1
  BY Tops DEF IInv, Return
<1> QED BY <1>1, Stack DEF Return, Front

LEMMA Swapped ==
  ASSUME IInv, IInv', NEW fr, Becomes(fr), Top.op # "outside"
  PROVE  /\ Len(frames') = Len(frames)
         /\ \A k \in 1..(Len(frames) - 1) : frames'[k] = frames[k]
         /\ frames'[Len(frames)] = fr
         /\ Top' = fr
<1>1. Front(frames) \in Seq(Frames) /\ Len(Front(frames)) = Len(frames) - 1
      /\ Len(frames) \in Nat \ {0}
  BY Tops DEF IInv
<1>2. \A k \in 1..(Len(frames) - 1) : Front(frames)[k] = frames[k]
  BY <1>1 DEF Front
<1>3. /\ Len(frames') = Len(frames)
      /\ \A k \in 1..(Len(frames) - 1) : frames'[k] = frames[k]
      /\ frames'[Len(frames)] = fr
  <2> DEFINE rest == Front(frames)
  <2>1. /\ Len(frames') = Len(rest) + 1
        /\ \A k \in 1..Len(rest) : frames'[k] = rest[k]
        /\ frames'[Len(rest) + 1] = fr
    BY <1>1, Appended DEF Becomes
  <2> QED BY <1>1, <1>2, <2>1
<1> QED BY <1>1, <1>3, Stack

(* A run becomes a publication, with a disposal on it. *)
LEMMA Finished ==
  ASSUME IInv, IInv', Finish
  PROVE  /\ Len(frames') = Len(frames) + 1
         /\ \A k \in 1..(Len(frames) - 1) : frames'[k] = frames[k]
         /\ frames'[Len(frames)] = [op |-> "publish", run |-> Top.run, clean |-> FALSE]
         /\ frames'[Len(frames) + 1] = Disposal(cleanups, TRUE)
         /\ Top' = Disposal(cleanups, TRUE)
<1> DEFINE publish == [op |-> "publish", run |-> Top.run, clean |-> FALSE]
           rest == Front(frames)
<1>1. rest \in Seq(Frames) /\ Len(rest) = Len(frames) - 1 /\ Len(frames) \in Nat \ {0}
  BY Tops DEF IInv, Finish
<1>2. \A k \in 1..(Len(frames) - 1) : rest[k] = frames[k]
  BY <1>1 DEF Front
<1>3. /\ Len(frames') = Len(frames) + 1
      /\ \A k \in 1..(Len(frames) - 1) : frames'[k] = rest[k]
      /\ frames'[Len(frames)] = publish
      /\ frames'[Len(frames) + 1] = Disposal(cleanups, TRUE)
  <2> DEFINE all == Frames \cup {publish, Disposal(cleanups, TRUE)}
             two == <<publish, Disposal(cleanups, TRUE)>>
  <2>1. rest \in Seq(all)
    BY <1>1, SeqMonotonic
  <2>2. two \in Seq(all) /\ Len(two) = 2
        /\ two[1] = publish /\ two[2] = Disposal(cleanups, TRUE)
    <3>1. publish \in all /\ Disposal(cleanups, TRUE) \in all
      OBVIOUS
    <3> HIDE DEF publish, all
    <3> QED BY <3>1, Pairs
  <2>3. frames' = rest \o two
    BY DEF Finish
  <2> HIDE DEF rest, two, all
  <2>4. /\ frames' \in Seq(all)
        /\ Len(frames') = Len(rest) + 2
        /\ \A k \in 1..(Len(rest) + 2) :
             frames'[k] = IF k <= Len(rest) THEN rest[k] ELSE two[k - Len(rest)]
    <3>1. /\ rest \o two \in Seq(all)
          /\ Len(rest \o two) = Len(rest) + Len(two)
          /\ \A k \in 1..(Len(rest) + Len(two)) :
               (rest \o two)[k] = IF k <= Len(rest) THEN rest[k] ELSE two[k - Len(rest)]
      BY <2>1, <2>2, ConcatProperties, Zenon
    <3> QED BY <2>2, <2>3, <3>1, Zenon
  <2>5. Len(frames) \in 1..(Len(rest) + 2) /\ Len(frames) + 1 \in 1..(Len(rest) + 2)
        /\ Len(frames) - Len(rest) = 1 /\ (Len(frames) + 1) - Len(rest) = 2
    BY <1>1
  <2>6. frames'[Len(frames)] = two[1] /\ frames'[Len(frames) + 1] = two[2]
    <3>1. ~(Len(frames) <= Len(rest)) /\ ~(Len(frames) + 1 <= Len(rest))
      BY <1>1
    <3> QED BY <2>4, <2>5, <3>1
  <2> HIDE DEF publish
  <2> QED BY <1>1, <2>2, <2>4, <2>6
<1>4. Top' = frames'[Len(frames) + 1]
  <2>1. Len(frames') = Len(frames) + 1 /\ Len(frames') # 0
    BY <1>1, <1>3
  <2> QED BY <2>1, Stack
<1>5. \A k \in 1..(Len(frames) - 1) : frames'[k] = frames[k]
  BY <1>2, <1>3
<1> QED BY <1>3, <1>4, <1>5, Zenon

(* The callback of an embedding returns to the disposal that called it. *)
LEMMA CalledBack ==
  ASSUME IInv, IInv', CleanupEnds, Shape(frames)
  PROVE  /\ Len(frames) \in Nat /\ Len(frames) >= 2
         /\ Len(frames') = Len(frames) - 1
         /\ \A k \in 1..(Len(frames) - 2) : frames'[k] = frames[k]
         /\ frames[Len(frames) - 1].op = "dispose"
         /\ frames[Len(frames) - 1].left # << >>
         /\ Last(frames[Len(frames) - 1].left) = Top.session
         /\ \E failed \in BOOLEAN :
              /\ frames'[Len(frames) - 1] =
                   [frames[Len(frames) - 1] EXCEPT
                      !.left = Front(@), !.failed = IF failed THEN Append(@, Top.session) ELSE @]
              /\ IF failed THEN session' = session ELSE Done(Top.session)
         /\ Top' = frames'[Len(frames) - 1]
<1> DEFINE n == Len(frames)
           rest == SubSeq(frames, 1, n - 2)
           next(failed) == [frames[n - 1] EXCEPT
                              !.left = Front(@),
                              !.failed = IF failed THEN Append(@, Top.session) ELSE @]
<1>1. /\ Top.op = "cleanup" /\ n \in Nat /\ n \in 1..n /\ Top = frames[n]
      /\ frames \in Seq(Frames)
  <2>1. Top.op = "cleanup"
    BY DEF CleanupEnds
  <2>2. n # 0
    BY <2>1, Stack
  <2> QED BY <2>1, <2>2, Stack DEF IInv, StackInv
<1>2. n > 1 /\ frames[n - 1].op = "dispose" /\ frames[n - 1].left # << >>
      /\ Last(frames[n - 1].left) = Top.session
  BY <1>1 DEF Shape, Fits
<1>3. \E failed \in BOOLEAN :
        /\ frames' = Append(rest, next(failed))
        /\ IF failed THEN session' = session ELSE Done(Top.session)
  BY DEF CleanupEnds
<1>4. PICK failed \in BOOLEAN :
        /\ frames' = Append(rest, next(failed))
        /\ IF failed THEN session' = session ELSE Done(Top.session)
  BY <1>3
<1>5. rest \in Seq(Frames) /\ Len(rest) = n - 2
  <2>1. n - 2 \in Nat /\ n - 2 <= n
    BY <1>1, <1>2
  <2>2. rest \in Seq(Frames) /\ Len(rest) = IF 1 <= n - 2 THEN n - 2 ELSE 0
    BY <1>1, <2>1, InitialParts
  <2> HIDE DEF rest, n
  <2> QED BY <2>1, <2>2
<1>6. \A k \in 1..(n - 2) : rest[k] = frames[k]
  BY <1>1
<1>7. /\ Len(frames') = n - 1
      /\ \A k \in 1..(n - 2) : frames'[k] = frames[k]
      /\ frames'[n - 1] = next(failed)
  <2> DEFINE fr == next(failed)
  <2>1. frames' = Append(rest, fr)
    BY <1>4
  <2> HIDE DEF fr, rest
  <2>2. /\ Len(frames') = Len(rest) + 1
        /\ \A k \in 1..Len(rest) : frames'[k] = rest[k]
        /\ frames'[Len(rest) + 1] = fr
    BY <1>5, <2>1, Appended
  <2>3. frames'[n - 1] = fr
    BY <1>1, <1>5, <2>2
  <2> QED BY <1>1, <1>5, <1>6, <2>2, <2>3 DEF fr
<1>8. Top' = frames'[n - 1]
  BY <1>1, <1>2, <1>7, Stack
<1>9. \E miss \in BOOLEAN :
        /\ frames'[n - 1] = next(miss)
        /\ IF miss THEN session' = session ELSE Done(Top.session)
  BY <1>4, <1>7
<1>10. Len(frames) \in Nat /\ Len(frames) >= 2 /\ Len(frames') = Len(frames) - 1
  BY <1>1, <1>2, <1>7
<1> QED BY <1>2, <1>7, <1>8, <1>9, <1>10, Zenon

(* A disposal that ends returns, and tells a publication how it went. *)
LEMMA Disposed ==
  ASSUME IInv, IInv', DisposeEnds, Shape(frames)
  PROVE  /\ Len(frames) \in Nat \ {0} /\ Len(frames') = Len(frames) - 1
         /\ \A k \in 1..(Len(frames) - 2) : frames'[k] = frames[k]
         /\ \A k \in 1..(Len(frames) - 1) : frames[k].op = "publish"
         /\ Top.finishing => Len(frames) > 1
         /\ Len(frames) > 1 =>
              frames'[Len(frames) - 1] =
                IF Top.finishing
                THEN [frames[Len(frames) - 1] EXCEPT !.clean = Top.failed = << >>]
                ELSE frames[Len(frames) - 1]
<1> DEFINE n == Len(frames)
           rest == Front(frames)
<1>1. /\ Top.op = "dispose" /\ n \in Nat \ {0} /\ n \in 1..n /\ Top = frames[n]
      /\ rest \in Seq(Frames) /\ Len(rest) = n - 1
  <2>1. Top.op = "dispose" /\ n \in Nat \ {0} /\ rest \in Seq(Frames) /\ Len(rest) = n - 1
    BY Tops DEF DisposeEnds, IInv
  <2> QED BY <2>1, Stack
<1>2. /\ \A k \in 1..(n - 1) : frames[k].op = "publish"
      /\ Top.finishing => n > 1
  BY <1>1 DEF Shape, Fits
<1>3. \A k \in 1..(n - 1) : rest[k] = frames[k]
  BY <1>1 DEF Front
<1>4. CASE Top.finishing
  <2> DEFINE fr == [rest[n - 1] EXCEPT !.clean = Top.failed = << >>]
  <2>1. frames' = [rest EXCEPT ![n - 1] = fr]
    BY <1>4 DEF DisposeEnds
  <2>2. n - 1 \in 1..Len(rest)
    BY <1>1, <1>2, <1>4
  <2>3. fr = [frames[n - 1] EXCEPT !.clean = Top.failed = << >>]
    BY <1>1, <1>3, <2>2
  <2>4. DOMAIN rest = 1..(n - 1)
    BY <1>1, LenProperties
  <2> HIDE DEF fr, rest
  <2>5. DOMAIN frames' = 1..(n - 1) /\ frames'[n - 1] = fr
        /\ \A k \in 1..(n - 1) : k # n - 1 => frames'[k] = rest[k]
    BY <1>1, <2>1, <2>2, <2>4
  <2>6. Len(frames') = n - 1
    BY <1>1, <2>5, LenProperties DEF IInv, StackInv
  <2> QED BY <1>1, <1>2, <1>3, <1>4, <2>3, <2>5, <2>6
<1>5. CASE ~Top.finishing
  <2>1. frames' = rest
    BY <1>5 DEF DisposeEnds
  <2> QED BY <1>1, <1>2, <1>3, <1>5, <2>1
<1> QED BY <1>4, <1>5

-----------------------------------------------------------------------------
(* What most steps leave alone. *)

LEMMA ShapeKept ==
  ASSUME NEW f, NEW g, Shape(f), Len(f) \in Nat, Len(g) \in Nat,
         NEW m \in Nat, m <= Len(f), m <= Len(g),
         \A k \in 1..m : g[k] = f[k],
         \A k \in (m + 1)..Len(g) : Fits(g, k)
  PROVE  Shape(g)
<1>1. ASSUME NEW k \in 1..Len(g) PROVE Fits(g, k)
  <2>1. CASE k > m
    BY <2>1
  <2>2. CASE k <= m
    <3>1. Fits(f, k) /\ g[k] = f[k] /\ (k > 1 => g[k - 1] = f[k - 1])
          /\ \A j \in 1..(k - 1) : g[j] = f[j]
      BY <2>2 DEF Shape
    <3> QED BY <3>1 DEF Fits
  <2> QED BY <2>1, <2>2
<1> QED BY <1>1 DEF Shape

(* Outside of executions and disposals there are publications only. *)
LEMMA Resting ==
  ASSUME IInv, ManagerInv, manager \in {"Idle", "CleanupFailed"}
  PROVE  \A k \in 1..Len(frames) : frames[k].op = "publish"
<1>1. CASE Len(frames) = 0
  BY <1>1
<1>2. CASE Len(frames) # 0
  <2>1. Len(frames) \in 1..Len(frames) /\ Top = frames[Len(frames)] /\ Len(frames) \in Nat
    BY <1>2, StackNow
  <2>2. Top.op = "publish"
    BY <2>1, StackNow, FrameFields DEF ManagerInv
  <2> QED BY <2>1, <2>2 DEF ManagerInv, Shape, Fits
<1> QED BY <1>1, <1>2

(* The run of the execution under way is that of the one run frame. *)
LEMMA Running ==
  ASSUME IInv, ManagerInv, manager = "Executing"
  PROVE  \E k \in 1..Len(frames) :
           /\ frames[k].op = "run" /\ Run = frames[k].run
           /\ \A j \in 1..Len(frames) : frames[j].op \in {"run", "dispose"} => j = k
<1>1. PICK k \in 1..Len(frames) : frames[k].op = "run"
  BY DEF ManagerInv
<1>2. ASSUME NEW j \in 1..Len(frames), frames[j].op \in {"run", "dispose"} PROVE j = k
  <2>1. Len(frames) \in Nat
    BY StackNow
  <2>2. CASE j < k
    <3>1. frames[j].op = "publish"
      BY <1>1, <2>1, <2>2 DEF ManagerInv, Shape, Fits
    <3> QED BY <1>2, <3>1
  <2>3. CASE k < j
    <3>1. frames[k].op = "publish"
      BY <1>2, <2>1, <2>3 DEF ManagerInv, Shape, Fits
    <3> QED BY <1>1, <3>1
  <2> QED BY <2>1, <2>2, <2>3
<1>3. DOMAIN frames = 1..Len(frames) /\ Len(frames) \in Nat
  BY StackNow, LenProperties DEF IInv, StackInv
<1>4. Executions = {k}
  BY <1>1, <1>2, <1>3 DEF Executions
<1>5. Run = frames[k].run
  <2>1. (CHOOSE i \in {k} : \A j \in {k} : j <= i) = k
    BY <1>3
  <2> QED BY <1>4, <2>1 DEF Run
<1> QED BY <1>1, <1>2, <1>5

(* Who is left, and who failed, is known. *)
LEMMA Pools ==
  ASSUME IInv, ManagerInv
  PROVE  /\ Left \in Seq(Known) /\ Failed \in Seq(Known)
         /\ Known \subseteq Sessions /\ Known \subseteq Nat
<1>1. Known \subseteq Sessions /\ Known \subseteq Nat
  BY DEF Known, Sessions
<1>2. cleanups \in Seq(Known) /\ << >> \in Seq(Known)
  BY EmptySeq DEF IInv, StackInv
<1>3. ASSUME manager = "Disposing" PROVE Disposer \in Frames /\ Disposer.op = "dispose"
  <2>1. Len(frames) \in 1..Len(frames) /\ Top = frames[Len(frames)] /\ Len(frames) \in Nat
        /\ Top.op \in {"dispose", "cleanup"}
    BY <1>3, StackNow DEF ManagerInv
  <2>2. CASE Top.op = "dispose"
    BY <2>1, <2>2, StackNow DEF Disposer
  <2>3. CASE Top.op = "cleanup"
    <3>1. Len(frames) > 1 /\ frames[Len(frames) - 1].op = "dispose"
      BY <2>1, <2>3 DEF ManagerInv, Shape, Fits
    <3>2. frames[Len(frames) - 1] \in Frames
      BY <2>1, <3>1, StackNow
    <3> QED BY <2>3, <3>1, <3>2 DEF Disposer
  <2> QED BY <2>1, <2>2, <2>3
<1>4. manager = "Disposing" => Disposer.left \in Seq(Known) /\ Disposer.failed \in Seq(Known)
  BY <1>3, FrameFields
<1> QED BY <1>1, <1>2, <1>4 DEF Left, Failed

LEMMA PoolKept ==
  ASSUME PoolInv, Left' = Left, Failed' = Failed,
         manager' \in {"Idle", "Disposing"} => cleanups' = << >>,
         \A s \in Sessions : session'[s].held => session[s].held
  PROVE  PoolInv'
<1>1. Ordered(Left', Failed')
  BY DEF PoolInv
<1>2. ASSUME NEW s \in Sessions, session'[s].held
      PROVE  Within(s, Left') \/ Within(s, Failed')
  BY <1>2 DEF PoolInv
<1> QED BY <1>1, <1>2 DEF PoolInv

LEMMA BornKept ==
  ASSUME BornInv, session' = session, Top'.op # "exchange"
  PROVE  BornInv'
  BY DEF BornInv, Known

LEMMA NothingOwed ==
  ASSUME OInv, UNCHANGED <<manager, cleanups, slot, session, frames, runs>>
  PROVE  OInv'
<1> USE DEF OInv
<1>1. Top' = Top /\ Known' = Known /\ Disposer' = Disposer
  BY DEF Top, Outside, Known, Disposer
<1>2. Left' = Left /\ Failed' = Failed
  BY <1>1 DEF Left, Failed
<1>3. ManagerInv'
  BY <1>1 DEF ManagerInv
<1>4. PoolInv'
  BY <1>2, PoolKept DEF PoolInv
<1>5. BornInv'
  BY <1>1 DEF BornInv
<1>6. LiveInv'
  BY <1>1, <1>2 DEF LiveInv, Acquiring
<1>7. RunInv' /\ OwedInv'
  BY <1>1 DEF RunInv, OwedInv
<1> QED BY <1>3, <1>4, <1>5, <1>6, <1>7

-----------------------------------------------------------------------------
(* The steps that call, and return, without a change of a session. *)

LEMMA BeginOwes ==
  ASSUME IInv, IInv', OInv, Begin
  PROVE  OInv'
<1> DEFINE n == Len(frames)
           fr == [op |-> "run", run |-> runs + 1]
<1> USE DEF OInv
<1>1. /\ Len(frames') = n + 1 /\ \A k \in 1..n : frames'[k] = frames[k]
      /\ frames'[n + 1] = fr /\ Top' = fr /\ n \in Nat /\ runs \in Nat
  BY Pushed, Stack DEF Begin, IInv, StackInv
<1>2. \A k \in 1..n : frames[k].op = "publish" /\ frames[k] \in Frames /\ frames[k].run \in Nat
  BY Resting, Stack, FrameFields DEF Begin
<1>3. /\ manager = "Idle" /\ manager' = "Executing" /\ cleanups' = << >> /\ runs' = runs + 1
      /\ session' = session /\ slot' = slot /\ Known' = Known
  BY DEF Begin, Known
<1>4. fr.op = "run" /\ fr.run = runs + 1
  OBVIOUS
<1> HIDE DEF fr
<1>5. ManagerInv'
  <2>1. Fits(frames', n + 1)
    BY <1>1, <1>2, <1>4 DEF Fits
  <2>2. Shape(frames')
    BY <1>1, <2>1, ShapeKept DEF ManagerInv
  <2> QED BY <1>1, <1>3, <1>4, <2>2 DEF ManagerInv
<1>6. PoolInv'
  BY <1>3, PoolKept DEF PoolInv, Left, Failed
<1>7. BornInv'
  BY <1>1, <1>3, <1>4, BornKept
<1>8. LiveInv'
  <2>1. \A p \in Slots : slot'[p] # Acquiring /\ slot'[p].kind # "Acquired"
    BY <1>2, <1>3 DEF LiveInv
  <2> QED BY <1>1, <1>2, <1>4, <2>1 DEF LiveInv, Acquiring
<1>9. RunInv'
  <2>1. \A k \in 1..n : frames[k].run <= runs
    BY <1>2 DEF RunInv
  <2>2. \A j, k \in 1..n : frames[j].run = frames[k].run => j = k
    BY <1>2 DEF RunInv
  <2>3. \A k \in 1..(n + 1) : k \in 1..n \/ k = n + 1
    BY <1>1
  <2>4. \A s \in Known : session[s].run \in Nat /\ session[s].run <= runs
    BY DEF RunInv
  <2>5. \A k \in 1..(n + 1) : frames'[k].run <= runs'
    BY <1>1, <1>2, <1>3, <1>4, <2>1, <2>3
  <2>6. \A j, k \in 1..(n + 1) : frames'[j].run = frames'[k].run => j = k
    BY <1>1, <1>2, <1>4, <2>1, <2>2, <2>3
  <2> QED BY <1>1, <1>3, <2>4, <2>5, <2>6 DEF RunInv
<1>10. OwedInv'
  <2> SUFFICES ASSUME NEW s \in Known, NEW k \in 1..(n + 1), session[s].held
               PROVE  /\ frames'[k].op = "run" => session[s].run # frames'[k].run
                      /\ frames'[k].op = "publish" /\ session[s].run = frames'[k].run =>
                           ~frames'[k].clean
                      /\ frames'[k].op # "dispose"
    BY <1>1, <1>3 DEF OwedInv
  <2>1. CASE k = n + 1
    BY <1>1, <1>4, <2>1 DEF RunInv
  <2>2. CASE k \in 1..n
    BY <1>1, <1>2, <2>2 DEF OwedInv
  <2> QED BY <1>1, <2>1, <2>2
<1> QED BY <1>5, <1>6, <1>7, <1>8, <1>9, <1>10

LEMMA AcquireOwes ==
  ASSUME IInv, IInv', OInv, NEW p \in Slots, Acquire(p)
  PROVE  OInv'
<1> DEFINE n == Len(frames)
           fr == [op |-> "acquire", slot |-> p]
<1> USE DEF OInv
<1>1. /\ Len(frames') = n + 1 /\ \A k \in 1..n : frames'[k] = frames[k]
      /\ frames'[n + 1] = fr /\ Top' = fr /\ n \in Nat
  BY Pushed, Stack DEF Acquire
<1>2. /\ manager = "Executing" /\ manager' = "Executing" /\ cleanups' = cleanups /\ runs' = runs
      /\ session' = session /\ slot' = [slot EXCEPT ![p] = Acquiring] /\ Known' = Known
      /\ slot[p] = Empty /\ slot \in [Slots -> SlotStates]
  BY DEF Acquire, Known, IInv, SlotInv
<1>3. fr.op = "acquire" /\ fr.slot = p
  OBVIOUS
<1> HIDE DEF fr
<1>4. n \in 1..n /\ Top = frames[n] /\ Top.op \in {"run", "acquire"}
  <2>1. Top.op \in {"run", "acquire"} /\ n # 0
    BY <1>2, Stack DEF Acquire, Guest, ManagerInv
  <2> QED BY <1>1, <2>1, Stack
<1>5. ManagerInv'
  <2>1. Fits(frames', n + 1)
    BY <1>1, <1>3, <1>4 DEF Fits
  <2>2. Shape(frames')
    BY <1>1, <2>1, ShapeKept DEF ManagerInv
  <2>3. \E k \in 1..(n + 1) : frames'[k].op = "run"
    BY <1>1, <1>2 DEF ManagerInv
  <2> QED BY <1>1, <1>2, <1>3, <2>2, <2>3 DEF ManagerInv
<1>6. Left' = Left /\ Failed' = Failed
  BY <1>2 DEF Left, Failed
<1>7. PoolInv'
  BY <1>2, <1>6, PoolKept
<1>8. BornInv'
  BY <1>1, <1>2, <1>3, BornKept
<1>9. LiveInv'
  <2>1. \A k \in 1..n : frames[k].op = "acquire" => frames[k].slot # p
    BY <1>2 DEF LiveInv, Empty, Acquiring
  <2>2. \A k \in 1..(n + 1) : k \in 1..n \/ k = n + 1
    BY <1>1
  <2>3. \A j, k \in 1..(n + 1) :
          frames'[j].op = "acquire" /\ frames'[k].op = "acquire" /\ frames'[j].slot = frames'[k].slot
            => j = k
    BY <1>1, <1>3, <2>1, <2>2 DEF LiveInv
  <2>4. ASSUME NEW o \in Slots
        PROVE  /\ slot'[o] = Acquiring <=>
                    \E k \in 1..(n + 1) : frames'[k].op = "acquire" /\ frames'[k].slot = o
               /\ slot'[o].kind = "Acquired" => slot[o].kind = "Acquired" /\ slot'[o] = slot[o]
    <3>1. CASE o = p
      BY <1>1, <1>2, <1>3, <3>1 DEF Acquiring
    <3>2. CASE o # p
      BY <1>1, <1>2, <1>3, <2>2, <3>2 DEF LiveInv, Acquiring
    <3> QED BY <3>1, <3>2
  <2> QED BY <1>1, <1>2, <1>3, <1>6, <2>3, <2>4 DEF LiveInv, Acquiring
<1>10. RunInv' /\ OwedInv'
  <2>1. \A k \in 1..(n + 1) : \/ k \in 1..n /\ frames'[k] = frames[k]
                              \/ k = n + 1 /\ frames'[k].op = "acquire"
    BY <1>1, <1>3
  <2>2. \A k \in 2..n : k - 1 \in 1..n
    BY <1>1
  <2>3. ASSUME NEW k \in 1..n, frames[k].op = "dispose", frames[k].finishing
        PROVE  frames'[k - 1] = frames[k - 1]
    BY <1>1, <2>2, <2>3 DEF ManagerInv, Shape, Fits
  <2>4. OwedInv'
    BY <1>1, <1>2, <2>1, <2>3 DEF OwedInv
  <2> QED BY <1>1, <1>2, <2>1, <2>4 DEF RunInv
<1> QED BY <1>5, <1>7, <1>8, <1>9, <1>10

(* What is below an acquisition or an exchange, which is part of a run.    *)
LEMMA Below ==
  ASSUME IInv, IInv', ManagerInv, Return, Top.op \in {"acquire", "exchange"},
         manager' = manager
  PROVE  /\ Len(frames) \in Nat /\ Len(frames) > 1 /\ Top = frames[Len(frames)]
         /\ Len(frames') = Len(frames) - 1
         /\ \A k \in 1..(Len(frames) - 1) : frames'[k] = frames[k]
         /\ Top' = frames[Len(frames) - 1] /\ Top'.op \in {"run", "acquire"}
         /\ manager = "Executing"
         /\ ManagerInv'
         /\ \A k \in 1..Len(frames) : frames[k].op # "dispose"
<1> DEFINE n == Len(frames)
<1>1. n \in Nat /\ n # 0 /\ Top = frames[n]
  BY Stack
<1>2. n > 1 /\ frames[n - 1].op \in {"run", "acquire"}
  BY <1>1 DEF ManagerInv, Shape, Fits
<1>3. Len(frames') = n - 1 /\ \A k \in 1..(n - 1) : frames'[k] = frames[k]
  BY Popped
<1>4. Top' = frames[n - 1]
  BY <1>1, <1>2, <1>3, Stack
<1>5. manager = "Executing"
  BY DEF ManagerInv
<1>6. Shape(frames')
  <2>1. n - 1 \in Nat /\ n - 1 <= n /\ n \in Nat /\ ((n - 1) + 1)..(n - 1) = {}
    BY <1>1, <1>2
  <2> DEFINE m == n - 1
  <2>2. /\ m \in Nat /\ m <= Len(frames) /\ m <= Len(frames')
        /\ Len(frames) \in Nat /\ Len(frames') \in Nat
        /\ \A k \in 1..m : frames'[k] = frames[k]
        /\ \A k \in (m + 1)..Len(frames') : Fits(frames', k)
    BY <1>3, <2>1
  <2> HIDE DEF m
  <2> QED BY <2>2, ShapeKept DEF ManagerInv
<1>7. ManagerInv'
  <2>1. PICK k \in 1..n : frames[k].op = "run"
    BY <1>5 DEF ManagerInv
  <2>2. k \in 1..(n - 1) /\ frames'[k].op = "run"
    BY <1>1, <1>3, <2>1
  <2> QED BY <1>2, <1>3, <1>4, <1>5, <1>6, <2>2 DEF ManagerInv
<1>8. \A k \in 1..n : frames[k].op # "dispose"
  <2>1. PICK k \in 1..n : \A j \in 1..n : frames[j].op \in {"run", "dispose"} => j = k
    BY <1>5, Running
  <2>2. PICK r \in 1..n : frames[r].op = "run"
    BY <1>5 DEF ManagerInv
  <2> QED BY <2>1, <2>2
<1> QED BY <1>1, <1>2, <1>3, <1>4, <1>5, <1>7, <1>8

(* A frame that is not of an execution returns. *)
LEMMA RunsKept ==
  ASSUME IInv, IInv', RunInv, OwedInv, ManagerInv,
         Len(frames') <= Len(frames),
         \A k \in 1..Len(frames') : frames'[k] = frames[k],
         Known' = Known, runs' = runs, manager # "Executing" \/ cleanups' = cleanups,
         manager = "Executing" \/ \A k \in 1..Len(frames) : frames[k].op # "run",
         \A s \in Known : session'[s].run = session[s].run /\ session'[s].held = session[s].held
  PROVE  RunInv' /\ OwedInv'
<1>1. Len(frames') \in Nat /\ Len(frames) \in Nat
  BY Stack
<1>2. \A k \in 1..Len(frames') : k \in 1..Len(frames)
  BY <1>1
<1>3. RunInv'
  BY <1>2 DEF RunInv
<1>4. ASSUME NEW k \in 1..Len(frames'), frames[k].op = "dispose", frames[k].finishing
      PROVE  frames'[k - 1] = frames[k - 1]
  <2>1. k > 1
    BY <1>2, <1>4 DEF ManagerInv, Shape, Fits
  <2> QED BY <1>1, <2>1
<1>5. OwedInv'
  BY <1>2, <1>4 DEF OwedInv
<1> QED BY <1>3, <1>5

LEMMA AcquireRaisesOwes ==
  ASSUME IInv, IInv', OInv, AcquireRaises
  PROVE  OInv'
<1> DEFINE n == Len(frames)
           p == Top.slot
<1> USE DEF OInv
<1>1. /\ Top.op = "acquire" /\ p \in Slots /\ Return /\ manager' = manager
      /\ cleanups' = cleanups /\ runs' = runs /\ session' = session /\ Known' = Known
      /\ slot' = [slot EXCEPT ![p] = Empty] /\ slot \in [Slots -> SlotStates]
  BY Tops DEF AcquireRaises, Known, IInv, SlotInv
<1>2. /\ n \in Nat /\ n > 1 /\ Top = frames[n] /\ Len(frames') = n - 1
      /\ \A k \in 1..(n - 1) : frames'[k] = frames[k]
      /\ Top' = frames[n - 1] /\ Top'.op \in {"run", "acquire"}
      /\ manager = "Executing" /\ ManagerInv'
  BY <1>1, Below
<1>3. Left' = Left /\ Failed' = Failed
  BY <1>1, <1>2 DEF Left, Failed
<1>4. PoolInv'
  BY <1>1, <1>3, PoolKept DEF PoolInv
<1>5. BornInv'
  BY <1>1, <1>2, BornKept
<1>6. LiveInv'
  <2>1. \A k \in 1..(n - 1) : frames[k].op = "acquire" => frames[k].slot # p
    BY <1>1, <1>2 DEF LiveInv
  <2>2. \A j, k \in 1..(n - 1) :
          frames'[j].op = "acquire" /\ frames'[k].op = "acquire" /\ frames'[j].slot = frames'[k].slot
            => j = k
    BY <1>2 DEF LiveInv
  <2>3. ASSUME NEW o \in Slots
        PROVE  /\ slot'[o] = Acquiring <=>
                    \E k \in 1..(n - 1) : frames'[k].op = "acquire" /\ frames'[k].slot = o
               /\ slot'[o].kind = "Acquired" => slot[o].kind = "Acquired" /\ slot'[o] = slot[o]
    <3>1. CASE o = p
      BY <1>1, <1>2, <2>1, <3>1 DEF Acquiring, Empty
    <3>2. CASE o # p
      <4>1. slot'[o] = slot[o]
        BY <1>1, <3>2
      <4>2. ASSUME NEW k \in 1..n, frames[k].op = "acquire", frames[k].slot = o
            PROVE  k \in 1..(n - 1)
        BY <1>2, <3>2, <4>2
      <4>3. 1..(n - 1) \subseteq 1..n
        BY <1>2
      <4> QED BY <1>2, <4>1, <4>2, <4>3 DEF LiveInv
    <3> QED BY <3>1, <3>2
  <2> QED BY <1>1, <1>2, <1>3, <2>2, <2>3 DEF LiveInv, Acquiring
<1>7. RunInv' /\ OwedInv'
  BY <1>1, <1>2, RunsKept
<1> QED BY <1>2, <1>4, <1>5, <1>6, <1>7

(* A new session is the last of those that are to be disposed. *)
LEMMA Extends ==
  ASSUME NEW S, S \subseteq Nat, NEW left \in Seq(S), Ordered(left, << >>),
         NEW s \in Nat, \A k \in 1..Len(left) : left[k] < s
  PROVE  /\ Ordered(Append(left, s), << >>)
         /\ Within(s, Append(left, s))
         /\ \A r : Within(r, left) => Within(r, Append(left, s))
<1>1. /\ Len(left) \in Nat /\ Len(Append(left, s)) = Len(left) + 1
      /\ \A k \in 1..Len(left) : Append(left, s)[k] = left[k]
      /\ Append(left, s)[Len(left) + 1] = s
  BY Appended, LenProperties
<1>2. Len(<< >>) = 0
  BY EmptySeq
<1>3. \A j, k \in 1..Len(left) : j < k => left[j] < left[k]
  BY DEF Ordered
<1>4. ASSUME NEW j \in 1..(Len(left) + 1), NEW k \in 1..(Len(left) + 1), j < k
      PROVE  Append(left, s)[j] < Append(left, s)[k]
  <2>1. j \in 1..Len(left)
    BY <1>1, <1>4
  <2>2. CASE k \in 1..Len(left)
    BY <1>1, <1>3, <1>4, <2>1, <2>2
  <2>3. CASE k = Len(left) + 1
    BY <1>1, <2>1, <2>3
  <2> QED BY <1>1, <2>2, <2>3
<1>5. Ordered(Append(left, s), << >>)
  BY <1>1, <1>2, <1>4 DEF Ordered
<1>6. Len(left) + 1 \in 1..(Len(left) + 1) /\ 1..Len(left) \subseteq 1..(Len(left) + 1)
  BY <1>1
<1> QED BY <1>1, <1>5, <1>6 DEF Within

LEMMA AcquireReturnsOwes ==
  ASSUME IInv, IInv', OInv, AcquireReturns
  PROVE  OInv'
<1> DEFINE n == Len(frames)
           p == Top.slot
<1> USE DEF OInv
<1>1. PICK s \in Sessions : /\ Newest(s)
                            /\ slot' = [slot EXCEPT ![p] = Acquired(s)]
                            /\ session' = [session EXCEPT ![s] = Fresh(p, Run)]
                            /\ cleanups' = Append(cleanups, s)
  BY DEF AcquireReturns
<1>2. /\ Top.op = "acquire" /\ p \in Slots /\ Return /\ manager' = manager
      /\ runs' = runs /\ runs \in Nat /\ slot \in [Slots -> SlotStates]
      /\ cleanups \in Seq(Known)
  BY Tops DEF AcquireReturns, IInv, SlotInv, StackInv
<1>3. /\ n \in Nat /\ n > 1 /\ Top = frames[n] /\ Len(frames') = n - 1
      /\ \A k \in 1..(n - 1) : frames'[k] = frames[k]
      /\ Top' = frames[n - 1] /\ Top'.op \in {"run", "acquire"}
      /\ manager = "Executing" /\ ManagerInv'
      /\ \A k \in 1..n : frames[k].op # "dispose"
  BY <1>2, Below
<1>4. /\ Known' = Known \cup {s} /\ s \notin Known
      /\ 1..(s - 1) \subseteq Known
      /\ session'[s] = Fresh(p, Run)
      /\ \A r \in Known : session'[r] = session[r]
  <2>1. DOMAIN session = Sessions /\ session[s] = Unborn
    BY <1>1 DEF IInv, SessionInv, Newest
  <2>2. session'[s] = Fresh(p, Run) /\ \A r \in Sessions : r # s => session'[r] = session[r]
    BY <1>1, <2>1
  <2>3. Known' = Known \cup {s} /\ s \notin Known
    BY <2>1, <2>2 DEF Known, Fresh, Unborn
  <2>4. ASSUME NEW r \in 1..(s - 1) PROVE r \in Known
    <3>1. r \in Sessions
      BY SessionsAssumption DEF Sessions
    <3>2. session[r] # Unborn
      BY <1>1 DEF Newest
    <3> QED BY <3>1, <3>2 DEF Known, IInv, SessionInv
  <2> QED BY <2>2, <2>3, <2>4 DEF Known
<1>5. /\ Fresh(p, Run).held = TRUE /\ Fresh(p, Run).state = "Fresh" /\ Fresh(p, Run).run = Run
  BY DEF Fresh
<1>6. PICK m \in 1..n : frames[m].op = "run" /\ Run = frames[m].run
  BY <1>3, Running
<1>7. m \in 1..(n - 1) /\ frames'[m] = frames[m]
  BY <1>2, <1>3, <1>6
<1>8. /\ Run \in Nat /\ Run <= runs
      /\ \A k \in 1..n : frames[k].op = "publish" => frames[k].run # Run
  <2>1. Run \in Nat
    BY <1>6, Stack, FrameFields
  <2>2. Run <= runs
    BY <1>6 DEF RunInv
  <2>3. ASSUME NEW k \in 1..n, frames[k].op = "publish" PROVE frames[k].run # Run
    BY <1>6, <2>3 DEF RunInv
  <2> QED BY <2>1, <2>2, <2>3
<1>9. /\ Left = cleanups /\ Failed = << >> /\ Left' = Append(cleanups, s) /\ Failed' = << >>
  BY <1>1, <1>2, <1>3 DEF Left, Failed
<1>10. /\ Ordered(Append(cleanups, s), << >>)
       /\ Within(s, Append(cleanups, s))
       /\ \A r : Within(r, cleanups) => Within(r, Append(cleanups, s))
  <2>1. Known \subseteq Nat /\ s \in Nat /\ s >= 1
    BY DEF Known, Sessions
  <2>2. ASSUME NEW k \in 1..Len(cleanups) PROVE cleanups[k] < s
    <3>1. cleanups[k] \in Known /\ cleanups[k] \in Nat
      BY <1>2, <2>1, ElementOfSeq
    <3>2. cleanups[k] # s
      BY <1>4, <3>1
    <3>3. CASE s < cleanups[k]
      <4>1. s \in 1..(cleanups[k] - 1)
        BY <2>1, <3>1, <3>3
      <4> QED BY <1>4, <3>1, <4>1 DEF BornInv
    <3> QED BY <2>1, <3>1, <3>2, <3>3
  <2>3. Ordered(cleanups, << >>)
    BY <1>9 DEF PoolInv
  <2> QED BY <1>2, <2>1, <2>2, <2>3, Extends
<1>11. PoolInv'
  <2>1. ASSUME NEW r \in Sessions, session'[r].held PROVE Within(r, Left')
    <3>1. CASE r = s
      BY <3>1, <1>9, <1>10
    <3>2. CASE r # s
      <4>1. session'[r] = session[r]
        BY <1>1, <3>2 DEF IInv, SessionInv
      <4>2. Within(r, cleanups) \/ Within(r, << >>)
        BY <1>9, <2>1, <4>1 DEF PoolInv
      <4>3. ~Within(r, << >>)
        BY EmptySeq DEF Within
      <4> QED BY <1>9, <1>10, <4>2, <4>3
    <3> QED BY <3>1, <3>2
  <2> QED BY <1>2, <1>3, <1>9, <1>10, <2>1 DEF PoolInv
<1>12. BornInv'
  <2>1. \A r \in Known' : session'[r].held <=> session'[r].state # "Disposed"
    BY <1>4, <1>5 DEF BornInv
  <2>2. \A r \in Known' : 1..(r - 1) \subseteq Known'
    BY <1>4 DEF BornInv
  <2> QED BY <1>3, <2>1, <2>2 DEF BornInv
<1>13. LiveInv'
  <2>1. \A k \in 1..(n - 1) : frames[k].op = "acquire" => frames[k].slot # p
    BY <1>2, <1>3 DEF LiveInv
  <2>2. \A j, k \in 1..(n - 1) :
          frames'[j].op = "acquire" /\ frames'[k].op = "acquire" /\ frames'[j].slot = frames'[k].slot
            => j = k
    BY <1>3 DEF LiveInv
  <2>3. ASSUME NEW o \in Slots
        PROVE  /\ slot'[o] = Acquiring <=>
                    \E k \in 1..(n - 1) : frames'[k].op = "acquire" /\ frames'[k].slot = o
               /\ slot'[o].kind = "Acquired" =>
                    session'[slot'[o].session].held /\ Within(slot'[o].session, Left')
    <3>1. CASE o = p
      <4>1. slot'[o] = Acquired(s) /\ slot'[o].session = s
        BY <1>1, <1>2, <3>1 DEF Acquired
      <4>2. slot'[o] # Acquiring
        BY <4>1 DEF Acquired, Acquiring
      <4> QED BY <1>3, <1>4, <1>5, <1>9, <1>10, <2>1, <3>1, <4>1, <4>2
    <3>2. CASE o # p
      <4>1. slot'[o] = slot[o]
        BY <1>1, <1>2, <3>2
      <4>2. ASSUME NEW k \in 1..n, frames[k].op = "acquire", frames[k].slot = o
            PROVE  k \in 1..(n - 1)
        BY <1>3, <3>2, <4>2
      <4>3. 1..(n - 1) \subseteq 1..n
        BY <1>3
      <4>4. slot'[o] = Acquiring <=>
              \E k \in 1..(n - 1) : frames'[k].op = "acquire" /\ frames'[k].slot = o
        BY <1>3, <4>1, <4>2, <4>3 DEF LiveInv
      <4>5. ASSUME slot[o].kind = "Acquired"
            PROVE  session'[slot[o].session].held /\ Within(slot[o].session, Left')
        <5>1. slot[o].session \in Known
          BY <4>5 DEF IInv, SlotInv
        <5>2. session[slot[o].session].held /\ Within(slot[o].session, Left)
          BY <4>5 DEF LiveInv
        <5> QED BY <1>4, <1>9, <1>10, <5>1, <5>2
      <4> QED BY <4>1, <4>4, <4>5
    <3> QED BY <3>1, <3>2
  <2> QED BY <1>2, <1>3, <2>2, <2>3 DEF LiveInv, Acquiring
<1>14. RunInv'
  <2>1. \A k \in 1..(n - 1) : k \in 1..n /\ frames'[k] = frames[k]
    BY <1>3
  <2>2. \A r \in Known' : session'[r].run \in Nat /\ session'[r].run <= runs
    BY <1>4, <1>5, <1>8 DEF RunInv
  <2> QED BY <1>2, <1>3, <2>1, <2>2 DEF RunInv
<1>15. OwedInv'
  <2>1. \A k \in 1..(n - 1) : k \in 1..n /\ frames'[k] = frames[k]
    BY <1>3
  <2>2. ASSUME NEW r \in Known', NEW k \in 1..(n - 1), session'[r].held
        PROVE  /\ frames[k].op = "run" /\ session'[r].run = frames[k].run => Within(r, cleanups')
               /\ frames[k].op = "publish" /\ session'[r].run = frames[k].run => ~frames[k].clean
    <3>1. CASE r = s
      BY <1>1, <1>4, <1>5, <1>8, <1>10, <2>1, <3>1
    <3>2. CASE r \in Known
      <4>1. session'[r] = session[r]
        BY <1>4, <3>2
      <4> QED BY <1>1, <1>10, <2>1, <2>2, <3>2, <4>1 DEF OwedInv
    <3> QED BY <1>4, <3>1, <3>2
  <2> QED BY <1>3, <2>1, <2>2 DEF OwedInv
<1> QED BY <1>3, <1>11, <1>12, <1>13, <1>14, <1>15

-----------------------------------------------------------------------------
(* The steps of an exchange: they change what is known of its session. *)

Exchanged(s, state) ==
  \E value \in Altered(s) :
    /\ session' = [session EXCEPT ![s] = value]
    /\ value.held = session[s].held
    /\ value.state = state

LEMMA ExchangeKeeps ==
  ASSUME IInv, BornInv, NEW s \in Known, NEW state \in {"Fresh", "Refused", "Retained"},
         session[s].state = "Fresh", Exchanged(s, state)
  PROVE  /\ Known' = Known /\ session'[s].state = state
         /\ \A r \in Sessions : session'[r].held = session[r].held
         /\ \A r \in Known : session'[r].run = session[r].run
         /\ \A r \in Known : session'[r].held <=> session'[r].state # "Disposed"
<1>1. PICK value \in Altered(s) : /\ session' = [session EXCEPT ![s] = value]
                                  /\ value.held = session[s].held
                                  /\ value.state = state
  BY DEF Exchanged
<1>2. Others(s) /\ session'[s] = value /\ Known' = Known
  BY <1>1, Alters DEF IInv
<1>3. value.run = session[s].run
  BY DEF Altered
<1>4. \A r \in Sessions : r # s => session'[r] = session[r]
  BY <1>2 DEF Others
<1>5. \A r \in Known : r \in Sessions
  BY DEF Known
<1>6. ASSUME NEW r \in Known PROVE session'[r].held <=> session'[r].state # "Disposed"
  BY <1>1, <1>2, <1>4, <1>5 DEF BornInv
<1>7. \A r \in Sessions : session'[r].held = session[r].held
  BY <1>1, <1>2, <1>4
<1> QED BY <1>1, <1>2, <1>3, <1>4, <1>5, <1>6, <1>7

(* What the four ways to change a session in an exchange have in common. *)
LEMMA Exchanges4 ==
  ASSUME SessionInv, NEW s \in Known, NEW known \in Stages \cup {"none"},
         NEW state \in {"Fresh", "Refused", "Retained"}
  PROVE  /\ session' = [session EXCEPT ![s].unconfirmed = known]
              => Exchanged(s, session[s].state)
         /\ session' = [session EXCEPT ![s].state = state] => Exchanged(s, state)
         /\ session' = [session EXCEPT ![s].unconfirmed = known, ![s].state = state]
              => Exchanged(s, state)
         /\ session' = [session EXCEPT ![s] =
                          [[session[s] EXCEPT !.unconfirmed = known] EXCEPT !.state = state]]
              => Exchanged(s, state)
         /\ session' = [session EXCEPT ![s] = [session[s] EXCEPT !.state = state]]
              => Exchanged(s, state)
<1>1. s \in Sessions /\ session[s] \in Altered(s) /\ DOMAIN session = Sessions
  BY KnownSession DEF SessionInv
<1>2. ASSUME NEW value \in Altered(s), session' = [session EXCEPT ![s] = value],
             value.held = session[s].held, NEW st, value.state = st
      PROVE  Exchanged(s, st)
  BY <1>2 DEF Exchanged
<1> DEFINE v1 == [session[s] EXCEPT !.unconfirmed = known]
           v2 == [session[s] EXCEPT !.state = state]
           v3 == [session[s] EXCEPT !.unconfirmed = known, !.state = state]
           v4 == [[session[s] EXCEPT !.unconfirmed = known] EXCEPT !.state = state]
<1>3. /\ v1 \in Altered(s) /\ v1.held = session[s].held /\ v1.state = session[s].state
      /\ v2 \in Altered(s) /\ v2.held = session[s].held /\ v2.state = state
      /\ v3 \in Altered(s) /\ v3.held = session[s].held /\ v3.state = state
      /\ v4 \in Altered(s) /\ v4.held = session[s].held /\ v4.state = state
  BY <1>1 DEF Altered
<1>4. /\ session' = [session EXCEPT ![s].unconfirmed = known]
           => session' = [session EXCEPT ![s] = v1]
      /\ session' = [session EXCEPT ![s].state = state]
           => session' = [session EXCEPT ![s] = v2]
      /\ session' = [session EXCEPT ![s].unconfirmed = known, ![s].state = state]
           => session' = [session EXCEPT ![s] = v3]
  BY <1>1
<1>5. session' = [session EXCEPT ![s] = v1] => Exchanged(s, session[s].state)
  <2> HIDE DEF v1
  <2> QED BY <1>2, <1>3
<1>6. session' = [session EXCEPT ![s] = v2] => Exchanged(s, state)
  <2> HIDE DEF v2
  <2> QED BY <1>2, <1>3
<1>7. session' = [session EXCEPT ![s] = v3] => Exchanged(s, state)
  <2> HIDE DEF v3
  <2> QED BY <1>2, <1>3
<1>8. session' = [session EXCEPT ![s] = v4] => Exchanged(s, state)
  <2> HIDE DEF v4
  <2> QED BY <1>2, <1>3
<1> QED BY <1>4, <1>5, <1>6, <1>7, <1>8

LEMMA RestoreOwes ==
  ASSUME IInv, IInv', OInv, NEW p \in Slots, Restore(p)
  PROVE  OInv'
<1> DEFINE s == slot[p].session
           n == Len(frames)
           fr == [op |-> "exchange", session |-> s]
<1> USE DEF OInv
<1>1. /\ s \in Known /\ session[s].state = "Fresh"
      /\ manager = "Executing" /\ manager' = "Executing" /\ cleanups' = cleanups /\ runs' = runs
      /\ slot' = slot /\ n \in Nat
  BY Stack DEF Restore, IInv, SlotInv
<1>2. \/ Exchanged(s, "Fresh") /\ Call(fr)
      \/ Exchanged(s, "Refused") /\ UNCHANGED frames
  <2>1. "probe" \in Stages \cup {"none"}
    BY DEF Stages
  <2>2. CASE Launch(s, "probe") /\ Call(fr)
    <3>1. session' = [session EXCEPT ![s].unconfirmed = "probe"]
      BY <2>2 DEF Launch
    <3> QED BY <1>1, <2>1, <2>2, <3>1, Exchanges4 DEF IInv
  <2>3. CASE (Refused(s) \/ Unstarted(s, "probe")) /\ UNCHANGED frames
    <3>1. \/ session' = [session EXCEPT ![s].state = "Refused"]
          \/ session' = [session EXCEPT ![s].unconfirmed = "probe", ![s].state = "Refused"]
      BY <2>3 DEF Refused, Unstarted
    <3>2. Exchanged(s, "Refused")
      BY <1>1, <2>1, <3>1, Exchanges4 DEF IInv
    <3> QED BY <2>3, <3>2
  <2> QED BY <2>2, <2>3 DEF Restore
<1>3. PICK state \in {"Fresh", "Refused", "Retained"} : Exchanged(s, state)
  BY <1>2
<1>4. /\ Known' = Known /\ session'[s].state = state
      /\ \A r \in Sessions : session'[r].held = session[r].held
      /\ \A r \in Known : session'[r].run = session[r].run
      /\ \A r \in Known : session'[r].held <=> session'[r].state # "Disposed"
  <2> HIDE DEF s
  <2> QED BY <1>1, <1>3, ExchangeKeeps
<1>5. Left' = Left /\ Failed' = Failed
  BY <1>1 DEF Left, Failed
<1>6. PoolInv'
  BY <1>1, <1>4, <1>5, PoolKept DEF PoolInv
<1>7. \A q \in Slots : slot[q].kind = "Acquired" => slot[q].session \in Sessions
  BY DEF IInv, SlotInv, Known
<1>8. CASE Exchanged(s, "Refused") /\ UNCHANGED frames
  <2>1. Top' = Top /\ Top.op \notin {"exchange", "cleanup"}
    BY <1>1, <1>8 DEF Top, Outside, Restore, Guest, ManagerInv
  <2>2. ManagerInv'
    BY <1>1, <1>8, <2>1 DEF ManagerInv
  <2>3. BornInv'
    BY <1>4, <2>1 DEF BornInv
  <2>4. LiveInv'
    BY <1>1, <1>4, <1>5, <1>7, <1>8, <2>1 DEF LiveInv, Acquiring
  <2>5. RunInv' /\ OwedInv'
    BY <1>1, <1>4, <1>8 DEF RunInv, OwedInv, Known
  <2> QED BY <1>6, <2>2, <2>3, <2>4, <2>5
<1>9. CASE Exchanged(s, "Fresh") /\ Call(fr)
  <2>1. /\ Len(frames') = n + 1 /\ \A k \in 1..n : frames'[k] = frames[k]
        /\ frames'[n + 1] = fr /\ Top' = fr
    BY <1>9, Pushed
  <2>2. fr.op = "exchange" /\ fr.session = s
    OBVIOUS
  <2> HIDE DEF fr, s
  <2>3. n \in 1..n /\ Top = frames[n] /\ Top.op \in {"run", "acquire"}
    <3>1. Top.op \in {"run", "acquire"} /\ n # 0
      BY <1>1, Stack DEF Restore, Guest, ManagerInv
    <3> QED BY <1>1, <3>1, Stack
  <2>4. ManagerInv'
    <3>1. Fits(frames', n + 1)
      BY <1>1, <2>1, <2>2, <2>3 DEF Fits
    <3>2. Shape(frames')
      <4>1. /\ n <= Len(frames) /\ n <= Len(frames') /\ Len(frames') \in Nat
            /\ \A k \in (n + 1)..Len(frames') : Fits(frames', k)
        BY <1>1, <2>1, <3>1
      <4>2. Shape(frames)
        BY DEF ManagerInv
      <4> QED BY <1>1, <2>1, <4>1, <4>2, ShapeKept
    <3>3. \E k \in 1..(n + 1) : frames'[k].op = "run"
      BY <1>1, <2>1 DEF ManagerInv
    <3> QED BY <1>1, <2>1, <2>2, <3>2, <3>3 DEF ManagerInv
  <2>5. BornInv'
    <3>1. session'[s].state = "Fresh"
      BY <1>1, <1>9, ExchangeKeeps
    <3> QED BY <1>4, <2>1, <2>2, <3>1 DEF BornInv
  <2>6. \A k \in 1..(n + 1) : \/ k \in 1..n /\ frames'[k] = frames[k]
                              \/ k = n + 1 /\ frames'[k].op = "exchange"
    BY <1>1, <2>1, <2>2
  <2>7. LiveInv'
    <3>1. \A q \in Slots :
            (\E k \in 1..(n + 1) : frames'[k].op = "acquire" /\ frames'[k].slot = q) <=>
            (\E k \in 1..n : frames[k].op = "acquire" /\ frames[k].slot = q)
      BY <1>1, <2>1, <2>6
    <3> QED BY <1>1, <1>4, <1>5, <1>7, <2>1, <2>2, <2>6, <3>1 DEF LiveInv, Acquiring
  <2>8. ASSUME NEW k \in 1..n, frames[k].op = "dispose", frames[k].finishing
        PROVE  frames'[k - 1] = frames[k - 1]
    <3>1. k > 1
      BY <2>8 DEF ManagerInv, Shape, Fits
    <3> QED BY <1>1, <2>1, <3>1
  <2>9. OwedInv'
    <3> SUFFICES ASSUME NEW r \in Known, NEW k \in 1..n, session[r].held
                 PROVE  /\ frames[k].op = "run" /\ session[r].run = frames[k].run =>
                             Within(r, cleanups)
                        /\ frames[k].op = "publish" /\ session[r].run = frames[k].run =>
                             ~frames[k].clean
                        /\ frames[k].op = "dispose" /\ frames[k].finishing
                             /\ session[r].run = frames'[k - 1].run =>
                             Within(r, frames[k].left) \/ Within(r, frames[k].failed)
      <4>1. \A r \in Known : r \in Sessions
        BY DEF Known
      <4> QED BY <1>1, <1>4, <2>1, <2>6, <4>1 DEF OwedInv
    <3> QED BY <2>8 DEF OwedInv
  <2>10. RunInv'
    BY <1>1, <1>4, <2>1, <2>6 DEF RunInv
  <2> QED BY <1>6, <2>4, <2>5, <2>7, <2>9, <2>10
<1> QED BY <1>2, <1>8, <1>9

LEMMA AnswerOwes ==
  ASSUME IInv, IInv', OInv, Answer
  PROVE  OInv'
<1> DEFINE s == Top.session
           n == Len(frames)
<1> USE DEF OInv
<1>1. /\ Top.op = "exchange" /\ s \in Known /\ session[s].state = "Fresh"
      /\ manager = "Executing" /\ manager' = manager /\ cleanups' = cleanups /\ runs' = runs
      /\ slot' = slot /\ n \in Nat
  BY Tops, Stack DEF Answer, IInv, BornInv, ManagerInv
<1>2. \/ Exchanged(s, "Fresh") /\ UNCHANGED frames
      \/ (Exchanged(s, "Refused") \/ Exchanged(s, "Retained")) /\ Return
  <2>1. PICK stage \in Stages :
          LET heard == receipt[<<s, stage>>]
              seen  == [session[s] EXCEPT !.unconfirmed =
                          IF heard.quiescent THEN "none" ELSE stage]
          IN /\ stage = session[s].unconfirmed
             /\ \/ /\ \E known \in {session[s], seen} :
                         session' = [session EXCEPT ![s] = [known EXCEPT !.state = "Refused"]]
                   /\ Return
                \/ /\ Launch(s, "restore")
                   /\ UNCHANGED frames
                \/ /\ Unstarted(s, "restore")
                   /\ Return
                \/ /\ session' = [session EXCEPT ![s] = [seen EXCEPT !.state = "Retained"]]
                   /\ Return
    BY DEF Answer
  <2>2. "restore" \in Stages \cup {"none"}
        /\ (IF receipt[<<s, stage>>].quiescent THEN "none" ELSE stage) \in Stages \cup {"none"}
    BY DEF Stages
  <2>3. CASE Launch(s, "restore") /\ UNCHANGED frames
    <3>1. session' = [session EXCEPT ![s].unconfirmed = "restore"]
      BY <2>3 DEF Launch
    <3> QED BY <1>1, <2>2, <2>3, <3>1, Exchanges4 DEF IInv
  <2>4. CASE Unstarted(s, "restore") /\ Return
    <3>1. session' = [session EXCEPT ![s].unconfirmed = "restore", ![s].state = "Refused"]
      BY <2>4 DEF Unstarted
    <3> QED BY <1>1, <2>2, <2>4, <3>1, Exchanges4 DEF IInv
  <2> DEFINE u == IF receipt[<<s, stage>>].quiescent THEN "none" ELSE stage
             seen == [session[s] EXCEPT !.unconfirmed = u]
  <2>5. u \in Stages \cup {"none"}
    BY <2>2
  <2>6. CASE /\ \E known \in {session[s], seen} :
                  session' = [session EXCEPT ![s] = [known EXCEPT !.state = "Refused"]]
             /\ Return
    <3> HIDE DEF u
    <3>1. CASE session' = [session EXCEPT ![s] = [session[s] EXCEPT !.state = "Refused"]]
      BY <1>1, <2>5, <2>6, <3>1, Exchanges4 DEF IInv
    <3>2. CASE session' = [session EXCEPT ![s] =
                             [[session[s] EXCEPT !.unconfirmed = u] EXCEPT !.state = "Refused"]]
      BY <1>1, <2>5, <2>6, <3>2, Exchanges4 DEF IInv
    <3> QED BY <2>6, <3>1, <3>2
  <2>7. CASE /\ session' = [session EXCEPT ![s] = [seen EXCEPT !.state = "Retained"]]
             /\ Return
    <3> HIDE DEF u
    <3>1. session' = [session EXCEPT ![s] =
                        [[session[s] EXCEPT !.unconfirmed = u] EXCEPT !.state = "Retained"]]
      BY <2>7
    <3> QED BY <1>1, <2>5, <2>7, <3>1, Exchanges4 DEF IInv
  <2> QED BY <2>1, <2>3, <2>4, <2>6, <2>7
<1>3. PICK state \in {"Fresh", "Refused", "Retained"} : Exchanged(s, state)
  BY <1>2
<1>4. /\ Known' = Known /\ session'[s].state = state
      /\ \A r \in Sessions : session'[r].held = session[r].held
      /\ \A r \in Known : session'[r].run = session[r].run
      /\ \A r \in Known : session'[r].held <=> session'[r].state # "Disposed"
  <2> HIDE DEF s
  <2> QED BY <1>1, <1>3, ExchangeKeeps
<1>5. Left' = Left /\ Failed' = Failed
  BY <1>1 DEF Left, Failed
<1>6. PoolInv'
  BY <1>1, <1>4, <1>5, PoolKept DEF PoolInv
<1>7. \A q \in Slots : slot[q].kind = "Acquired" => slot[q].session \in Sessions
  BY DEF IInv, SlotInv, Known
<1>8. \A r \in Known : r \in Sessions
  BY DEF Known
<1>9. CASE Exchanged(s, "Fresh") /\ UNCHANGED frames
  <2>1. Top' = Top
    BY <1>9 DEF Top, Outside
  <2>2. ManagerInv'
    BY <1>1, <1>9, <2>1 DEF ManagerInv
  <2>3. BornInv'
    <3>1. session'[s].state = "Fresh"
      <4> HIDE DEF s
      <4> QED BY <1>1, <1>9, ExchangeKeeps
    <3> QED BY <1>4, <2>1, <3>1 DEF BornInv
  <2>4. LiveInv'
    BY <1>1, <1>4, <1>5, <1>7, <1>9, <2>1 DEF LiveInv, Acquiring
  <2>5. RunInv' /\ OwedInv'
    BY <1>1, <1>4, <1>8, <1>9 DEF RunInv, OwedInv
  <2> QED BY <1>6, <2>2, <2>3, <2>4, <2>5
<1>10. CASE Return
  <2>1. /\ n > 1 /\ Top = frames[n] /\ Len(frames') = n - 1
        /\ \A k \in 1..(n - 1) : frames'[k] = frames[k]
        /\ Top' = frames[n - 1] /\ Top'.op \in {"run", "acquire"}
        /\ ManagerInv'
    BY <1>1, <1>10, Below
  <2>2. BornInv'
    BY <1>4, <2>1 DEF BornInv
  <2>3. RunInv' /\ OwedInv'
    BY <1>1, <1>4, <1>8, <2>1, RunsKept
  <2>4. LiveInv'
    <3>1. \A k \in 1..n : frames[k].op = "acquire" => k \in 1..(n - 1)
      BY <1>1, <2>1
    <3>2. 1..(n - 1) \subseteq 1..n
      BY <1>1
    <3>3. \A q \in Slots :
            (\E k \in 1..(n - 1) : frames'[k].op = "acquire" /\ frames'[k].slot = q) <=>
            (\E k \in 1..n : frames[k].op = "acquire" /\ frames[k].slot = q)
      BY <2>1, <3>1, <3>2
    <3> QED BY <1>1, <1>4, <1>5, <1>7, <2>1, <3>2, <3>3 DEF LiveInv, Acquiring
  <2> QED BY <1>6, <2>1, <2>2, <2>3, <2>4
<1> QED BY <1>2, <1>9, <1>10

-----------------------------------------------------------------------------
(* The steps of disposal. *)

LEMMA FinishOwes ==
  ASSUME IInv, IInv', OInv, Finish
  PROVE  OInv'
<1> DEFINE n == Len(frames)
           publish == [op |-> "publish", run |-> Top.run, clean |-> FALSE]
           disposal == Disposal(cleanups, TRUE)
<1> USE DEF OInv
<1>1. /\ Len(frames') = n + 1
      /\ \A k \in 1..(n - 1) : frames'[k] = frames[k]
      /\ frames'[n] = publish /\ frames'[n + 1] = disposal /\ Top' = disposal
  BY Finished
<1>2. /\ Top.op = "run" /\ manager = "Executing" /\ manager' = "Disposing"
      /\ cleanups' = << >> /\ runs' = runs /\ slot' = slot /\ session' = session
      /\ Known' = Known /\ n \in Nat /\ n \in 1..n /\ Top = frames[n]
  <2>1. Top.op = "run" /\ n # 0
    BY Stack DEF Finish
  <2> QED BY <2>1, Stack DEF Finish, Known
<1>3. \A k \in 1..(n - 1) : frames[k].op = "publish"
  BY <1>2 DEF ManagerInv, Shape, Fits
<1>4. /\ publish.op = "publish" /\ publish.run = Top.run /\ publish.clean = FALSE
      /\ disposal.op = "dispose" /\ disposal.left = cleanups /\ disposal.failed = << >>
      /\ disposal.finishing = TRUE
  BY DEF Disposal
<1> HIDE DEF publish, disposal
<1>5. \A k \in 1..(n + 1) : k \in 1..(n - 1) \/ k = n \/ k = n + 1
  BY <1>2
<1>6. Left' = Left /\ Failed' = Failed
  BY <1>1, <1>2, <1>4 DEF Left, Failed, Disposer
<1>7. ManagerInv'
  <2>1. \A k \in 1..n : frames'[k].op = "publish"
    BY <1>1, <1>2, <1>3, <1>4
  <2>2. \A k \in 1..(n + 1) : Fits(frames', k)
    BY <1>1, <1>2, <1>4, <1>5, <2>1 DEF Fits
  <2> QED BY <1>1, <1>2, <1>4, <2>2 DEF ManagerInv, Shape
<1>8. PoolInv'
  BY <1>2, <1>6, PoolKept
<1>9. BornInv'
  BY <1>1, <1>2, <1>4, BornKept
<1>10. LiveInv'
  <2>1. \A k \in 1..n : frames[k].op # "acquire"
    BY <1>2, <1>3
  <2>2. \A k \in 1..(n + 1) : frames'[k].op # "acquire"
    BY <1>1, <1>3, <1>4, <1>5
  <2> QED BY <1>1, <1>2, <1>4, <1>6, <2>1, <2>2 DEF LiveInv, Acquiring
<1>11. RunInv'
  <2>1. \A k \in 1..n : frames'[k].run = frames[k].run /\ frames[k].op \in {"run", "publish"}
    BY <1>1, <1>2, <1>3, <1>4
  <2>2. \A k \in 1..(n + 1) : frames'[k].op \in {"run", "publish"} => k \in 1..n
    BY <1>1, <1>2, <1>4, <1>5
  <2> QED BY <1>1, <1>2, <2>1, <2>2 DEF RunInv
<1>12. OwedInv'
  <2> SUFFICES ASSUME NEW s \in Known, NEW k \in 1..(n + 1), session[s].held
               PROVE  /\ frames'[k].op # "run"
                      /\ frames'[k].op = "publish" /\ session[s].run = frames'[k].run =>
                           ~frames'[k].clean
                      /\ frames'[k].op = "dispose" /\ session[s].run = frames'[k - 1].run =>
                           Within(s, frames'[k].left)
    BY <1>1, <1>2 DEF OwedInv
  <2>1. CASE k \in 1..(n - 1)
    BY <1>1, <1>2, <1>3, <2>1 DEF OwedInv
  <2>2. CASE k = n
    BY <1>1, <1>4, <2>2
  <2>3. CASE k = n + 1
    <3>1. frames'[k - 1] = publish
      BY <1>1, <1>2, <2>3
    <3> QED BY <1>1, <1>2, <1>4, <2>3, <3>1 DEF OwedInv
  <2> QED BY <1>5, <2>1, <2>2, <2>3
<1> QED BY <1>7, <1>8, <1>9, <1>10, <1>11, <1>12

LEMMA RetryOwes ==
  ASSUME IInv, IInv', OInv, Retry
  PROVE  OInv'
<1> DEFINE n == Len(frames)
           disposal == Disposal(cleanups, FALSE)
<1> USE DEF OInv
<1>1. /\ Len(frames') = n + 1 /\ \A k \in 1..n : frames'[k] = frames[k]
      /\ frames'[n + 1] = disposal /\ Top' = disposal /\ n \in Nat
  BY Pushed, Stack DEF Retry
<1>2. \A k \in 1..n : frames[k].op = "publish"
  BY Resting DEF Retry
<1>3. /\ manager = "CleanupFailed" /\ manager' = "Disposing"
      /\ cleanups' = << >> /\ runs' = runs /\ slot' = slot /\ session' = session
      /\ Known' = Known
  BY DEF Retry, Known
<1>4. /\ disposal.op = "dispose" /\ disposal.left = cleanups /\ disposal.failed = << >>
      /\ disposal.finishing = FALSE
  BY DEF Disposal
<1> HIDE DEF disposal
<1>5. \A k \in 1..(n + 1) : k \in 1..n \/ k = n + 1
  BY <1>1
<1>6. Left' = Left /\ Failed' = Failed
  BY <1>1, <1>3, <1>4 DEF Left, Failed, Disposer
<1>7. ManagerInv'
  <2>1. \A k \in 1..n : frames'[k].op = "publish"
    BY <1>1, <1>2
  <2>2. \A k \in 1..(n + 1) : Fits(frames', k)
    BY <1>1, <1>4, <1>5, <2>1 DEF Fits
  <2> QED BY <1>1, <1>3, <1>4, <2>2 DEF ManagerInv, Shape
<1>8. PoolInv'
  BY <1>3, <1>6, PoolKept
<1>9. BornInv'
  BY <1>1, <1>3, <1>4, BornKept
<1>10. LiveInv'
  <2>1. \A k \in 1..(n + 1) : frames'[k].op # "acquire"
    BY <1>1, <1>2, <1>4, <1>5
  <2>2. \A p \in Slots : slot'[p] # Acquiring /\ slot'[p].kind # "Acquired"
    BY <1>2, <1>3 DEF LiveInv
  <2> QED BY <1>1, <2>1, <2>2 DEF LiveInv, Acquiring
<1>11. RunInv'
  <2>1. \A k \in 1..(n + 1) : frames'[k].op \in {"run", "publish"} =>
                                k \in 1..n /\ frames'[k] = frames[k]
    BY <1>1, <1>4, <1>5
  <2> QED BY <1>1, <1>3, <2>1 DEF RunInv
<1>12. OwedInv'
  <2>1. \A k \in 1..(n + 1) : \/ k \in 1..n /\ frames'[k] = frames[k] /\ frames'[k].op = "publish"
                              \/ frames'[k].op = "dispose" /\ frames'[k].finishing = FALSE
    BY <1>1, <1>2, <1>4, <1>5
  <2> QED BY <1>1, <1>3, <2>1 DEF OwedInv
<1> QED BY <1>7, <1>8, <1>9, <1>10, <1>11, <1>12

LEMMA RunReturnsOwes ==
  ASSUME IInv, IInv', OInv, RunReturns
  PROVE  OInv'
<1> DEFINE n == Len(frames)
<1> USE DEF OInv
<1>1. /\ Top.op = "publish" /\ manager' = manager /\ manager \in {"Idle", "CleanupFailed"}
      /\ cleanups' = cleanups /\ runs' = runs /\ slot' = slot /\ session' = session
      /\ Known' = Known
  BY DEF RunReturns, Known, ManagerInv
<1>2. \A k \in 1..n : frames[k].op = "publish"
  BY <1>1, Resting
<1>3. /\ Len(frames') = n - 1 /\ n \in Nat /\ n # 0
      /\ \A k \in 1..(n - 1) : frames'[k] = frames[k] /\ k \in 1..n
  BY <1>1, Popped, Stack DEF RunReturns
<1>4. Top'.op \in {"outside", "publish"}
  <2>1. CASE n - 1 = 0
    BY <1>3, <2>1, Stack DEF Outside
  <2>2. CASE n - 1 # 0
    <3>1. n - 1 \in 1..(n - 1) /\ frames'[n - 1] = frames[n - 1] /\ n - 1 \in 1..n
      BY <1>3, <2>2
    <3> QED BY <1>2, <1>3, <2>2, <3>1, Stack
  <2> QED BY <2>1, <2>2
<1>5. Left' = Left /\ Failed' = Failed
  BY <1>1 DEF Left, Failed
<1>6. ManagerInv'
  <2>1. \A k \in 1..(n - 1) : frames'[k].op = "publish"
    BY <1>2, <1>3
  <2>2. \A k \in 1..(n - 1) : \A j \in 1..(k - 1) : j \in 1..(n - 1)
    BY <1>3
  <2>3. \A k \in 1..(n - 1) : Fits(frames', k)
    BY <2>1, <2>2 DEF Fits
  <2> QED BY <1>1, <1>3, <1>4, <2>3 DEF ManagerInv, Shape
<1>7. PoolInv'
  BY <1>1, <1>5, PoolKept DEF PoolInv
<1>8. BornInv'
  BY <1>1, <1>4, BornKept
<1>9. LiveInv'
  <2>1. \A p \in Slots : slot'[p] # Acquiring /\ slot'[p].kind # "Acquired"
    BY <1>1, <1>2 DEF LiveInv
  <2> QED BY <1>2, <1>3, <2>1 DEF LiveInv, Acquiring
<1>10. RunInv' /\ OwedInv'
  <2>1. \A k \in 1..n : frames[k].op # "run"
    BY <1>2
  <2>2. Len(frames') <= Len(frames) /\ manager # "Executing"
    BY <1>1, <1>3
  <2> QED BY <1>1, <1>3, <2>1, <2>2, RunsKept
<1> QED BY <1>6, <1>7, <1>8, <1>9, <1>10

LEMMA PublishTold ==
  ASSUME NEW fr \in Frames, fr.op = "publish", NEW clean \in BOOLEAN
  PROVE  /\ [fr EXCEPT !.clean = clean].op = "publish"
         /\ [fr EXCEPT !.clean = clean].run = fr.run
         /\ [fr EXCEPT !.clean = clean].clean = clean
  BY DEF Frames

LEMMA DisposeEndsOwes ==
  ASSUME IInv, IInv', OInv, DisposeEnds
  PROVE  OInv'
<1> DEFINE n == Len(frames)
           failed == Top.failed
           clean == Top.failed = << >>
<1> USE DEF OInv
<1>1. /\ n \in Nat \ {0} /\ Len(frames') = n - 1
      /\ \A k \in 1..(n - 2) : frames'[k] = frames[k]
      /\ \A k \in 1..(n - 1) : frames[k].op = "publish"
      /\ Top.finishing => n > 1
      /\ n > 1 => frames'[n - 1] = IF Top.finishing
                                   THEN [frames[n - 1] EXCEPT !.clean = clean]
                                   ELSE frames[n - 1]
  BY Disposed DEF ManagerInv
<1>2. /\ Top.op = "dispose" /\ Top.left = << >> /\ manager = "Disposing"
      /\ manager' = IF clean THEN "Idle" ELSE "CleanupFailed"
      /\ cleanups' = Reverse(failed) /\ runs' = runs /\ slot' = slot /\ session' = session
      /\ Known' = Known /\ Top = frames[n] /\ n \in 1..n /\ clean \in BOOLEAN
  BY <1>1, Stack DEF DisposeEnds, Known, ManagerInv, Kept
<1>3. Left = << >> /\ Failed = failed /\ Left' = Reverse(failed) /\ Failed' = << >>
  BY <1>2 DEF Left, Failed, Disposer
<1>4. /\ failed \in Seq(Known) /\ Known \subseteq Nat
      /\ Top.finishing \in BOOLEAN
  BY <1>2, <1>3, Pools, Stack, FrameFields
<1>5. \A s : ~Within(s, << >>)
  BY EmptySeq DEF Within
<1>6. \A k \in 1..(n - 1) : frames'[k].op = "publish" /\ frames'[k].run = frames[k].run
  <2>1. ASSUME n > 1
        PROVE  frames'[n - 1].op = "publish" /\ frames'[n - 1].run = frames[n - 1].run
    <3>1. n - 1 \in 1..(n - 1) /\ n - 1 \in 1..n
      BY <1>1, <2>1
    <3>2. frames[n - 1] \in Frames /\ frames[n - 1].op = "publish"
      BY <1>1, <3>1, Stack
    <3> HIDE DEF clean
    <3>3. [frames[n - 1] EXCEPT !.clean = clean].op = "publish"
          /\ [frames[n - 1] EXCEPT !.clean = clean].run = frames[n - 1].run
      BY <1>2, <3>2, PublishTold
    <3> QED BY <1>1, <2>1, <3>2, <3>3
  <2>2. \A k \in 1..(n - 1) : k \in 1..(n - 2) \/ (k = n - 1 /\ n > 1)
    BY <1>1
  <2> QED BY <1>1, <2>1, <2>2
<1>7. Top'.op \in {"outside", "publish"}
  <2>1. CASE n - 1 = 0
    BY <1>1, <2>1, Stack DEF Outside
  <2>2. CASE n - 1 # 0
    <3>1. n - 1 \in 1..(n - 1)
      BY <1>1, <2>2
    <3> QED BY <1>1, <1>6, <2>2, <3>1, Stack
  <2> QED BY <2>1, <2>2
<1>8. ManagerInv'
  <2>1. \A k \in 1..(n - 1) : Fits(frames', k)
    BY <1>1, <1>6 DEF Fits
  <2>2. manager' \in {"Idle", "CleanupFailed"}
    BY <1>2
  <2> QED BY <1>1, <1>7, <2>1, <2>2 DEF ManagerInv, Shape
<1>9. PoolInv'
  <2>1. /\ Ordered(Reverse(failed), << >>)
        /\ \A s : Within(s, failed) => Within(s, Reverse(failed))
    BY <1>3, <1>4, Reverses DEF PoolInv
  <2>2. ASSUME manager' \in {"Idle", "Disposing"} PROVE cleanups' = << >>
    <3>1. failed = << >>
      BY <1>2, <2>2
    <3>2. Len(Reverse(<< >>)) = 0 /\ Reverse(<< >>) \in Seq(Known)
      BY EmptySeq, Reversed DEF Reverse
    <3> QED BY <1>2, <3>1, <3>2, EmptySeq
  <2>3. ASSUME NEW s \in Sessions, session'[s].held PROVE Within(s, Left')
    BY <1>2, <1>3, <1>5, <2>1, <2>3 DEF PoolInv
  <2> QED BY <1>3, <2>1, <2>2, <2>3 DEF PoolInv
<1>10. BornInv'
  BY <1>2, <1>7, BornKept
<1>11. LiveInv'
  <2>1. \A k \in 1..n : frames[k].op # "acquire"
    BY <1>1, <1>2
  <2>2. \A p \in Slots : slot'[p] # Acquiring /\ slot'[p].kind # "Acquired"
    BY <1>2, <1>3, <1>5, <2>1 DEF LiveInv
  <2> QED BY <1>1, <1>6, <2>2 DEF LiveInv, Acquiring
<1>12. RunInv'
  <2>1. \A k \in 1..(n - 1) : k \in 1..n /\ frames[k].op = "publish"
    BY <1>1
  <2> QED BY <1>1, <1>2, <1>6, <2>1 DEF RunInv
<1>13. OwedInv'
  <2> SUFFICES ASSUME NEW s \in Known, NEW k \in 1..(n - 1), session[s].held,
                      session[s].run = frames[k].run
               PROVE  ~frames'[k].clean
    BY <1>1, <1>2, <1>6 DEF OwedInv
  <2>1. k \in 1..n /\ frames[k].op = "publish" /\ frames[k] \in Frames
    BY <1>1, Stack
  <2>2. ~frames[k].clean
    BY <2>1 DEF OwedInv
  <2>3. CASE k # n - 1 \/ ~Top.finishing
    <3>1. frames'[k] = frames[k]
      BY <1>1, <2>3
    <3> QED BY <2>2, <3>1
  <2>4. CASE k = n - 1 /\ Top.finishing
    <3>1. frames[n].op = "dispose" /\ frames[n].finishing /\ frames[n - 1] = frames[k]
      BY <1>2, <2>4
    <3>2. Within(s, << >>) \/ Within(s, failed)
      BY <1>2, <3>1 DEF OwedInv
    <3>3. clean = FALSE
      BY <1>5, <3>2
    <3>4. frames'[k] = [frames[k] EXCEPT !.clean = FALSE]
      BY <1>1, <2>4, <3>3
    <3> QED BY <2>1, <3>4, PublishTold
  <2> QED BY <2>3, <2>4
<1> QED BY <1>8, <1>9, <1>10, <1>11, <1>12, <1>13

(* What the end of the disposal of a session, or its failure, makes of it. *)
LEMMA SessionPassed ==
  ASSUME IInv, BornInv, NEW s \in Known, NEW failed \in BOOLEAN,
         IF failed THEN \/ session' = session
                        \/ session' = [session EXCEPT ![s].unconfirmed = "none"]
         ELSE Done(s)
  PROVE  /\ Known' = Known
         /\ ~failed => ~session'[s].held
         /\ \A r \in Sessions : /\ session'[r].held => session[r].held
                                /\ r # s => session'[r].held = session[r].held
         /\ \A r \in Known : /\ session'[r].run = session[r].run
                             /\ session'[r].held <=> session'[r].state # "Disposed"
<1>1. s \in Sessions /\ session[s] \in Altered(s) /\ \A r \in Known : r \in Sessions
  BY KnownSession DEF IInv, Known
<1>2. CASE session' = session
  <2>1. failed \/ Done(s)
    OBVIOUS
  <2>2. ASSUME Done(s) PROVE ~session'[s].held
    <3>1. session'[s] = [session[s] EXCEPT !.state = "Disposed", !.unconfirmed = "none",
                                           !.held = FALSE]
      BY <1>1, <2>2 DEF Done, IInv, SessionInv
    <3> QED BY <1>1, <3>1 DEF Altered
  <2> QED BY <1>1, <1>2, <2>1, <2>2 DEF BornInv, Known
<1>3. ASSUME NEW value \in Altered(s), session' = [session EXCEPT ![s] = value],
             \/ value.held = session[s].held /\ value.state = session[s].state /\ failed
             \/ value.held = FALSE /\ value.state = "Disposed"
      PROVE  /\ Known' = Known
             /\ ~failed => ~session'[s].held
             /\ \A r \in Sessions : /\ session'[r].held => session[r].held
                                    /\ r # s => session'[r].held = session[r].held
             /\ \A r \in Known : /\ session'[r].run = session[r].run
                                 /\ session'[r].held <=> session'[r].state # "Disposed"
  <2>1. Others(s) /\ session'[s] = value /\ Known' = Known
    BY <1>3, Alters DEF IInv
  <2>2. value.run = session[s].run
    BY DEF Altered
  <2>3. \A r \in Sessions : r # s => session'[r] = session[r]
    BY <2>1 DEF Others
  <2>4. session'[s].held => session[s].held
    BY <1>3, <2>1
  <2>5. \A r \in Known : session'[r].held <=> session'[r].state # "Disposed"
    BY <1>1, <1>3, <2>1, <2>3 DEF BornInv
  <2> QED BY <1>1, <1>3, <2>1, <2>2, <2>3, <2>4, <2>5
<1>4. CASE failed /\ session' = [session EXCEPT ![s].unconfirmed = "none"]
  <2> DEFINE value == [session[s] EXCEPT !.unconfirmed = "none"]
  <2>1. /\ value \in Altered(s) /\ value.state = session[s].state
        /\ value.held = session[s].held
    BY <1>1 DEF Altered
  <2>2. session' = [session EXCEPT ![s] = value]
    BY <1>4
  <2> HIDE DEF value
  <2> QED BY <1>3, <1>4, <2>1, <2>2
<1>5. CASE Done(s)
  <2> DEFINE value == [session[s] EXCEPT !.state = "Disposed", !.unconfirmed = "none",
                                         !.held = FALSE]
  <2>1. value \in Altered(s) /\ value.state = "Disposed" /\ value.held = FALSE
    BY <1>1 DEF Altered
  <2>2. session' = [session EXCEPT ![s] = value]
    BY <1>5 DEF Done
  <2> HIDE DEF value
  <2> QED BY <1>3, <2>1, <2>2
<1> QED BY <1>2, <1>4, <1>5

LEMMA PassedFields ==
  ASSUME NEW fr \in Frames, fr.op = "dispose", NEW left, NEW failed
  PROVE  /\ [fr EXCEPT !.left = left, !.failed = failed].op = "dispose"
         /\ [fr EXCEPT !.left = left, !.failed = failed].left = left
         /\ [fr EXCEPT !.left = left, !.failed = failed].failed = failed
         /\ [fr EXCEPT !.left = left, !.failed = failed].finishing = fr.finishing
  BY DEF Frames

(* The frame d of the stack, a disposal, is done with its next session.   *)
Proceeds(d, s, failed) ==
  /\ manager = "Disposing" /\ manager' = manager /\ cleanups' = cleanups /\ runs' = runs
  /\ Known' = Known
  /\ frames[d].op = "dispose" /\ frames[d].left # << >> /\ s = Last(frames[d].left)
  /\ Left = frames[d].left /\ Failed = frames[d].failed
  /\ Len(frames') = d /\ Top' = frames'[d]
  /\ \A k \in 1..(d - 1) : frames'[k] = frames[k]
  /\ frames'[d] = [frames[d] EXCEPT !.left = Front(@),
                                    !.failed = IF failed THEN Append(@, s) ELSE @]
  /\ ~failed => ~session'[s].held
  /\ \A r \in Sessions : /\ session'[r].held => session[r].held
                         /\ r # s => session'[r].held = session[r].held
  /\ \A r \in Known : /\ session'[r].run = session[r].run
                      /\ session'[r].held <=> session'[r].state # "Disposed"
  /\ \A p \in Slots : /\ slot'[p] \in {slot[p], Empty}
                      /\ slot'[p].kind = "Acquired" => slot[p].session # s

LEMMA Passing ==
  ASSUME IInv, IInv', OInv, NEW d \in 1..Len(frames), NEW s, NEW failed \in BOOLEAN,
         Proceeds(d, s, failed)
  PROVE  OInv'
<1> DEFINE left == frames[d].left
           more == IF failed THEN Append(frames[d].failed, s) ELSE frames[d].failed
<1> USE DEF OInv, Proceeds
<1>1. /\ d \in Nat \ {0} /\ Len(frames) \in Nat
      /\ \A k \in 1..(d - 1) : frames[k].op = "publish" /\ k \in 1..Len(frames)
      /\ frames[d] \in Frames
  BY Stack DEF ManagerInv, Shape, Fits
<1>2. /\ frames'[d].op = "dispose" /\ frames'[d].left = Front(left)
      /\ frames'[d].failed = more /\ frames'[d].finishing = frames[d].finishing
  <2>1. frames'[d] = [frames[d] EXCEPT !.left = Front(left), !.failed = more]
    OBVIOUS
  <2> DEFINE fr == frames[d]
             next == [fr EXCEPT !.left = Front(left), !.failed = more]
  <2>2. fr \in Frames /\ fr.op = "dispose"
    BY <1>1
  <2> HIDE DEF left, more, fr
  <2>3. /\ next.op = "dispose" /\ next.left = Front(left)
        /\ next.failed = more /\ next.finishing = fr.finishing
    BY <2>2, PassedFields
  <2>4. frames'[d] = next
    BY <2>1 DEF fr
  <2> HIDE DEF next
  <2> QED BY <2>3, <2>4 DEF fr
<1>3. Left' = Front(left) /\ Failed' = more
  BY <1>2 DEF Left, Failed, Disposer
<1>4. /\ Ordered(Front(left), more)
      /\ ~Within(s, Front(left))
      /\ \A r : /\ Within(r, left) => r = s \/ Within(r, Front(left))
                /\ Within(r, frames[d].failed) => Within(r, more)
      /\ failed => Within(s, more)
  <2> DEFINE lost == frames[d].failed
  <2>1. left \in Seq(Known) /\ lost \in Seq(Known) /\ Known \subseteq Nat
    BY Pools
  <2>2. Ordered(left, lost)
    BY DEF PoolInv
  <2>3. /\ more \in {lost, Append(lost, Last(left))}
        /\ failed => more = Append(lost, Last(left))
        /\ left # << >> /\ s = Last(left)
    OBVIOUS
  <2> HIDE DEF more, left, lost
  <2>4. /\ Ordered(Front(left), more)
        /\ ~Within(Last(left), Front(left))
        /\ \A r : /\ Within(r, left) => r = Last(left) \/ Within(r, Front(left))
                  /\ Within(r, lost) => Within(r, more)
        /\ more = Append(lost, Last(left)) => Within(Last(left), more)
    BY ONLY <2>1, <2>2, <2>3, Passes
  <2>5. \A r : Within(r, frames[d].failed) => Within(r, more)
    BY <2>4 DEF lost
  <2> QED BY <2>3, <2>4, <2>5
<1> HIDE DEF more
<1>5. \A k \in 1..d : k \in 1..(d - 1) \/ k = d
  BY <1>1
<1>6. ManagerInv'
  <2>1. \A k \in 1..d : Fits(frames', k)
    <3>1. \A k \in 1..(d - 1) : frames'[k].op = "publish"
      BY <1>1
    <3>2. \A k \in 1..d : \A j \in 1..(k - 1) : j \in 1..(d - 1)
      BY <1>1
    <3>3. frames[d].finishing => d > 1
      BY <1>1 DEF ManagerInv, Shape, Fits
    <3> QED BY <1>2, <1>5, <3>1, <3>2, <3>3 DEF Fits
  <2> QED BY <1>2, <2>1 DEF ManagerInv, Shape
<1>7. PoolInv'
  <2>1. ASSUME NEW r \in Sessions, session'[r].held
        PROVE  Within(r, Front(left)) \/ Within(r, more)
    <3>1. Within(r, left) \/ Within(r, frames[d].failed)
      BY <2>1 DEF PoolInv
    <3> QED BY <1>4, <2>1, <3>1
  <2> QED BY <1>3, <1>4, <2>1 DEF PoolInv
<1>8. BornInv'
  BY <1>2 DEF BornInv
<1>9. LiveInv'
  <2>1. \A k \in 1..Len(frames) : frames[k].op # "acquire"
    <3>1. Len(frames) \in 1..Len(frames) /\ Top = frames[Len(frames)]
          /\ Top.op \in {"dispose", "cleanup"}
      BY <1>1, Stack DEF ManagerInv
    <3>2. ASSUME NEW k \in 1..Len(frames), frames[k].op = "acquire" PROVE FALSE
      <4>1. CASE k < d
        BY <1>1, <3>2, <4>1
      <4>2. CASE k > d
        <5>1. frames[d + 1].op = "cleanup" /\ d + 1 \in 1..Len(frames)
          <6>1. d + 1 \in 1..Len(frames) /\ d \in 1..((d + 1) - 1)
            BY <1>1, <4>2
          <6>2. frames[d + 1] \in Frames /\ Fits(frames, d + 1)
            BY <6>1, Stack DEF ManagerInv, Shape
          <6>3. frames[(d + 1) - 1].op = "dispose"
            BY <1>1
          <6> QED BY <6>1, <6>2, <6>3, FrameFields DEF Fits
        <5>2. k > d + 1
          BY <1>1, <3>2, <4>2, <5>1
        <5>3. frames[d + 2].op # "cleanup" /\ d + 2 \in 1..Len(frames) /\ Fits(frames, d + 2)
              /\ frames[(d + 2) - 1].op = "cleanup"
          BY <1>1, <5>1, <5>2 DEF ManagerInv, Shape, Fits
        <5>4. frames[d + 2] \in Frames /\ d \in 1..((d + 2) - 1)
          BY <1>1, <5>3, Stack
        <5> QED BY <5>3, <5>4, FrameFields DEF Fits
      <4> QED BY <1>1, <3>2, <4>1, <4>2
    <3> QED BY <3>2
  <2>2. \A p \in Slots : slot'[p] # Acquiring
    BY <2>1 DEF LiveInv, Empty, Acquiring
  <2>3. \A k \in 1..d : frames'[k].op # "acquire"
    BY <1>1, <1>2, <1>5
  <2>4. ASSUME NEW p \in Slots, slot'[p].kind = "Acquired"
        PROVE  session'[slot'[p].session].held /\ Within(slot'[p].session, Front(left))
    <3>1. slot'[p] = slot[p] /\ slot[p].session # s
      BY <2>4 DEF Empty
    <3>2. slot[p].session \in Sessions
      BY <2>4, <3>1 DEF IInv, SlotInv, Known
    <3>3. session[slot[p].session].held /\ Within(slot[p].session, left)
      BY <2>4, <3>1 DEF LiveInv
    <3> QED BY <1>4, <3>1, <3>2, <3>3
  <2> QED BY <1>2, <1>3, <2>2, <2>3, <2>4 DEF LiveInv, Acquiring
<1>10. RunInv'
  <2>1. \A k \in 1..d : k \in 1..Len(frames)
    BY <1>1
  <2>2. \A k \in 1..d : frames'[k].op \in {"run", "publish"} => frames'[k] = frames[k]
    BY <1>2, <1>5
  <2> QED BY <2>1, <2>2 DEF RunInv
<1>11. OwedInv'
  <2> SUFFICES ASSUME NEW r \in Known, NEW k \in 1..d, session'[r].held
               PROVE  /\ frames'[k].op # "run"
                      /\ frames'[k].op = "publish" /\ session'[r].run = frames'[k].run =>
                           ~frames'[k].clean
                      /\ frames'[k].op = "dispose" /\ frames'[k].finishing
                             /\ session'[r].run = frames'[k - 1].run =>
                           Within(r, frames'[k].left) \/ Within(r, frames'[k].failed)
    BY DEF OwedInv
  <2>0. r \in Sessions /\ session[r].held /\ session'[r].run = session[r].run
    BY DEF Known
  <2>1. CASE k \in 1..(d - 1)
    BY <1>1, <2>0, <2>1 DEF OwedInv
  <2>2. CASE k = d
    <3> SUFFICES ASSUME frames[d].finishing, session[r].run = frames'[d - 1].run
                 PROVE  Within(r, Front(left)) \/ Within(r, more)
      BY <1>2, <2>0, <2>2
    <3>1. d > 1
      BY DEF ManagerInv, Shape, Fits
    <3>2. frames'[d - 1] = frames[d - 1]
      BY <1>1, <3>1
    <3>3. Within(r, left) \/ Within(r, frames[d].failed)
      BY <2>0, <3>2 DEF OwedInv
    <3> QED BY <1>4, <3>3
  <2> QED BY <1>5, <2>1, <2>2
<1> QED BY <1>6, <1>7, <1>8, <1>9, <1>10, <1>11

LEMMA CleanupEndsOwes ==
  ASSUME IInv, IInv', OInv, CleanupEnds
  PROVE  OInv'
<1> DEFINE n == Len(frames)
           s == Top.session
           d == n - 1
<1> USE DEF OInv
<1>1. /\ n \in Nat /\ n >= 2 /\ Len(frames') = d
      /\ \A k \in 1..(d - 1) : frames'[k] = frames[k]
      /\ frames[d].op = "dispose" /\ frames[d].left # << >> /\ Last(frames[d].left) = s
      /\ Top' = frames'[d]
  <2>1. \A k \in 1..(d - 1) : k \in 1..(n - 2)
    OBVIOUS
  <2> QED BY <2>1, CalledBack DEF ManagerInv
<1>2. PICK failed \in BOOLEAN :
        /\ frames'[d] = [frames[d] EXCEPT !.left = Front(@),
                                          !.failed = IF failed THEN Append(@, s) ELSE @]
        /\ IF failed THEN session' = session ELSE Done(s)
  BY CalledBack DEF ManagerInv
<1>3. /\ Top.op = "cleanup" /\ s \in Known /\ manager = "Disposing"
      /\ UNCHANGED <<manager, cleanups, slot, runs>> /\ d \in 1..n
  BY <1>1, Tops DEF CleanupEnds, IInv, Guests, ManagerInv
<1>4. Left = frames[d].left /\ Failed = frames[d].failed
  BY <1>3 DEF Left, Failed, Disposer
<1>5. /\ Known' = Known
      /\ ~failed => ~session'[s].held
      /\ \A r \in Sessions : /\ session'[r].held => session[r].held
                             /\ r # s => session'[r].held = session[r].held
      /\ \A r \in Known : /\ session'[r].run = session[r].run
                          /\ session'[r].held <=> session'[r].state # "Disposed"
  <2> HIDE DEF s
  <2> QED BY <1>2, <1>3, SessionPassed
<1>6. \A p \in Slots : /\ slot'[p] \in {slot[p], Empty}
                       /\ slot'[p].kind = "Acquired" => slot[p].session # s
  BY <1>3 DEF LiveInv
<1>7. Proceeds(d, s, failed)
  <2> HIDE DEF d, s
  <2> QED BY <1>1, <1>2, <1>3, <1>4, <1>5, <1>6 DEF Proceeds
<1> HIDE DEF d, s
<1> QED BY <1>3, <1>7, Passing

LEMMA DisposeProcessPasses ==
  ASSUME NEW s, DisposeProcess(s)
  PROVE  \E failed \in BOOLEAN :
           /\ Becomes(Pass(s, failed))
           /\ IF failed THEN \/ session' = session
                             \/ session' = [session EXCEPT ![s].unconfirmed = "none"]
              ELSE Done(s)
  BY DEF DisposeProcess, Removes

LEMMA DisposeNextOwes ==
  ASSUME IInv, IInv', OInv, DisposeNext
  PROVE  OInv'
<1> DEFINE n == Len(frames)
           s == Last(Top.left)
           fr == [op |-> "cleanup", session |-> s]
<1> USE DEF OInv
<1>1. /\ Top.op = "dispose" /\ Top.left # << >> /\ s \in Known /\ session[s].slot \in Slots
      /\ manager = "Disposing" /\ UNCHANGED <<manager, cleanups, runs>>
      /\ slot' = [slot EXCEPT ![session[s].slot] = Empty] /\ slot \in [Slots -> SlotStates]
      /\ n \in Nat /\ n \in 1..n /\ Top = frames[n]
  <2>1. Top.op = "dispose" /\ Top.left # << >> /\ n # 0
    BY Stack DEF DisposeNext
  <2> QED BY <2>1, NextSession, Stack DEF DisposeNext, IInv, SlotInv, ManagerInv
<1>2. \A k \in 1..(n - 1) : frames[k].op = "publish"
  BY <1>1 DEF ManagerInv, Shape, Fits
<1>3. \A p \in Slots : /\ slot'[p] \in {slot[p], Empty}
                       /\ slot'[p].kind = "Acquired" => slot[p].session # s
  <2>1. ASSUME NEW p \in Slots, slot'[p].kind = "Acquired" PROVE slot[p].session # s
    <3>1. p # session[s].slot
      BY <1>1, <2>1 DEF Empty
    <3>2. slot'[p] = slot[p]
      BY <1>1, <3>1
    <3> QED BY <2>1, <3>1, <3>2 DEF IInv, SlotInv
  <2> QED BY <1>1, <2>1
<1>4. CASE DisposeProcess(s)
  <2>1. PICK failed \in BOOLEAN :
          /\ Becomes(Pass(s, failed))
          /\ IF failed THEN \/ session' = session
                            \/ session' = [session EXCEPT ![s].unconfirmed = "none"]
             ELSE Done(s)
    BY <1>4, DisposeProcessPasses
  <2>2. /\ Len(frames') = n /\ \A k \in 1..(n - 1) : frames'[k] = frames[k]
        /\ frames'[n] = Pass(s, failed) /\ Top' = Pass(s, failed)
    BY <1>1, <2>1, Swapped
  <2>3. frames'[n] = [frames[n] EXCEPT !.left = Front(@),
                                       !.failed = IF failed THEN Append(@, s) ELSE @]
        /\ Top' = frames'[n]
    BY <1>1, <2>2 DEF Pass
  <2>4. /\ Known' = Known
        /\ ~failed => ~session'[s].held
        /\ \A r \in Sessions : /\ session'[r].held => session[r].held
                               /\ r # s => session'[r].held = session[r].held
        /\ \A r \in Known : /\ session'[r].run = session[r].run
                            /\ session'[r].held <=> session'[r].state # "Disposed"
    <3> HIDE DEF s
    <3> QED BY <1>1, <2>1, SessionPassed
  <2>5. Left = frames[n].left /\ Failed = frames[n].failed
    BY <1>1 DEF Left, Failed, Disposer
  <2>6. frames[n].op = "dispose" /\ frames[n].left # << >> /\ s = Last(frames[n].left)
    BY <1>1
  <2>7. Proceeds(n, s, failed)
    <3> HIDE DEF s
    <3> QED BY <1>1, <1>3, <2>2, <2>3, <2>4, <2>5, <2>6 DEF Proceeds
  <2> HIDE DEF s
  <2> QED BY <1>1, <2>7, Passing
<1>5. CASE Call(fr) /\ session' = session
  <2>1. /\ Len(frames') = n + 1 /\ \A k \in 1..n : frames'[k] = frames[k]
        /\ frames'[n + 1] = fr /\ Top' = fr
    BY <1>5, Pushed
  <2>2. fr.op = "cleanup" /\ fr.session = s
    OBVIOUS
  <2>3. Known' = Known
    BY <1>5 DEF Known
  <2> HIDE DEF fr
  <2>4. \A k \in 1..(n + 1) : (k \in 1..n /\ frames'[k] = frames[k]) \/ k = n + 1
    BY <1>1, <2>1
  <2>5. Left' = Left /\ Failed' = Failed
    <3>1. Disposer' = frames'[n] /\ Disposer = frames[n]
      BY <1>1, <2>1, <2>2 DEF Disposer
    <3> QED BY <1>1, <2>1, <3>1 DEF Left, Failed
  <2>6. ManagerInv'
    <3>1. Fits(frames', n + 1)
      BY <1>1, <2>1, <2>2 DEF Fits
    <3>2. Shape(frames')
      <4>1. /\ n <= Len(frames) /\ n <= Len(frames') /\ Len(frames') \in Nat
            /\ \A k \in (n + 1)..Len(frames') : Fits(frames', k)
        BY <1>1, <2>1, <3>1
      <4>2. Shape(frames)
        BY DEF ManagerInv
      <4> QED BY <1>1, <2>1, <4>1, <4>2, ShapeKept
    <3> QED BY <1>1, <2>1, <2>2, <3>2 DEF ManagerInv
  <2>7. PoolInv'
    BY <1>1, <1>5, <2>5, PoolKept DEF PoolInv
  <2>8. BornInv'
    BY <1>5, <2>1, <2>2, BornKept
  <2>9. \A k \in 1..(n + 1) : frames'[k].op # "acquire" /\ frames'[k].op # "run"
    <3>1. \A k \in 1..n : k \in 1..(n - 1) \/ k = n
      BY <1>1
    <3> QED BY <1>1, <1>2, <2>1, <2>2, <2>4, <3>1
  <2>10. LiveInv'
    <3>1. \A k \in 1..n : frames[k].op # "acquire"
      BY <1>1, <2>1, <2>9
    <3>2. \A p \in Slots : slot'[p] # Acquiring
      BY <1>3, <3>1 DEF LiveInv, Empty, Acquiring
    <3>3. ASSUME NEW p \in Slots, slot'[p].kind = "Acquired"
          PROVE  /\ session'[slot'[p].session].held
                 /\ Within(slot'[p].session, Left')
                 /\ slot'[p].session # s
      <4>1. slot'[p] = slot[p] /\ slot[p].session # s
        BY <1>3, <3>3 DEF Empty
      <4> QED BY <1>5, <2>5, <3>3, <4>1 DEF LiveInv
    <3> QED BY <1>1, <2>1, <2>2, <2>9, <3>2, <3>3 DEF LiveInv, Acquiring
  <2>11. RunInv'
    BY <1>1, <1>5, <2>1, <2>2, <2>3, <2>4 DEF RunInv
  <2>12. OwedInv'
    <3>1. ASSUME NEW k \in 1..n, frames[k].op = "dispose", frames[k].finishing
          PROVE  frames'[k - 1] = frames[k - 1]
      <4>1. k > 1
        BY <3>1 DEF ManagerInv, Shape, Fits
      <4> QED BY <1>1, <2>1, <4>1
    <3> QED BY <1>1, <1>5, <2>1, <2>2, <2>3, <2>4, <2>9, <3>1 DEF OwedInv
  <2> QED BY <2>6, <2>7, <2>8, <2>10, <2>11, <2>12
<1> QED BY <1>4, <1>5 DEF DisposeNext

LEMMA OInvHolds == Spec => [](IInv /\ OInv)
<1>1. Init => IInv /\ OInv
  <2> SUFFICES ASSUME Init PROVE OInv
    <3>1. Init => IInv
      BY IInvStarts
    <3> QED BY <3>1
  <2> USE DEF Init
  <2>1. Len(frames) = 0 /\ Top = Outside /\ Left = << >> /\ Failed = << >> /\ Known = {}
    BY EmptySeq DEF Top, Left, Failed, Known, Unborn
  <2>2. \A f : Len(f) = 0 => 1..Len(f) = {}
    OBVIOUS
  <2>3. ManagerInv
    BY <2>1 DEF ManagerInv, Shape, Outside
  <2>4. PoolInv
    BY <2>1 DEF PoolInv, Ordered, Unborn
  <2>5. BornInv
    BY <2>1 DEF BornInv, Outside
  <2>6. LiveInv
    BY <2>1 DEF LiveInv, Empty, Acquiring
  <2>7. RunInv /\ OwedInv
    BY <2>1 DEF RunInv, OwedInv
  <2> QED BY <2>3, <2>4, <2>5, <2>6, <2>7 DEF OInv
<1>2. IInv /\ IInv' /\ OInv /\ [Next]_vars => OInv'
  <2> SUFFICES ASSUME IInv, IInv', OInv, [Next]_vars PROVE OInv'
    OBVIOUS
  <2>1. CASE UNCHANGED vars
    BY <2>1, NothingOwed DEF vars, hostVars
  <2>2. CASE Publish
    BY <2>2, NothingOwed DEF Publish
  <2>3. ASSUME NEW x \in Exchanges, Process(x) PROVE OInv'
    <3>1. UNCHANGED <<manager, cleanups, slot, session, frames, runs>>
      BY <2>3 DEF Process
    <3> QED BY <3>1, NothingOwed
  <2> QED BY <2>1, <2>2, <2>3, BeginOwes, AcquireOwes, RestoreOwes, AcquireReturnsOwes,
            AcquireRaisesOwes, AnswerOwes, FinishOwes, RetryOwes, DisposeNextOwes,
            CleanupEndsOwes, DisposeEndsOwes, RunReturnsOwes DEF Next
<1> QED BY <1>1, <1>2, IInvHolds, PTL DEF Spec

-----------------------------------------------------------------------------
(* From the invariant to the promises. *)

LEMMA WithinIsMember ==
  ASSUME NEW S, NEW q \in Seq(S), NEW s, Within(s, q)
  PROVE  s \in ToSet(q)
  BY LenProperties DEF Within, ToSet

(* The disposal under way is the only one on the stack. *)
LEMMA OneDisposal ==
  ASSUME IInv, ManagerInv
  PROVE  /\ \A k \in 1..Len(frames) :
              frames[k].op = "dispose" => manager = "Disposing" /\ frames[k] = Disposer
         /\ manager = "Disposing" =>
              \E k \in 1..Len(frames) : frames[k].op = "dispose" /\ frames[k] = Disposer
         /\ \A k \in 1..Len(frames) : frames[k].op = "cleanup" => Top = frames[k]
<1> DEFINE n == Len(frames)
<1>1. /\ n \in Nat /\ \A k \in 1..n : frames[k] \in Frames
      /\ n # 0 => Top = frames[n]
      /\ n = 0 => Top = Outside
  BY StackNow
<1>2. ASSUME NEW k \in 1..n, frames[k].op = "cleanup" PROVE k = n
  <2> SUFFICES ASSUME k < n PROVE FALSE
    BY <1>1
  <2>1. k + 1 \in 1..n /\ k \in 1..((k + 1) - 1)
    BY <1>1
  <2>2. Fits(frames, k + 1) /\ frames[k + 1] \in Frames /\ frames[(k + 1) - 1].op = "cleanup"
    BY <1>1, <1>2, <2>1 DEF ManagerInv, Shape
  <2> QED BY <1>2, <2>1, <2>2, FrameFields DEF Fits
<1>3. ASSUME NEW k \in 1..n, frames[k].op = "dispose"
      PROVE  k = n \/ (k = n - 1 /\ frames[n].op = "cleanup")
  <2> SUFFICES ASSUME k < n PROVE k = n - 1 /\ frames[n].op = "cleanup"
    BY <1>1
  <2>1. k + 1 \in 1..n /\ k \in 1..((k + 1) - 1)
    BY <1>1
  <2>2. Fits(frames, k + 1) /\ frames[k + 1] \in Frames /\ frames[(k + 1) - 1].op = "dispose"
    BY <1>1, <1>3, <2>1 DEF ManagerInv, Shape
  <2>3. frames[k + 1].op = "cleanup"
    BY <1>3, <2>1, <2>2, FrameFields DEF Fits
  <2>4. k + 1 = n
    BY <1>2, <2>1, <2>3
  <2> QED BY <1>1, <2>3, <2>4
<1>4. ASSUME NEW k \in 1..n, frames[k].op = "dispose"
      PROVE  manager = "Disposing" /\ frames[k] = Disposer
  <2>1. CASE k = n
    BY <1>1, <1>4, <2>1 DEF ManagerInv, Disposer
  <2>2. CASE k = n - 1 /\ frames[n].op = "cleanup"
    BY <1>1, <1>4, <2>2 DEF ManagerInv, Disposer
  <2> QED BY <1>3, <1>4, <2>1, <2>2
<1>5. ASSUME manager = "Disposing"
      PROVE  \E k \in 1..n : frames[k].op = "dispose" /\ frames[k] = Disposer
  <2>1. n # 0 /\ n \in 1..n /\ Top.op \in {"dispose", "cleanup"}
    BY <1>1, <1>5 DEF ManagerInv, Outside
  <2>2. CASE Top.op = "dispose"
    BY <1>1, <2>1, <2>2 DEF Disposer
  <2>3. CASE Top.op = "cleanup"
    <3>1. n > 1 /\ frames[n - 1].op = "dispose"
      BY <1>1, <2>1, <2>3 DEF ManagerInv, Shape, Fits
    <3> QED BY <1>1, <2>3, <3>1 DEF Disposer
  <2> QED BY <2>1, <2>2, <2>3
<1> QED BY <1>1, <1>2, <1>4, <1>5

(* The host owes its sessions nothing that it forgot: whatever has         *)
(* resources has a callback, the disposals go backwards, and what is       *)
(* given access to is alive.                                               *)
THEOREM SessionsAreOwed == Spec => []SessionsInv
<1>1. IInv /\ OInv => SessionsInv
  <2> SUFFICES ASSUME IInv, OInv PROVE SessionsInv
    OBVIOUS
  <2> USE DEF OInv
  <2>1. /\ Left \in Seq(Known) /\ Failed \in Seq(Known) /\ cleanups \in Seq(Known)
        /\ Known \subseteq Nat /\ Len(frames) \in Nat /\ DOMAIN frames = 1..Len(frames)
    BY Pools, LenProperties DEF IInv, StackInv
  <2>2. /\ \A k \in 1..Len(frames) :
             frames[k].op = "dispose" => manager = "Disposing" /\ frames[k] = Disposer
        /\ manager = "Disposing" =>
             \E k \in 1..Len(frames) : frames[k].op = "dispose" /\ frames[k] = Disposer
        /\ \A k \in 1..Len(frames) : frames[k].op = "cleanup" => Top = frames[k]
    BY OneDisposal
  <2>3. ASSUME NEW s, Within(s, Left) \/ Within(s, Failed)
        PROVE  s \in ToSet(cleanups) \cup InDisposal
    <3>1. s \in ToSet(Left) \/ s \in ToSet(Failed)
      BY <2>1, <2>3, WithinIsMember
    <3>2. CASE manager = "Disposing"
      <4>1. PICK k \in 1..Len(frames) : frames[k].op = "dispose" /\ frames[k] = Disposer
        BY <2>2, <3>2
      <4>2. s \in ToSet(frames[k].left) \cup ToSet(frames[k].failed)
        BY <3>1, <3>2, <4>1 DEF Left, Failed
      <4> QED BY <2>1, <4>1, <4>2 DEF InDisposal
    <3>3. CASE manager # "Disposing"
      <4>1. ToSet(<< >>) = {}
        BY DEF ToSet
      <4> QED BY <3>1, <3>3, <4>1 DEF Left, Failed
    <3> QED BY <3>2, <3>3
  <2>4. NothingLeaks
    BY <2>3 DEF NothingLeaks, PoolInv
  <2>5. ReverseOrder
    <3>1. Increasing(Left) /\ Increasing(Left \o Reverse(Failed))
      BY <2>1, Increases DEF PoolInv
    <3>2. Increasing(cleanups)
      <4>1. CASE manager = "Disposing"
        BY <4>1 DEF PoolInv, Increasing
      <4>2. CASE manager # "Disposing"
        BY <3>1, <4>2 DEF Left
      <4> QED BY <4>1, <4>2
    <3>3. ASSUME NEW k \in DOMAIN frames, frames[k].op = "dispose"
          PROVE  /\ Increasing(frames[k].left)
                 /\ Increasing(frames[k].left \o Reverse(frames[k].failed))
      <4>1. Left = frames[k].left /\ Failed = frames[k].failed
        BY <2>1, <2>2, <3>3 DEF Left, Failed
      <4> QED BY <3>1, <4>1
    <3> QED BY <3>2, <3>3 DEF ReverseOrder
  <2>6. SlotsAreLive
    <3> SUFFICES ASSUME NEW p \in Slots, slot[p].kind = "Acquired", NEW s, s = slot[p].session
                 PROVE  /\ session[s].held /\ session[s].slot = p
                        /\ s \in ToSet(cleanups) \cup InDisposal
                        /\ ~\E k \in DOMAIN frames :
                              frames[k].op = "cleanup" /\ frames[k].session = s
                        /\ manager \in {"Executing", "Disposing"}
      BY <2>1 DEF SlotsAreLive, LiveInv
    <3>1. session[s].slot = p
      BY DEF IInv, SlotInv
    <3>2. session[s].held /\ Within(s, Left) /\ manager \in {"Executing", "Disposing"}
          /\ (Top.op = "cleanup" => Top.session # s)
      BY DEF LiveInv
    <3>3. s \in ToSet(cleanups) \cup InDisposal
      BY <2>3, <3>2
    <3> QED BY <2>1, <2>2, <3>1, <3>2, <3>3
  <2> QED BY <2>4, <2>5, <2>6 DEF SessionsInv
<1> QED BY <1>1, OInvHolds, PTL

(* A run publishes only when all of its sessions were disposed. *)
THEOREM PublishesWhenDisposed == Spec => PublishesAfterCleanup
<1> DEFINE After ==
             \A run \in published' \ published :
               \A s \in Sessions :
                 session[s].state # "Unborn" /\ session[s].run = run
                   => session[s].state = "Disposed"
<1>1. IInv /\ OInv /\ [Next]_vars => [After]_published
  <2> SUFFICES ASSUME IInv, OInv, [Next]_vars, published' # published,
                      NEW run \in published' \ published, NEW s \in Known,
                      session[s].run = run
               PROVE  session[s].state = "Disposed"
    BY DEF Known
  <2>1. Publish
    BY DEF Next, vars, hostVars, Begin, Acquire, Restore, AcquireReturns, AcquireRaises, Answer,
           Finish, Retry, DisposeNext, CleanupEnds, DisposeEnds, RunReturns, Process
  <2>2. Top.op = "publish" /\ Top.clean /\ run = Top.run
    BY <2>1 DEF Publish
  <2>3. Len(frames) \in 1..Len(frames) /\ Top = frames[Len(frames)]
    <3>1. frames \in Seq(Frames)
      BY DEF IInv, StackInv
    <3>2. frames # << >>
      BY <2>2 DEF Top, Outside
    <3> QED BY <3>1, <3>2, Stacked DEF Top
  <2>4. ~session[s].held
    BY <2>2, <2>3 DEF OInv, OwedInv
  <2> QED BY <2>4 DEF OInv, BornInv
<1> QED BY <1>1, OInvHolds, PTL DEF Spec, PublishesAfterCleanup
=============================================================================
