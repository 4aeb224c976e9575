----------------------------- MODULE PadProofs -----------------------------
(***************************************************************************)
(* Theorems about VirtualPad, for any number of boot presses and any       *)
(* configuration of the lockscreen worker.                                 *)
(***************************************************************************)
EXTENDS VirtualPad, SequenceTheorems, TLAPS

LEMMA TwoThreads ==
  ASSUME NEW t \in Thread
  PROVE  /\ Other(t) \in Thread /\ Other(t) # t /\ Other(Other(t)) = t
         /\ \A u \in Thread : u = t \/ u = Other(t)
BY DEF Thread, Other

-----------------------------------------------------------------------------
(***************************************************************************)
(* The queue of hid.                                                       *)
(***************************************************************************)

\* Appending to a queue of one.
LEMMA AppendSecond ==
  ASSUME NEW S, NEW u \in S, NEW t \in S
  PROVE  Append(<<u>>, t) = <<u, t>>
<1> DEFINE q == <<u>>
<1>1. q \in Seq(S) /\ Len(q) = 1 /\ q[1] = u
  OBVIOUS
<1> HIDE DEF q
<1>2. Append(q, t) \in Seq(S)
  BY <1>1, AppendProperties
<1>3. Len(Append(q, t)) = 2
  <2>1. Len(Append(q, t)) = Len(q) + 1
    BY <1>1, AppendProperties
  <2> QED BY <1>1, <2>1
<1>4. \A i \in 1..Len(q) : Append(q, t)[i] = q[i]
  BY <1>1, AppendProperties
<1>5. Append(q, t)[Len(q) + 1] = t
  BY <1>1, AppendProperties
<1>6. Append(q, t)[1] = u /\ Append(q, t)[2] = t
  <2>1. 1 \in 1..Len(q) /\ Len(q) + 1 = 2
    BY <1>1
  <2> QED BY <1>1, <1>4, <1>5, <2>1
<1>7. ASSUME NEW r \in Seq(S), Len(r) = 2, r[1] = u, r[2] = t PROVE r = <<u, t>>
  BY <1>7
<1> QED BY <1>2, <1>3, <1>6, <1>7 DEF q

\* The thread that has its answer is the first one waiting.
LEMMA AnsweredFirst ==
  ASSUME InOrder, NEW t \in Thread, NEW c \in PadCalls, Answered(t, c)
  PROVE  Waits(t) /\ IsFirst(t)
<1>1. Waits(t)
  BY DEF Answered, Waits
<1>2. CASE \E u \in Thread : queue = <<u>>
  BY <1>2, <1>1 DEF Answered, IsFirst
<1>3. CASE \E u \in Thread : queue = <<u, Other(u)>>
  BY <1>3, <1>1 DEF Answered, IsFirst
<1> QED BY <1>1, <1>2, <1>3 DEF InOrder

\* A thread that is first, or does not wait, leaves the queue to the other one.
LEMMA LeavesOther ==
  ASSUME InOrder, NEW t \in Thread, ~Waits(t) \/ IsFirst(t)
  PROVE  WithoutThread(t) = IF Waits(Other(t)) THEN <<Other(t)>> ELSE <<>>
<1> DEFINE o == Other(t)
<1>0. o \in Thread /\ o # t /\ Other(o) = t /\ \A u \in Thread : u = t \/ u = o
  BY TwoThreads
<1> HIDE DEF o
<1>1. CASE queue = <<>>
  BY <1>0, <1>1 DEF InOrder, WithoutThread, o
<1>2. CASE queue = <<t>>
  BY <1>0, <1>2 DEF InOrder, WithoutThread, o
<1>3. CASE queue = <<o>>
  BY <1>0, <1>3 DEF InOrder, WithoutThread, o
<1>4. CASE queue = <<t, o>>
  BY <1>0, <1>4 DEF InOrder, WithoutThread, o
<1>5. CASE queue = <<o, t>>
  BY <1>0, <1>5 DEF InOrder, WithoutThread, IsFirst, o
<1> QED BY <1>0, <1>1, <1>2, <1>3, <1>4, <1>5 DEF InOrder, o

\* A thread that calls hid is answered after the other one.
LEMMA CallsInOrder ==
  ASSUME TypeOK, InOrder, NEW t \in Thread, ~Waits(t) \/ IsFirst(t),
         NEW c \in PadCalls, NEW g \in BOOLEAN, Calls(t, c, g)
  PROVE  /\ InOrder'
         /\ call'[t] = c /\ call'[Other(t)] = call[Other(t)]
         /\ granted'[t] = g /\ granted'[Other(t)] = granted[Other(t)]
         /\ IsFirst(t)' <=> ~Waits(Other(t))
         /\ IsFirst(Other(t))' <=> Waits(Other(t))
<1> DEFINE o == Other(t)
<1>0. o \in Thread /\ o # t /\ Other(o) = t /\ \A u \in Thread : u = t \/ u = o
  BY TwoThreads
<1>1. /\ call'[t] = c /\ call'[o] = call[o]
      /\ granted'[t] = g /\ granted'[o] = granted[o]
  BY <1>0 DEF Calls, TypeOK
<1>2. queue' = IF Waits(o) THEN <<o, t>> ELSE <<t>>
  <2>1. queue' = Append(WithoutThread(t), t)
    BY DEF Calls
  <2>2. Append(<<>>, t) = <<t>>
    OBVIOUS
  <2>4. Append(<<o>>, t) = <<o, t>>
    BY <1>0, AppendSecond
  <2>3. WithoutThread(t) = IF Waits(o) THEN <<o>> ELSE <<>>
    BY LeavesOther
  <2> HIDE DEF o
  <2> QED BY <1>0, <2>1, <2>2, <2>3, <2>4
<1>3. Waits(t)' /\ (Waits(o)' <=> Waits(o))
  BY <1>1 DEF Waits
<1> HIDE DEF o
<1>4. InOrder'
  <2>1. CASE Waits(o)
    BY <1>0, <1>2, <1>3, <2>1 DEF InOrder
  <2>2. CASE ~Waits(o)
    <3>1. queue' = <<t>> /\ Waits(t)' /\ ~Waits(o)'
      BY <1>2, <1>3, <2>2
    <3> QED BY <1>0, <3>1 DEF InOrder, o
  <2> QED BY <2>1, <2>2
<1>5. (queue' = <<t>> \/ queue' = <<t, o>>) <=> ~Waits(o)
  BY <1>0, <1>2
<1>6. (queue' = <<o>> \/ queue' = <<o, t>>) <=> Waits(o)
  BY <1>0, <1>2
<1> QED BY <1>0, <1>1, <1>4, <1>5, <1>6 DEF IsFirst, o

\* A thread that has what it waited for lets the other one be answered.
LEMMA LeavesInOrder ==
  ASSUME TypeOK, InOrder, NEW t \in Thread, ~Waits(t) \/ IsFirst(t),
         NEW c \in {"none", "logging"}, queue' = WithoutThread(t),
         call' = [call EXCEPT ![t] = c], granted' = [granted EXCEPT ![t] = FALSE]
  PROVE  /\ InOrder'
         /\ call'[t] = c /\ call'[Other(t)] = call[Other(t)]
         /\ granted'[t] = FALSE /\ granted'[Other(t)] = granted[Other(t)]
         /\ ~IsFirst(t)'
         /\ IsFirst(Other(t))' <=> Waits(Other(t))
<1> DEFINE o == Other(t)
<1>0. o \in Thread /\ o # t /\ Other(o) = t /\ \A u \in Thread : u = t \/ u = o
  BY TwoThreads
<1>1. /\ call'[t] = c /\ call'[o] = call[o]
      /\ granted'[t] = FALSE /\ granted'[o] = granted[o]
  BY <1>0 DEF TypeOK
<1>2. queue' = IF Waits(o) THEN <<o>> ELSE <<>>
  BY LeavesOther
<1>3. ~Waits(t)' /\ (Waits(o)' <=> Waits(o))
  BY <1>1 DEF Waits, PadCalls
<1> HIDE DEF o
<1>4. InOrder'
  BY <1>0, <1>2, <1>3 DEF InOrder
<1>5. ~(queue' = <<t>> \/ queue' = <<t, o>>)
  BY <1>0, <1>2
<1>6. (queue' = <<o>> \/ queue' = <<o, t>>) <=> Waits(o)
  BY <1>0, <1>2
<1> QED BY <1>0, <1>1, <1>4, <1>5, <1>6 DEF IsFirst, o

-----------------------------------------------------------------------------
(***************************************************************************)
(* What is attached.                                                       *)
(***************************************************************************)
HidInv == InOrder /\ WhileAttached /\ WhileDetached

\* A thread that asks hid for nothing new changes nothing.
LEMMA HidQuiet ==
  ASSUME HidInv, UNCHANGED <<call, granted, queue, attached, buf, dev>>
  PROVE  HidInv'
BY Zenon DEF HidInv, InOrder, WhileAttached, WhileDetached, Waits, IsFirst, GotBuf, GotDev, Undone

\* The same for the thread t that acts and the other one, o.
OfBoth(t, o) ==
  /\ attached =>
       /\ dev <=> call[t] \notin {"relDev", "relBuf"} /\ call[o] \notin {"relDev", "relBuf"}
       /\ buf <=> call[t] # "relBuf" /\ call[o] # "relBuf"
       /\ call[t] \notin {"attachDev", "undoBuf"} /\ ~GotBuf(t)
       /\ call[o] \notin {"attachDev", "undoBuf"} /\ ~GotBuf(o)
  /\ ~attached =>
       /\ dev <=> \/ GotDev(t) /\ call[o] # "relBuf"
                  \/ GotDev(o) /\ call[t] # "relBuf"
       /\ buf => \/ (GotBuf(t) \/ call[t] = "attachDev") /\ ~Undone(t)
                 \/ (GotBuf(o) \/ call[o] = "attachDev") /\ ~Undone(o)
       /\ (GotBuf(t) \/ GotDev(t)) /\ ~Undone(t) => buf
       /\ GotBuf(t) => ~GotBuf(o) /\ ~GotDev(o)
       /\ GotBuf(t) /\ call[o] = "attachDev" => IsFirst(o)
       /\ GotDev(t) => call[o] \notin {"attachDev", "undoBuf", "relSet"}
       /\ GotDev(t) /\ call[o] = "relDev" => IsFirst(o)
       /\ GotDev(t) /\ call[o] = "relBuf" => IsFirst(t)
       /\ call[t] = "relSet" => IsFirst(t)
       /\ (GotBuf(o) \/ GotDev(o)) /\ ~Undone(o) => buf
       /\ GotBuf(o) => ~GotBuf(t) /\ ~GotDev(t)
       /\ GotBuf(o) /\ call[t] = "attachDev" => IsFirst(t)
       /\ GotDev(o) => call[t] \notin {"attachDev", "undoBuf", "relSet"}
       /\ GotDev(o) /\ call[t] = "relDev" => IsFirst(t)
       /\ GotDev(o) /\ call[t] = "relBuf" => IsFirst(o)
       /\ call[o] = "relSet" => IsFirst(o)

LEMMA InTermsOfBoth ==
  ASSUME NEW t \in Thread, NEW o, o = Other(t)
  PROVE  /\ WhileAttached /\ WhileDetached <=> OfBoth(t, o)
         /\ (WhileAttached /\ WhileDetached <=> OfBoth(t, o))'
<1>0. o \in Thread /\ o # t /\ Other(o) = t /\ \A u \in Thread : u = t \/ u = o
  BY TwoThreads
<1>1. WhileAttached /\ WhileDetached => OfBoth(t, o)
  BY <1>0, Zenon DEF WhileAttached, WhileDetached, OfBoth
<1>2. OfBoth(t, o) => WhileAttached
  BY <1>0 DEF WhileAttached, OfBoth
<1>3. OfBoth(t, o) => WhileDetached
  BY <1>0 DEF WhileDetached, OfBoth
<1>4. (WhileAttached /\ WhileDetached => OfBoth(t, o))'
  BY <1>0, Zenon DEF WhileAttached, WhileDetached, OfBoth
<1>5. (OfBoth(t, o) => WhileAttached)'
  BY <1>0 DEF WhileAttached, OfBoth
<1>6. (OfBoth(t, o) => WhileDetached)'
  BY <1>0 DEF WhileDetached, OfBoth
<1> QED BY <1>1, <1>2, <1>3, <1>4, <1>5, <1>6

\* Exactly one of the threads that wait is first.
LEMMA OneIsFirst ==
  ASSUME InOrder, NEW t \in Thread, NEW o, o = Other(t)
  PROVE  /\ IsFirst(t) <=> Waits(t) /\ ~IsFirst(o)
         /\ IsFirst(o) => Waits(o)
         /\ Waits(o) /\ ~Waits(t) => IsFirst(o)
<1>0. o \in Thread /\ o # t /\ Other(o) = t /\ \A u \in Thread : u = t \/ u = o
  BY TwoThreads
<1>1. CASE queue = <<>>
  BY <1>0, <1>1 DEF InOrder, IsFirst
<1>2. CASE queue = <<t>>
  BY <1>0, <1>2 DEF InOrder, IsFirst
<1>3. CASE queue = <<o>>
  BY <1>0, <1>3 DEF InOrder, IsFirst
<1>4. CASE queue = <<t, o>>
  BY <1>0, <1>4 DEF InOrder, IsFirst
<1>5. CASE queue = <<o, t>>
  BY <1>0, <1>5 DEF InOrder, IsFirst
<1> QED BY <1>0, <1>1, <1>2, <1>3, <1>4, <1>5 DEF InOrder

\* What there is to know when thread t acts, and what has changed when it has called
\* hid or has come back.
Scene(t, o) ==
  /\ OfBoth(t, o) /\ Other(t) = o /\ Other(o) = t
  /\ IsFirst(t) <=> Waits(t) /\ ~IsFirst(o)
  /\ IsFirst(o) => Waits(o)
  /\ Waits(o) /\ ~Waits(t) => IsFirst(o)
Called(t, o, c, g) ==
  /\ call'[t] = c /\ call'[o] = call[o]
  /\ granted'[t] <=> g
  /\ granted'[o] <=> granted[o]
  /\ IsFirst(t)' <=> ~Waits(o)
  /\ IsFirst(o)' <=> Waits(o)
CameBack(t, o, c) ==
  /\ call'[t] = c /\ call'[o] = call[o]
  /\ ~granted'[t]
  /\ granted'[o] <=> granted[o]
  /\ ~IsFirst(t)'
  /\ IsFirst(o)' <=> Waits(o)

LEMMA ScenesHold ==
  ASSUME HidInv, NEW t \in Thread, NEW o, o = Other(t)
  PROVE  Scene(t, o)
BY InTermsOfBoth, OneIsFirst, TwoThreads DEF HidInv, Scene

\* Thread t calls hid: what is left to show is what the call does there.
LEMMA AfterCall ==
  ASSUME TypeOK, HidInv, NEW t \in Thread, NEW o, o = Other(t),
         ~Waits(t) \/ IsFirst(t),
         NEW c \in PadCalls, NEW g \in BOOLEAN, Calls(t, c, g),
         Scene(t, o) /\ Called(t, o, c, g) => OfBoth(t, o)'
  PROVE  HidInv'
<1>1. InOrder' /\ Called(t, o, c, g)
  BY CallsInOrder DEF HidInv, Called
<1> QED BY <1>1, ScenesHold, InTermsOfBoth DEF HidInv

\* The same for a thread that leaves its call.
LEMMA AfterAnswer ==
  ASSUME TypeOK, HidInv, NEW t \in Thread, NEW o, o = Other(t),
         ~Waits(t) \/ IsFirst(t),
         NEW c \in {"none", "logging"}, queue' = WithoutThread(t),
         call' = [call EXCEPT ![t] = c], granted' = [granted EXCEPT ![t] = FALSE],
         Scene(t, o) /\ CameBack(t, o, c) => OfBoth(t, o)'
  PROVE  HidInv'
<1>1. InOrder' /\ CameBack(t, o, c)
  BY LeavesInOrder DEF HidInv, CameBack
<1> QED BY <1>1, ScenesHold, InTermsOfBoth DEF HidInv

LEMMA HidReuse ==
  ASSUME TypeOK, HidInv, NEW t \in Thread, Reuse(t)
  PROVE  HidInv'
<1> DEFINE o == Other(t)
<1>1. CASE UNCHANGED <<call, granted, queue>>
  BY <1>1, HidQuiet DEF Reuse
<1>2. CASE SetState(t)
  <2>1. call[t] = "none" /\ attached /\ UNCHANGED <<attached, buf, dev>>
        /\ Calls(t, "set", dev)
    BY <1>2 DEF Reuse, SetState
  <2>2. ~Waits(t) /\ "set" \in PadCalls /\ dev \in BOOLEAN
    BY <2>1 DEF Waits, PadCalls, TypeOK
  <2>3. ASSUME Scene(t, o), Called(t, o, "set", dev) PROVE OfBoth(t, o)'
    BY <2>1, <2>3 DEF Scene, Called, OfBoth, GotBuf, GotDev, Undone, Waits, PadCalls
  <2> QED BY <2>1, <2>2, <2>3, AfterCall
<1> QED BY <1>1, <1>2 DEF Reuse

LEMMA HidAttachBuf ==
  ASSUME TypeOK, HidInv, NEW t \in Thread, AttachBuf(t)
  PROVE  HidInv'
<1> DEFINE o == Other(t)
<1>1. PICK g \in Outcomes(~buf) : Calls(t, "attachBuf", g) /\ buf' = (buf \/ g)
  BY DEF AttachBuf
<1>2. call[t] = "none" /\ ~attached /\ ~attached' /\ dev' = dev
  BY DEF AttachBuf
<1>3. g \in BOOLEAN /\ (g => ~buf)
  BY DEF Outcomes
<1>4. ~Waits(t) /\ "attachBuf" \in PadCalls
  BY <1>2 DEF Waits, PadCalls
<1>5. (buf' <=> (buf \/ g)) /\ (dev' <=> dev)
  BY <1>1, <1>2
<1> HIDE DEF o
<1>6. ASSUME Scene(t, o), Called(t, o, "attachBuf", g) PROVE OfBoth(t, o)'
  BY <1>2, <1>3, <1>5, <1>6
     DEF Scene, Called, OfBoth, GotBuf, GotDev, Undone, Waits, PadCalls
<1> QED BY <1>1, <1>3, <1>4, <1>6, AfterCall DEF o

\* The work buffer was refused, or the device is asked for: it is granted only if the
\* other thread has not released the work buffer in between.
LEMMA HidAttachDev ==
  ASSUME TypeOK, HidInv, NEW t \in Thread, AttachDev(t)
  PROVE  HidInv'
<1> DEFINE o == Other(t)
<1>1. Waits(t) /\ IsFirst(t) /\ call[t] = "attachBuf" /\ UNCHANGED <<attached, buf>>
  BY AnsweredFirst DEF AttachDev, Answered, HidInv, PadCalls
<1>2. CASE ~granted[t] /\ Returns(t) /\ UNCHANGED dev
  <2> HIDE DEF o
  <2>1. ASSUME Scene(t, o), CameBack(t, o, "none") PROVE OfBoth(t, o)'
    BY <1>1, <1>2, <2>1
       DEF Scene, CameBack, OfBoth, GotBuf, GotDev, Undone, Waits, PadCalls
  <2> QED BY <1>1, <1>2, <2>1, AfterAnswer DEF Returns, o
<1>3. ASSUME granted[t], NEW g \in Outcomes(buf /\ ~dev), Calls(t, "attachDev", g),
             dev' = (dev \/ g)
      PROVE  HidInv'
  <2>1. g \in BOOLEAN /\ (g => buf /\ ~dev) /\ "attachDev" \in PadCalls
    BY <1>3 DEF Outcomes, PadCalls
  <2>2. dev' <=> (dev \/ g)
    BY <1>3
  <2> HIDE DEF o
  <2>3. ASSUME Scene(t, o), Called(t, o, "attachDev", g) PROVE OfBoth(t, o)'
    BY <1>1, <1>3, <2>1, <2>2, <2>3
       DEF Scene, Called, OfBoth, GotBuf, GotDev, Undone, Waits, PadCalls
  <2> QED BY <1>1, <1>3, <2>1, <2>3, AfterCall DEF o
<1> QED BY <1>2, <1>3 DEF AttachDev

\* The device was granted and the flag goes up, or the work buffer is given back.
LEMMA HidAttached ==
  ASSUME TypeOK, HidInv, NEW t \in Thread, Attached(t)
  PROVE  HidInv'
<1> DEFINE o == Other(t)
<1>1. Waits(t) /\ IsFirst(t) /\ call[t] = "attachDev" /\ UNCHANGED dev
  BY AnsweredFirst DEF Attached, Answered, HidInv, PadCalls
<1>2. CASE granted[t] /\ attached'
  <2>1. UNCHANGED buf
    BY <1>2 DEF Attached
  <2> HIDE DEF o
  <2>2. ASSUME Scene(t, o), CameBack(t, o, "logging") PROVE OfBoth(t, o)'
    BY <1>1, <1>2, <2>1, <2>2
       DEF Scene, CameBack, OfBoth, GotBuf, GotDev, Undone, Waits, PadCalls
  <2> QED BY <1>1, <1>2, <2>2, AfterAnswer DEF Attached, o
<1>3. CASE ~granted[t] /\ Calls(t, "undoBuf", TRUE) /\ ~buf' /\ UNCHANGED attached
  <2>1. "undoBuf" \in PadCalls
    BY DEF PadCalls
  <2> HIDE DEF o
  <2>2. ASSUME Scene(t, o), Called(t, o, "undoBuf", TRUE) PROVE OfBoth(t, o)'
    BY <1>1, <1>3, <2>2
       DEF Scene, Called, OfBoth, GotBuf, GotDev, Undone, Waits, PadCalls
  <2> QED BY <1>1, <1>3, <2>1, <2>2, AfterCall DEF o
<1> QED BY <1>2, <1>3 DEF Attached

\* A thread comes back from a call that has changed nothing it still has to undo.
LEMMA HidComesBack ==
  ASSUME TypeOK, HidInv, NEW t \in Thread,
         call[t] \in {"set", "undoBuf"}, IsFirst(t), Returns(t),
         UNCHANGED <<attached, buf, dev>>
  PROVE  HidInv'
<1> DEFINE o == Other(t)
<1> HIDE DEF o
<1>1. ASSUME Scene(t, o), CameBack(t, o, "none") PROVE OfBoth(t, o)'
  BY <1>1 DEF Scene, CameBack, OfBoth, GotBuf, GotDev, Undone, Waits, PadCalls
<1> QED BY <1>1, AfterAnswer DEF Returns, o

LEMMA HidLogged ==
  ASSUME TypeOK, HidInv, NEW t \in Thread, Logged(t)
  PROVE  HidInv'
<1> DEFINE o == Other(t)
<1>1. call[t] = "logging" /\ ~Waits(t) /\ UNCHANGED <<attached, buf, dev>>
      /\ "set" \in PadCalls /\ dev \in BOOLEAN
  BY DEF Logged, Waits, PadCalls, TypeOK
<1>2. CASE Returns(t)
  <2> HIDE DEF o
  <2>1. ASSUME Scene(t, o), CameBack(t, o, "none") PROVE OfBoth(t, o)'
    BY <1>1, <2>1 DEF Scene, CameBack, OfBoth, GotBuf, GotDev, Undone, Waits, PadCalls
  <2> QED BY <1>1, <1>2, <2>1, AfterAnswer DEF Returns, o
<1>3. CASE SetState(t)
  <2> HIDE DEF o
  <2>1. ASSUME Scene(t, o), Called(t, o, "set", dev) PROVE OfBoth(t, o)'
    BY <1>1, <2>1 DEF Scene, Called, OfBoth, GotBuf, GotDev, Undone, Waits, PadCalls
  <2> QED BY <1>1, <1>3, <2>1, AfterCall DEF SetState, o
<1> QED BY <1>2, <1>3 DEF Logged

LEMMA HidReleaseButtons ==
  ASSUME TypeOK, HidInv, NEW t \in Thread, ReleaseButtons(t)
  PROVE  HidInv'
<1> DEFINE o == Other(t)
<1>1. call[t] = "none" /\ ~Waits(t) /\ attached /\ UNCHANGED <<attached, buf, dev>>
      /\ Calls(t, "relSet", dev) /\ "relSet" \in PadCalls /\ dev \in BOOLEAN
  BY DEF ReleaseButtons, Waits, PadCalls, TypeOK
<1> HIDE DEF o
<1>2. ASSUME Scene(t, o), Called(t, o, "relSet", dev) PROVE OfBoth(t, o)'
  BY <1>1, <1>2 DEF Scene, Called, OfBoth, GotBuf, GotDev, Undone, Waits, PadCalls
<1> QED BY <1>1, <1>2, AfterCall DEF o

LEMMA HidReleaseDev ==
  ASSUME TypeOK, HidInv, NEW t \in Thread, ReleaseDev(t)
  PROVE  HidInv'
<1> DEFINE o == Other(t)
<1>1. call[t] = "relSet" /\ IsFirst(t) /\ UNCHANGED <<attached, buf>> /\ ~dev'
      /\ Calls(t, "relDev", TRUE) /\ "relDev" \in PadCalls
  BY AnsweredFirst DEF ReleaseDev, Answered, HidInv, PadCalls
<1> HIDE DEF o
<1>2. ASSUME Scene(t, o), Called(t, o, "relDev", TRUE) PROVE OfBoth(t, o)'
  BY <1>1, <1>2 DEF Scene, Called, OfBoth, GotBuf, GotDev, Undone, Waits, PadCalls
<1> QED BY <1>1, <1>2, AfterCall DEF o

LEMMA HidReleaseBuf ==
  ASSUME TypeOK, HidInv, NEW t \in Thread, ReleaseBuf(t)
  PROVE  HidInv'
<1> DEFINE o == Other(t)
<1>1. call[t] = "relDev" /\ IsFirst(t) /\ UNCHANGED attached /\ ~dev' /\ ~buf'
      /\ Calls(t, "relBuf", TRUE) /\ "relBuf" \in PadCalls
  BY AnsweredFirst DEF ReleaseBuf, Answered, HidInv, PadCalls
<1> HIDE DEF o
<1>2. ASSUME Scene(t, o), Called(t, o, "relBuf", TRUE) PROVE OfBoth(t, o)'
  BY <1>1, <1>2 DEF Scene, Called, OfBoth, GotBuf, GotDev, Undone, Waits, PadCalls
<1> QED BY <1>1, <1>2, AfterCall DEF o

\* The flag goes down after what it stands for has gone.
LEMMA HidReleased ==
  ASSUME TypeOK, HidInv, NEW t \in Thread, Released(t)
  PROVE  HidInv'
<1> DEFINE o == Other(t)
<1>1. call[t] = "relBuf" /\ IsFirst(t) /\ ~attached' /\ UNCHANGED <<buf, dev>> /\ Returns(t)
  BY AnsweredFirst DEF Released, Answered, HidInv, PadCalls, pad
<1> HIDE DEF o
<1>2. ASSUME Scene(t, o), CameBack(t, o, "none") PROVE OfBoth(t, o)'
  BY <1>1, <1>2 DEF Scene, CameBack, OfBoth, GotBuf, GotDev, Undone, Waits, PadCalls
<1> QED BY <1>1, <1>2, AfterAnswer DEF Returns, o

\* A step of either thread keeps the account of what is attached.
LEMMA HidStep == TypeOK /\ HidInv /\ [Next]_vars => HidInv'
<1> SUFFICES ASSUME TypeOK, HidInv, [Next]_vars PROVE HidInv'
  OBVIOUS
<1> USE DEF threads, pad, other
<1>1. ASSUME NEW t \in Thread, GiveUp(t) \/ WasSet(t) PROVE HidInv'
  <2>1. call[t] \in {"set", "undoBuf"} /\ IsFirst(t) /\ Returns(t)
        /\ UNCHANGED <<attached, buf, dev>>
    BY <1>1, AnsweredFirst DEF GiveUp, WasSet, Answered, HidInv, PadCalls
  <2> QED BY <2>1, HidComesBack
<1>2. ASSUME NEW t \in Thread, HoldOver(t) \/ NothingToRelease(t) PROVE HidInv'
  BY <1>2, HidQuiet DEF HoldOver, NothingToRelease
<1>3. ASSUME NEW t \in Thread, PadStep(t) PROVE HidInv'
  BY <1>1, <1>2, <1>3, HidReuse, HidAttachBuf, HidAttachDev, HidAttached, HidLogged,
     HidReleaseButtons, HidReleaseDev, HidReleaseBuf, HidReleased DEF PadStep
<1>4. CASE ServiceStep \/ NextPress \/ Nudge \/ AppChanges \/ UNCHANGED vars
  <2>1. UNCHANGED <<call, granted, queue, attached, buf, dev>>
    BY <1>4 DEF ServiceStep, ServiceGoes, Connect, Disconnect, Input, Touch, TouchMoves,
       TouchFails, TouchEnds, TypeText, KeyDown, KeyUp, KeyFails, TypingEnds, NextPress,
       Nudge, AppChanges, vars
  <2> QED BY <2>1, HidQuiet
<1> QED BY <1>3, <1>4 DEF Next

-----------------------------------------------------------------------------
(***************************************************************************)
(* Types, and where a thread is in its own code.                           *)
(***************************************************************************)

\* Where a thread goes on when an operation on the pad is over.
Moved(t) ==
  /\ step' = [step EXCEPT ![t] = step'[t]]
  /\ step[t] = "open" => step'[t] \in {"press", "idle", "gap", "release"}
  /\ step[t] = "press" => step'[t] = "hold"
  /\ step[t] = "unpress" => step'[t] \in {"idle", "gap", "release"}
  /\ step[t] = "release" => step'[t] \in {"noClient", "nap", "done"}
  /\ IF t = "service" THEN step'[t] \in ServiceSteps \ {"release"}
                      ELSE step'[t] \in WorkerSteps
  /\ step[t] # "release" => step'[t] \notin {"noClient", "nap", "done"}
  /\ presses' \in 0..Presses
  /\ reply' \in {"none", "ok", "hdls_failed"}

LEMMA GoesOn ==
  ASSUME TypeOK, NEW t \in Thread, step[t] \in {"open", "press", "unpress", "release"},
         Advance(t) \/ NoPad(t)
  PROVE  Moved(t)
<1> USE PadAssumption DEF TypeOK
<1>0. Count \in 0..Presses /\ Rested(Count) \in {"gap", "release"}
  BY DEF Count, Rested
<1>1. CASE Advance(t)
  <2>1. presses' \in 0..Presses
    BY <1>0, <1>1 DEF Advance
  <2>2. reply' \in {"none", "ok", "hdls_failed"}
    BY <1>1 DEF Advance
  <2>3. CASE step[t] = "open"
    BY <1>1, <2>1, <2>2, <2>3 DEF Advance, Moved, Thread, ServiceSteps, WorkerSteps
  <2>4. CASE step[t] = "press"
    BY <1>1, <2>1, <2>2, <2>4 DEF Advance, Moved, Thread, ServiceSteps, WorkerSteps
  <2>5. CASE step[t] = "unpress"
    BY <1>0, <1>1, <2>1, <2>2, <2>5 DEF Advance, Moved, Thread, ServiceSteps, WorkerSteps
  <2>6. CASE step[t] = "release"
    BY <1>1, <2>1, <2>2, <2>6 DEF Advance, Moved, Thread, ServiceSteps, WorkerSteps
  <2> QED BY <2>3, <2>4, <2>5, <2>6
<1>2. CASE NoPad(t) /\ ~Advance(t)
  <2>1. CASE t = "service"
    BY <1>2, <2>1 DEF NoPad, Moved, Thread, ServiceSteps
  <2>2. CASE t # "service"
    BY <1>0, <1>2, <2>2 DEF NoPad, Moved, Thread, WorkerSteps
  <2> QED BY <2>1, <2>2
<1> QED BY <1>1, <1>2

\* A thread with no operation under way is in no call.
LEMMA InItsStep ==
  ASSUME InStep, NEW t \in Thread, call[t] # "none"
  PROVE  /\ step[t] \in {"open", "press", "unpress", "release"}
         /\ call[t] \in {"relSet", "relDev", "relBuf"} <=> step[t] = "release"
BY DEF InStep

\* What the steps of a thread do to its place in the code and to its call.
LEMMA CodeOfOne ==
  ASSUME TypeOK, InStep, NEW t \in Thread, NEW c, step' = [step EXCEPT ![t] = step'[t]],
         call' = [call EXCEPT ![t] = c],
         IF t = "service" THEN step'[t] \in ServiceSteps ELSE step'[t] \in WorkerSteps,
         c \in PadCalls \cup {"none", "logging"},
         step'[t] \notin {"open", "press", "unpress", "release"} => c = "none",
         step'[t] = "release" => c \in {"none", "relSet", "relDev", "relBuf"},
         step'[t] # "release" => c \notin {"relSet", "relDev", "relBuf"},
         step'[t] = "open" => c # "set"
  PROVE  /\ InStep'
         /\ step' \in [Thread -> ServiceSteps \cup WorkerSteps]
         /\ step'["service"] \in ServiceSteps /\ step'["worker"] \in WorkerSteps
         /\ call' \in [Thread -> PadCalls \cup {"none", "logging"}]
<1>1. \A u \in Thread : u # t => step'[u] = step[u] /\ call'[u] = call[u]
  BY DEF TypeOK
<1>2. call'[t] = c
  BY DEF TypeOK
<1>3. InStep'
  BY <1>1, <1>2 DEF InStep
<1>4. step' \in [Thread -> ServiceSteps \cup WorkerSteps]
  BY DEF TypeOK
<1>5. step'["service"] \in ServiceSteps /\ step'["worker"] \in WorkerSteps
  BY <1>1 DEF TypeOK, Thread
<1>6. call' \in [Thread -> PadCalls \cup {"none", "logging"}]
  BY DEF TypeOK
<1> QED BY <1>3, <1>4, <1>5, <1>6

\* The type of everything but the threads' places, calls and the queue.
RestOK ==
  /\ granted \in [Thread -> BOOLEAN]
  /\ attached \in BOOLEAN /\ buf \in BOOLEAN /\ dev \in BOOLEAN
  /\ presses \in 0..Presses
  /\ reply \in {"none", "ok", "hdls_failed"}
  /\ held \in {"nothing", "B", "mask"}
  /\ finger \in BOOLEAN /\ keyboard \in {"off", "clear", "down"} /\ app \in BOOLEAN

PlaceOK ==
  /\ InStep
  /\ step \in [Thread -> ServiceSteps \cup WorkerSteps]
  /\ step["service"] \in ServiceSteps /\ step["worker"] \in WorkerSteps
  /\ call \in [Thread -> PadCalls \cup {"none", "logging"}]

LEMMA TypeFromParts ==
  /\ InOrder /\ PlaceOK /\ RestOK => TypeOK
  /\ (InOrder /\ PlaceOK /\ RestOK => TypeOK)'
<1>1. InOrder => queue \in Seq(Thread)
  <2>1. \A t \in Thread : <<t>> \in Seq(Thread) /\ <<t, Other(t)>> \in Seq(Thread)
    BY TwoThreads
  <2>2. <<>> \in Seq(Thread)
    OBVIOUS
  <2> QED BY <2>1, <2>2, Zenon DEF InOrder
<1>2. (InOrder => queue \in Seq(Thread))'
  <2>1. \A t \in Thread : <<t>> \in Seq(Thread) /\ <<t, Other(t)>> \in Seq(Thread)
    BY TwoThreads
  <2>2. <<>> \in Seq(Thread)
    OBVIOUS
  <2> QED BY <2>1, <2>2, Zenon DEF InOrder
<1>3. PlaceOK /\ RestOK /\ queue \in Seq(Thread) => TypeOK
  BY Zenon DEF PlaceOK, RestOK, TypeOK
<1>4. (PlaceOK /\ RestOK /\ queue \in Seq(Thread) => TypeOK)'
  BY Zenon DEF PlaceOK, RestOK, TypeOK
<1> QED BY <1>1, <1>2, <1>3, <1>4

LEMMA RestStep == TypeOK /\ InStep /\ InOrder /\ [Next]_vars => RestOK'
<1> SUFFICES ASSUME TypeOK, InStep, InOrder, [Next]_vars PROVE RestOK'
  OBVIOUS
<1> USE DEF threads, pad, other
<1>a. RestOK
  BY Zenon DEF TypeOK, RestOK
<1>b. ASSUME NEW t \in Thread, NEW c, NEW g \in BOOLEAN, Calls(t, c, g)
      PROVE  granted' \in [Thread -> BOOLEAN]
  BY <1>b, <1>a DEF Calls, RestOK
<1>c. ASSUME NEW t \in Thread, granted' = [granted EXCEPT ![t] = FALSE]
      PROVE  granted' \in [Thread -> BOOLEAN]
  BY <1>c, <1>a DEF RestOK
<1>d. ASSUME NEW t \in Thread, Advance(t) \/ NoPad(t),
             step[t] \in {"open", "press", "unpress", "release"}
      PROVE  presses' \in 0..Presses /\ reply' \in {"none", "ok", "hdls_failed"}
  BY <1>d, GoesOn DEF Moved
<1>e. ASSUME NEW t \in Thread, SetState(t)
      PROVE  granted' \in [Thread -> BOOLEAN] /\ held' \in {"nothing", "B", "mask"}
  <2>1. granted' \in [Thread -> BOOLEAN]
    BY <1>e, <1>b DEF SetState, TypeOK
  <2>2. held' \in {"nothing", "B", "mask"}
    BY <1>e, <1>a DEF SetState, Buttons, RestOK
  <2> QED BY <2>1, <2>2
<1>1. ASSUME NEW t \in Thread, PadStep(t) PROVE RestOK'
  <2>0. call[t] # "none" => step[t] \in {"open", "press", "unpress", "release"}
    BY InItsStep
  <2>1. CASE Reuse(t)
    BY <2>1, <1>a, <1>d, <1>e DEF Reuse, RestOK
  <2>2. CASE AttachBuf(t)
    <3>1. PICK g \in Outcomes(~buf) : Calls(t, "attachBuf", g) /\ buf' = (buf \/ g)
      BY <2>2 DEF AttachBuf
    <3>2. g \in BOOLEAN /\ buf' \in BOOLEAN
      BY <3>1 DEF Outcomes
    <3> QED BY <2>2, <1>a, <1>b, <3>1, <3>2 DEF AttachBuf, RestOK
  <2>3. CASE AttachDev(t)
    <3>1. CASE Returns(t) /\ NoPad(t) /\ UNCHANGED dev
      BY <2>0, <2>3, <3>1, <1>a, <1>c, <1>d DEF AttachDev, Answered, Returns, RestOK
    <3>2. ASSUME NEW g \in Outcomes(buf /\ ~dev), Calls(t, "attachDev", g),
                 dev' = (dev \/ g), UNCHANGED <<step, presses, reply>>
          PROVE  RestOK'
      <4>1. g \in BOOLEAN /\ dev' \in BOOLEAN
        BY <3>2 DEF Outcomes
      <4> QED BY <2>3, <1>a, <1>b, <3>2, <4>1 DEF AttachDev, RestOK
    <3> QED BY <2>3, <3>1, <3>2 DEF AttachDev
  <2>4. CASE Attached(t)
    BY <2>4, <1>a, <1>b, <1>c DEF Attached, RestOK
  <2>5. CASE GiveUp(t)
    BY <2>0, <2>5, <1>a, <1>c, <1>d DEF GiveUp, Answered, Returns, RestOK
  <2>6. CASE Logged(t)
    BY <2>0, <2>6, <1>a, <1>c, <1>d, <1>e DEF Logged, Returns, RestOK
  <2>7. CASE WasSet(t)
    BY <2>0, <2>7, <1>a, <1>c, <1>d DEF WasSet, Answered, Returns, RestOK
  <2>8. CASE HoldOver(t)
    BY <2>8, <1>a DEF HoldOver, RestOK
  <2>9. CASE NothingToRelease(t)
    BY <2>9, <1>a, <1>d DEF NothingToRelease, RestOK
  <2>10. CASE ReleaseButtons(t)
    BY <2>10, <1>a, <1>b DEF ReleaseButtons, RestOK
  <2>11. CASE ReleaseDev(t)
    BY <2>11, <1>a, <1>b DEF ReleaseDev, RestOK
  <2>12. CASE ReleaseBuf(t)
    BY <2>12, <1>a, <1>b DEF ReleaseBuf, RestOK
  <2>13. CASE Released(t)
    BY <2>0, <2>13, <1>a, <1>c, <1>d DEF Released, Answered, Returns, RestOK
  <2> QED
    BY <1>1, <2>1, <2>2, <2>3, <2>4, <2>5, <2>6, <2>7, <2>8, <2>9, <2>10, <2>11, <2>12, <2>13
       DEF PadStep
<1>2. CASE ServiceStep
  <2>1. /\ UNCHANGED <<granted, attached, presses, buf, dev, held, app>>
        /\ reply' \in {reply, "none"}
        /\ finger' \in {finger, TRUE, FALSE} /\ keyboard' \in {keyboard, "off", "clear", "down"}
    BY <1>2 DEF ServiceStep, ServiceGoes, Connect, Disconnect, Input, Touch, TouchMoves,
       TouchFails, TouchEnds, TypeText, KeyDown, KeyUp, KeyFails, TypingEnds
  <2>2. finger' \in BOOLEAN
    BY <1>a, <2>1, Zenon DEF RestOK
  <2> QED BY <1>a, <2>1, <2>2 DEF RestOK
<1>3. CASE NextPress \/ Nudge \/ AppChanges \/ UNCHANGED vars
  BY <1>3, <1>a, Zenon DEF NextPress, Nudge, AppChanges, vars, RestOK
<1> QED BY <1>1, <1>2, <1>3 DEF Next

LEMMA PlaceStep == TypeOK /\ InStep /\ InOrder /\ [Next]_vars => PlaceOK'
<1> SUFFICES ASSUME TypeOK, InStep, InOrder, [Next]_vars PROVE PlaceOK'
  OBVIOUS
<1> USE DEF threads, pad, other
\* A thread goes from one call to the next of the same operation.
<1>a. ASSUME NEW t \in Thread, NEW c \in PadCalls \cup {"logging"},
             UNCHANGED step, call' = [call EXCEPT ![t] = c],
             step[t] \in {"open", "press", "unpress", "release"},
             c \in {"relSet", "relDev", "relBuf"} <=> step[t] = "release",
             c = "set" => step[t] # "open"
      PROVE  PlaceOK'
  <2>1. step' = [step EXCEPT ![t] = step'[t]]
    BY <1>a DEF TypeOK
  <2>2. IF t = "service" THEN step'[t] \in ServiceSteps ELSE step'[t] \in WorkerSteps
    BY <1>a DEF TypeOK, Thread
  <2> QED BY <1>a, <2>1, <2>2, CodeOfOne DEF PlaceOK
\* A thread is done with an operation.
<1>b. ASSUME NEW t \in Thread, call' = [call EXCEPT ![t] = "none"], Moved(t)
      PROVE  PlaceOK'
  <2>1. /\ step' = [step EXCEPT ![t] = step'[t]]
        /\ IF t = "service" THEN step'[t] \in ServiceSteps ELSE step'[t] \in WorkerSteps
    BY <1>b DEF Moved
  <2> QED BY <1>b, <2>1, CodeOfOne DEF PlaceOK
<1>c. ASSUME NEW t \in Thread, call[t] = "none"
      PROVE  call = [call EXCEPT ![t] = "none"]
  BY <1>c DEF TypeOK
<1>1. ASSUME NEW t \in Thread, PadStep(t) PROVE PlaceOK'
  <2>0. call[t] # "none" => /\ step[t] \in {"open", "press", "unpress", "release"}
                            /\ call[t] \in {"relSet", "relDev", "relBuf"} <=> step[t] = "release"
    BY InItsStep
  <2>1. CASE Reuse(t)
    <3>1. CASE step[t] = "open" /\ Advance(t) /\ UNCHANGED call
      BY <2>1, <3>1, <1>b, <1>c, GoesOn DEF Reuse
    <3>2. CASE step[t] # "open" /\ SetState(t) /\ UNCHANGED step
      BY <2>1, <3>2, <1>a DEF Reuse, SetState, Calls, Using, PadCalls
    <3> QED BY <2>1, <3>1, <3>2 DEF Reuse
  <2>2. CASE AttachBuf(t)
    BY <2>2, <1>a DEF AttachBuf, Calls, Using, PadCalls
  <2>3. CASE AttachDev(t)
    <3>1. CASE Returns(t) /\ NoPad(t)
      BY <2>0, <2>3, <3>1, <1>b, GoesOn DEF AttachDev, Answered, Returns
    <3>2. ASSUME NEW g, Calls(t, "attachDev", g), UNCHANGED step PROVE PlaceOK'
      BY <2>0, <2>3, <3>2, <1>a DEF AttachDev, Answered, Calls, PadCalls
    <3> QED BY <2>3, <3>1, <3>2 DEF AttachDev
  <2>4. CASE Attached(t)
    BY <2>0, <2>4, <1>a DEF Attached, Answered, Calls, PadCalls
  <2>5. CASE GiveUp(t)
    BY <2>0, <2>5, <1>b, GoesOn DEF GiveUp, Answered, Returns
  <2>6. CASE Logged(t)
    <3>1. CASE step[t] = "open" /\ Returns(t) /\ Advance(t)
      BY <3>1, <1>b, GoesOn DEF Returns
    <3>2. CASE step[t] # "open" /\ SetState(t) /\ UNCHANGED step
      BY <2>0, <2>6, <3>2, <1>a DEF Logged, SetState, Calls, PadCalls
    <3> QED BY <2>6, <3>1, <3>2 DEF Logged
  <2>7. CASE WasSet(t)
    BY <2>0, <2>7, <1>b, GoesOn DEF WasSet, Answered, Returns
  <2>8. CASE HoldOver(t)
    <3>1. step[t] = "hold" /\ step' = [step EXCEPT ![t] = "unpress"] /\ UNCHANGED call
          /\ call[t] = "none"
      BY <2>8 DEF HoldOver, InStep
    <3>2. step'[t] = "unpress"
      BY <3>1 DEF TypeOK
    <3>3. IF t = "service" THEN step'[t] \in ServiceSteps ELSE step'[t] \in WorkerSteps
      BY <3>2 DEF ServiceSteps, WorkerSteps
    <3> QED BY <1>c, <3>1, <3>2, <3>3, CodeOfOne DEF PlaceOK
  <2>9. CASE NothingToRelease(t)
    BY <2>9, <1>b, <1>c, GoesOn DEF NothingToRelease
  <2>10. CASE ReleaseButtons(t)
    BY <2>10, <1>a DEF ReleaseButtons, Calls, PadCalls
  <2>11. CASE ReleaseDev(t)
    BY <2>0, <2>11, <1>a DEF ReleaseDev, Answered, Calls, PadCalls
  <2>12. CASE ReleaseBuf(t)
    BY <2>0, <2>12, <1>a DEF ReleaseBuf, Answered, Calls, PadCalls
  <2>13. CASE Released(t)
    BY <2>0, <2>13, <1>b, GoesOn DEF Released, Answered, Returns
  <2> QED
    BY <1>1, <2>1, <2>2, <2>3, <2>4, <2>5, <2>6, <2>7, <2>8, <2>9, <2>10, <2>11, <2>12, <2>13
       DEF PadStep
\* The server thread between two operations on the pad.
<1>d. ASSUME NEW from \in {"noClient", "idle", "touching", "typing"},
             NEW to \in ServiceSteps \ {"press", "hold", "unpress"}, ServiceGoes(from, to)
      PROVE  PlaceOK'
  <2>1. call["service"] = "none" /\ "service" \in Thread /\ UNCHANGED call
        /\ step' = [step EXCEPT !["service"] = to]
    BY <1>d DEF ServiceGoes, InStep, Thread
  <2>2. step'["service"] = to
    BY <2>1 DEF TypeOK
  <2> QED BY <1>c, <1>d, <2>1, <2>2, CodeOfOne DEF PlaceOK
<1>2. CASE ServiceStep
  BY <1>2, <1>d DEF ServiceStep, Connect, Disconnect, Input, Touch, TouchMoves, TouchFails,
     TouchEnds, TypeText, KeyDown, KeyUp, KeyFails, TypingEnds, ServiceSteps
<1>3. CASE NextPress \/ Nudge
  <2>1. call["worker"] = "none" /\ "worker" \in Thread /\ UNCHANGED call
        /\ step' = [step EXCEPT !["worker"] = "open"]
    BY <1>3 DEF NextPress, Nudge, InStep, Thread
  <2>2. step'["worker"] = "open" /\ "open" \in WorkerSteps
    BY <2>1 DEF TypeOK, WorkerSteps
  <2> QED BY <1>c, <2>1, <2>2, CodeOfOne DEF PlaceOK
<1>4. CASE AppChanges \/ UNCHANGED vars
  BY <1>4, Zenon DEF AppChanges, vars, TypeOK, InStep, PlaceOK
<1> QED BY <1>1, <1>2, <1>3, <1>4 DEF Next

LEMMA HidInvariant == Spec => [](TypeOK /\ InStep /\ HidInv)
<1>1. Init => TypeOK /\ InStep /\ HidInv
  <2> SUFFICES ASSUME Init PROVE TypeOK /\ InStep /\ HidInv
    OBVIOUS
  <2>1. InOrder
    BY DEF Init, InOrder, Waits, PadCalls
  <2>2. PlaceOK
    BY DEF Init, PlaceOK, InStep, Thread, ServiceSteps, WorkerSteps
  <2>3. RestOK
    <3>1. attached \in BOOLEAN /\ buf \in BOOLEAN /\ dev \in BOOLEAN /\ finger \in BOOLEAN
          /\ app \in BOOLEAN /\ granted \in [Thread -> BOOLEAN]
      BY Zenon DEF Init
    <3>2. presses \in 0..Presses
      BY PadAssumption DEF Init
    <3> QED BY <3>1, <3>2 DEF Init, RestOK
  <2>4. WhileAttached /\ WhileDetached
    BY DEF Init, WhileAttached, WhileDetached, GotBuf, GotDev, Thread
  <2> QED BY <2>1, <2>2, <2>3, <2>4, TypeFromParts DEF HidInv, PlaceOK
<1>2. TypeOK /\ InStep /\ HidInv /\ [Next]_vars => (TypeOK /\ InStep /\ HidInv)'
  BY HidStep, PlaceStep, RestStep, TypeFromParts DEF HidInv, PlaceOK
<1> QED BY <1>1, <1>2, PTL DEF Spec

\* Every variable of the two threads and of hid keeps its type, for any number of boot
\* presses.
THEOREM PadTypes == Spec => []TypeOK
BY HidInvariant, PTL

\* Whenever neither thread is inside vpad, the flag that both read without a lock says
\* what is attached at hid: however the two interleave, and whatever hid refuses, no
\* work buffer leaks and no detached pad is taken for an attached one (input.cpp).
THEOREM FlagAlwaysTrue == Spec => []FlagIsTrue
<1>1. TypeOK /\ HidInv => FlagIsTrue
  <2> SUFFICES ASSUME TypeOK, HidInv, \A t \in Thread : call[t] = "none"
               PROVE  attached = dev /\ dev = buf
    BY DEF FlagIsTrue
  <2>1. attached \in BOOLEAN /\ dev \in BOOLEAN /\ buf \in BOOLEAN
    BY Zenon DEF TypeOK
  <2>2. attached => dev /\ buf
    BY DEF HidInv, WhileAttached
  <2>3. ~attached => ~dev /\ ~buf
    BY DEF HidInv, WhileDetached, GotBuf, GotDev
  <2> QED BY <2>1, <2>2, <2>3
<1> QED BY <1>1, HidInvariant, PTL

-----------------------------------------------------------------------------
(***************************************************************************)
(* Who holds the buttons and who has the console.                          *)
(***************************************************************************)

\* A state as the thread t that acts and the other one, o, see it.
HeldByOne(t, o) == held # "nothing" =>
  /\ dev
  /\ Holding(t) \/ Holding(o)
  /\ \/ attached
     \/ GotDev(t) /\ IsFirst(t) /\ step[o] = "press" /\ call[o] = "set"
     \/ GotDev(o) /\ IsFirst(o) /\ step[t] = "press" /\ call[t] = "set"

LEMMA HeldByBoth ==
  ASSUME NEW t \in Thread, NEW o, o = Other(t)
  PROVE  /\ HeldInv => HeldByOne(t, o)
         /\ HeldByOne(t, o)' => HeldInv'
<1>0. o \in Thread /\ o # t /\ Other(o) = t /\ \A u \in Thread : u = t \/ u = o
  BY TwoThreads
<1>1. HeldInv => HeldByOne(t, o)
  BY <1>0, Zenon DEF HeldInv, HeldByOne
<1>2. HeldByOne(t, o)' => HeldInv'
  BY <1>0 DEF HeldInv, HeldByOne
<1> QED BY <1>1, <1>2

\* What holds in a state a step is taken from.
PadBefore == TypeOK /\ InStep /\ HidInv /\ HeldInv

\* With the flag down and t neither asking for the device nor pressing, nothing is held.
LEMMA NothingHeld ==
  ASSUME PadBefore, NEW t \in Thread, ~attached, call[t] \notin {"attachDev", "set"}
  PROVE  held = "nothing"
<1> DEFINE o == Other(t)
<1>1. HeldByOne(t, o)
  BY HeldByBoth DEF PadBefore
<1> QED BY <1>1 DEF HeldByOne, GotDev

\* A thread hands a state to hid, which takes it if the device is there.
LEMMA HeldSetState ==
  ASSUME PadBefore, NEW t \in Thread, step[t] \in {"press", "unpress"},
         call[t] \in {"none", "logging"}, SetState(t), attached \/ call[t] = "logging",
         UNCHANGED <<step, attached, dev>>
  PROVE  HeldInv'
<1> DEFINE o == Other(t)
<1>1. Scene(t, o) /\ HeldByOne(t, o)
  BY ScenesHold, HeldByBoth DEF PadBefore
<1>2. Called(t, o, "set", dev)
  BY CallsInOrder DEF PadBefore, HidInv, SetState, Called, Waits, PadCalls, TypeOK
<1>3. held' = IF dev THEN Buttons(t) ELSE held
  BY DEF SetState
<1> HIDE DEF o
<1>4. CASE step[t] = "unpress" \/ ~dev
  <2>1. held' = "nothing"
    BY <1>1, <1>3, <1>4 DEF Buttons, HeldByOne
  <2> QED BY <2>1 DEF HeldInv
<1>5. CASE step[t] = "press" /\ dev
  <2>1. Holding(t)' /\ step'[t] = "press" /\ call'[t] = "set"
    BY <1>2, <1>5 DEF Holding, Called
  <2>2. ~attached => GotDev(o) /\ Waits(o)
    BY <1>1, <1>5 DEF Scene, OfBoth, GotDev, Waits, PadCalls
  <2>3. ~attached => GotDev(o)' /\ IsFirst(o)'
    BY <1>2, <2>2 DEF Called, GotDev
  <2>4. HeldByOne(t, o)'
    BY <1>5, <2>1, <2>3 DEF HeldByOne
  <2> QED BY <2>4, HeldByBoth DEF o
<1> QED BY <1>4, <1>5

\* A thread comes back from a call.
LEMMA HeldComesBack ==
  ASSUME PadBefore, NEW t \in Thread, Returns(t), Moved(t), UNCHANGED <<dev, held>>,
         step[t] \in {"open", "press", "unpress"}, call[t] # "none",
         attached', attached,
         Holding(t) => step[t] = "press",
         ~Waits(t) \/ IsFirst(t)
  PROVE  HeldInv'
<1> DEFINE o == Other(t)
<1>0. o \in Thread /\ o # t
  BY TwoThreads
<1>1. HeldByOne(t, o)
  BY HeldByBoth DEF PadBefore
<1>2. CameBack(t, o, "none")
  BY LeavesInOrder DEF PadBefore, HidInv, Returns, CameBack
<1>3. step'[o] = step[o]
  BY <1>0 DEF Moved, PadBefore, TypeOK
<1>4. step[t] = "press" => step'[t] = "hold"
  BY DEF Moved
<1> HIDE DEF o
<1>5. Holding(o) => Holding(o)'
  BY <1>2, <1>3 DEF Holding, CameBack
<1>6. Holding(t) => Holding(t)'
  BY <1>4 DEF Holding
<1>7. HeldByOne(t, o)'
  BY <1>1, <1>5, <1>6 DEF HeldByOne
<1> QED BY <1>7, HeldByBoth DEF o

\* The flag goes up while the other thread presses.
LEMMA HeldAttached ==
  ASSUME PadBefore, NEW t \in Thread, Attached(t)
  PROVE  HeldInv'
<1> DEFINE o == Other(t)
<1>0. Waits(t) /\ IsFirst(t) /\ call[t] = "attachDev" /\ UNCHANGED <<step, dev, held>>
  BY AnsweredFirst DEF Attached, Answered, PadBefore, HidInv, PadCalls
<1>1. ~attached
  BY <1>0 DEF PadBefore, HidInv, WhileAttached
<1>2. HeldByOne(t, o)
  BY HeldByBoth DEF PadBefore
<1> HIDE DEF o
<1>3. held # "nothing" => granted[t] /\ dev /\ step[o] = "press" /\ call[o] = "set"
  BY <1>0, <1>1, <1>2 DEF HeldByOne, GotDev
<1>4. held # "nothing" => attached' /\ CameBack(t, o, "logging")
  BY <1>0, <1>3, LeavesInOrder DEF Attached, PadBefore, HidInv, CameBack, o
<1>5. held # "nothing" => Holding(o)' /\ dev'
  BY <1>0, <1>3, <1>4 DEF CameBack, Holding
<1>6. HeldByOne(t, o)'
  BY <1>0, <1>4, <1>5 DEF HeldByOne
<1> QED BY <1>6, HeldByBoth DEF o

\* A step that asks hid for nothing and touches no button.
LEMMA HeldQuiet ==
  ASSUME PadBefore, NEW t \in Thread, step' = [step EXCEPT ![t] = step'[t]],
         step[t] # "press", Holding(t) => step'[t] = "unpress" /\ call[t] = "none",
         UNCHANGED <<call, granted, queue, attached, dev, held>>
  PROVE  HeldInv'
<1> DEFINE o == Other(t)
<1>0. o \in Thread /\ o # t
  BY TwoThreads
<1>1. HeldByOne(t, o)
  BY HeldByBoth DEF PadBefore
<1>2. step'[o] = step[o]
  BY <1>0 DEF PadBefore, TypeOK
<1> HIDE DEF o
<1>3. (Holding(o) => Holding(o)') /\ (Holding(t) => Holding(t)')
  BY <1>2 DEF Holding
<1>5. IsFirst(t) => IsFirst(t)'
  BY Zenon DEF IsFirst
<1>4. HeldByOne(t, o)'
  BY <1>1, <1>2, <1>3, <1>5 DEF HeldByOne, GotDev
<1> QED BY <1>4, HeldByBoth DEF o

\* A step of either thread leaves every button with a thread that lets go of it.
LEMMA HeldStep == PadBefore /\ [Next]_vars => HeldInv'
<1> SUFFICES ASSUME PadBefore, [Next]_vars PROVE HeldInv'
  OBVIOUS
<1> USE DEF threads, pad, other
<1>a. ASSUME held' = "nothing" PROVE HeldInv'
  BY <1>a DEF HeldInv
<1>1. ASSUME NEW t \in Thread, PadStep(t) PROVE HeldInv'
  <2>0. call[t] # "none" => /\ step[t] \in {"open", "press", "unpress", "release"}
                            /\ call[t] \in {"relSet", "relDev", "relBuf"} <=> step[t] = "release"
    BY InItsStep DEF PadBefore
  <2>a. Answered(t, "attachBuf") \/ Answered(t, "set") => Waits(t) /\ IsFirst(t)
    BY AnsweredFirst DEF PadBefore, HidInv, PadCalls
  <2>1. CASE Reuse(t)
    <3>1. CASE step[t] = "open" /\ Advance(t) /\ UNCHANGED <<call, granted, queue, held>>
      <4>1. Moved(t)
        BY <3>1, GoesOn DEF PadBefore
      <4> QED BY <2>1, <3>1, <4>1, HeldQuiet DEF Reuse, Moved, Holding
    <3>2. CASE step[t] # "open" /\ SetState(t) /\ UNCHANGED step
      BY <2>1, <3>2, HeldSetState DEF Reuse, Using
    <3> QED BY <2>1, <3>1, <3>2 DEF Reuse
  <2>2. CASE AttachBuf(t)
    BY <2>2, <1>a, NothingHeld DEF AttachBuf
  <2>3. CASE AttachDev(t)
    <3>0. call[t] = "attachBuf" /\ UNCHANGED <<attached, held>>
      BY <2>3 DEF AttachDev, Answered
    <3>1. CASE attached
      <4>1. ~granted[t] /\ Returns(t) /\ NoPad(t) /\ UNCHANGED dev
        BY <2>3, <3>0, <3>1 DEF AttachDev, PadBefore, HidInv, WhileAttached, GotBuf
      <4>2. Moved(t) /\ step[t] # "release"
        BY <2>0, <3>0, <4>1, GoesOn DEF PadBefore
      <4>3. ~Holding(t)
        BY <2>0, <3>0 DEF Holding
      <4> QED BY <2>0, <2>3, <2>a, <3>0, <3>1, <4>1, <4>2, <4>3, HeldComesBack DEF AttachDev
    <3>2. CASE ~attached
      BY <1>a, <3>0, <3>2, NothingHeld
    <3> QED BY <3>1, <3>2
  <2>4. CASE Attached(t)
    BY <2>4, HeldAttached
  <2>5. CASE GiveUp(t)
    <3>1. call[t] = "undoBuf" /\ UNCHANGED held
      BY <2>5 DEF GiveUp, Answered
    <3>2. ~attached
      BY <3>1 DEF PadBefore, HidInv, WhileAttached
    <3> QED BY <1>a, <3>1, <3>2, NothingHeld
  <2>6. CASE Logged(t)
    <3>0. call[t] = "logging" /\ ~Waits(t) /\ UNCHANGED <<attached, dev>>
      BY <2>6 DEF Logged, Waits, PadCalls
    <3>1. CASE step[t] = "open" /\ Returns(t) /\ Advance(t) /\ UNCHANGED held
      <4>1. Moved(t) /\ ~Holding(t)
        BY <3>1, GoesOn DEF PadBefore, Holding
      <4>2. CASE attached
        BY <3>0, <3>1, <4>1, <4>2, HeldComesBack
      <4>3. CASE ~attached
        BY <1>a, <3>0, <3>1, <4>3, NothingHeld
      <4> QED BY <4>2, <4>3
    <3>2. CASE step[t] # "open" /\ SetState(t) /\ UNCHANGED step
      BY <2>0, <2>6, <3>0, <3>2, HeldSetState
    <3> QED BY <2>6, <3>1, <3>2 DEF Logged
  <2>7. CASE WasSet(t)
    <3>0. call[t] = "set" /\ Waits(t) /\ IsFirst(t) /\ UNCHANGED <<attached, dev, held>>
          /\ Returns(t) /\ Advance(t)
      BY <2>7, <2>a DEF WasSet, Answered
    <3>1. step[t] \in {"press", "unpress"}
      BY <2>0, <3>0 DEF PadBefore, InStep
    <3>2. Moved(t) /\ (Holding(t) => step[t] = "press")
      BY <3>0, <3>1, GoesOn DEF PadBefore, Holding
    <3>3. CASE attached
      BY <3>0, <3>1, <3>2, <3>3, HeldComesBack
    <3>4. CASE ~attached
      <4>1. HeldByOne(t, Other(t)) /\ Scene(t, Other(t))
        BY HeldByBoth, ScenesHold DEF PadBefore
      <4>2. held = "nothing"
        BY <3>0, <3>4, <4>1 DEF HeldByOne, Scene, GotDev
      <4> QED BY <1>a, <3>0, <4>2
    <3> QED BY <3>3, <3>4
  <2>8. CASE HoldOver(t)
    <3>1. step[t] = "hold" /\ call[t] = "none" /\ step' = [step EXCEPT ![t] = "unpress"]
          /\ UNCHANGED <<call, granted, queue, attached, dev, held>>
      BY <2>8 DEF HoldOver, PadBefore, InStep
    <3>2. step'[t] = "unpress"
      BY <3>1 DEF PadBefore, TypeOK
    <3> QED BY <3>1, <3>2, HeldQuiet
  <2>9. CASE NothingToRelease(t)
    BY <2>9, <1>a, NothingHeld DEF NothingToRelease
  <2>10. CASE ReleaseButtons(t) \/ ReleaseDev(t) \/ ReleaseBuf(t)
    BY <2>10, <1>a DEF ReleaseButtons, ReleaseDev, ReleaseBuf
  <2>11. CASE Released(t)
    <3>1. call[t] = "relBuf" /\ UNCHANGED held
      BY <2>11 DEF Released, Answered
    <3>2. attached => ~dev
      BY <3>1 DEF PadBefore, HidInv, WhileAttached
    <3>3. held = "nothing"
      BY <3>1, <3>2, NothingHeld DEF PadBefore, HeldInv
    <3> QED BY <1>a, <3>1, <3>3
  <2> QED
    BY <1>1, <2>1, <2>2, <2>3, <2>4, <2>5, <2>6, <2>7, <2>8, <2>9, <2>10, <2>11 DEF PadStep
\* The server thread between two operations on the pad.
<1>b. ASSUME NEW from \in {"noClient", "idle", "touching", "typing"}, NEW to,
             ServiceGoes(from, to)
      PROVE  HeldInv'
  <2>1. "service" \in Thread /\ step["service"] = from
        /\ step' = [step EXCEPT !["service"] = to]
        /\ UNCHANGED <<call, granted, queue, attached, dev, held>>
    BY <1>b DEF ServiceGoes, Thread
  <2>2. step' = [step EXCEPT !["service"] = step'["service"]]
    BY <2>1 DEF PadBefore, TypeOK
  <2> QED BY <2>1, <2>2, HeldQuiet DEF Holding
<1>2. CASE ServiceStep
  BY <1>2, <1>b DEF ServiceStep, Connect, Disconnect, Input, Touch, TouchMoves, TouchFails,
     TouchEnds, TypeText, KeyDown, KeyUp, KeyFails, TypingEnds
<1>3. CASE NextPress \/ Nudge
  <2>1. "worker" \in Thread /\ step["worker"] \in {"gap", "nap"}
        /\ step' = [step EXCEPT !["worker"] = "open"]
        /\ UNCHANGED <<call, granted, queue, attached, dev, held>>
    BY <1>3 DEF NextPress, Nudge, Thread
  <2>2. step' = [step EXCEPT !["worker"] = step'["worker"]]
    BY <2>1 DEF PadBefore, TypeOK
  <2> QED BY <2>1, <2>2, HeldQuiet DEF Holding
<1>4. CASE AppChanges \/ UNCHANGED vars
  <2>1. UNCHANGED <<step, call, granted, queue, attached, dev, held>>
    BY <1>4 DEF AppChanges, vars
  <2> QED BY <2>1, Zenon DEF PadBefore, HeldInv, Holding, GotDev, IsFirst
<1> QED BY <1>1, <1>2, <1>3, <1>4 DEF Next

\* Only a release, or a client that connects, takes a thread to where it leaves the
\* pad alone.
LEMMA ReleasesStep == PadBefore /\ SomebodyReleases /\ [Next]_vars => SomebodyReleases'
<1> SUFFICES ASSUME PadBefore, SomebodyReleases, [Next]_vars PROVE SomebodyReleases'
  OBVIOUS
<1> USE DEF threads, pad, other
<1> DEFINE Rests(t) == IF t = "service" THEN step[t] = "noClient"
                                        ELSE step[t] \in {"nap", "done"}
           RestsNext(t) == IF t = "service" THEN step'[t] = "noClient"
                                            ELSE step'[t] \in {"nap", "done"}
<1>a. ASSUME ~attached' PROVE SomebodyReleases'
  BY <1>a DEF SomebodyReleases
<1>b. ASSUME NEW t \in Thread, step' = [step EXCEPT ![t] = step'[t]],
             step'[t] \notin {"noClient", "nap", "done"}
      PROVE  SomebodyReleases'
  BY <1>b DEF SomebodyReleases, Thread
<1>1. ASSUME NEW t \in Thread, PadStep(t) PROVE SomebodyReleases'
  <2>0. call[t] # "none" => /\ step[t] \in {"open", "press", "unpress", "release"}
                            /\ call[t] \in {"relSet", "relDev", "relBuf"} <=> step[t] = "release"
    BY InItsStep DEF PadBefore
  <2>c. ASSUME Moved(t), step[t] # "release" PROVE SomebodyReleases'
    BY <1>b, <2>c DEF Moved
  <2>d. ASSUME UNCHANGED step, step[t] \in {"open", "press", "unpress", "release"}
        PROVE  SomebodyReleases'
    <3>1. step' = [step EXCEPT ![t] = step'[t]]
      BY <2>d DEF PadBefore, TypeOK
    <3> QED BY <1>b, <2>d, <3>1
  <2>e. ASSUME NoPad(t) \/ Advance(t), step[t] \in {"open", "press", "unpress"}
        PROVE  SomebodyReleases'
    BY <2>c, <2>e, GoesOn DEF PadBefore
  <2>1. CASE Reuse(t)
    BY <2>1, <2>d, <2>e DEF Reuse, Using
  <2>2. CASE AttachBuf(t)
    BY <2>2, <2>d DEF AttachBuf, Using
  <2>3. CASE AttachDev(t)
    BY <2>0, <2>3, <2>d, <2>e DEF AttachDev, Answered
  <2>4. CASE Attached(t)
    BY <2>0, <2>4, <2>d DEF Attached, Answered
  <2>5. CASE GiveUp(t)
    BY <2>0, <2>5, <2>e DEF GiveUp, Answered
  <2>6. CASE Logged(t)
    BY <2>0, <2>6, <2>d, <2>e DEF Logged
  <2>7. CASE WasSet(t)
    BY <2>0, <2>7, <2>e DEF WasSet, Answered
  <2>8. CASE HoldOver(t)
    <3>1. step' = [step EXCEPT ![t] = "unpress"]
      BY <2>8 DEF HoldOver
    <3>2. step'[t] = "unpress"
      BY <3>1 DEF PadBefore, TypeOK
    <3> QED BY <1>b, <3>1, <3>2
  <2>9. CASE NothingToRelease(t)
    BY <2>9, <1>a DEF NothingToRelease
  <2>10. CASE ReleaseButtons(t) \/ ReleaseDev(t) \/ ReleaseBuf(t)
    BY <2>0, <2>10, <2>d DEF ReleaseButtons, ReleaseDev, ReleaseBuf, Answered
  <2>11. CASE Released(t)
    BY <2>11, <1>a DEF Released
  <2> QED
    BY <1>1, <2>1, <2>2, <2>3, <2>4, <2>5, <2>6, <2>7, <2>8, <2>9, <2>10, <2>11 DEF PadStep
<1>c. ASSUME NEW from, NEW to \in {"idle", "release", "open", "touching", "typing"},
             ServiceGoes(from, to)
      PROVE  SomebodyReleases'
  <2>1. step'["service"] = to
    BY <1>c DEF ServiceGoes, PadBefore, TypeOK, Thread
  <2> QED BY <2>1 DEF SomebodyReleases
<1>2. CASE ServiceStep
  BY <1>2, <1>c DEF ServiceStep, Connect, Disconnect, Input, Touch, TouchMoves, TouchFails,
     TouchEnds, TypeText, KeyDown, KeyUp, KeyFails, TypingEnds
<1>3. CASE NextPress \/ Nudge
  <2>1. step'["worker"] = "open"
    BY <1>3 DEF NextPress, Nudge, PadBefore, TypeOK, Thread
  <2> QED BY <2>1 DEF SomebodyReleases
<1>4. CASE AppChanges \/ UNCHANGED vars
  BY <1>4 DEF AppChanges, vars, SomebodyReleases
<1> QED BY <1>1, <1>2, <1>3, <1>4 DEF Next

LEMMA PadInvariant == Spec => [](TypeOK /\ PadInv)
<1>1. Init => HeldInv /\ SomebodyReleases
  BY DEF Init, HeldInv, SomebodyReleases
<1>2. PadBefore /\ SomebodyReleases /\ [Next]_vars => (HeldInv /\ SomebodyReleases)'
  BY HeldStep, ReleasesStep
<1>3. TypeOK /\ InStep /\ HidInv /\ HeldInv <=> PadBefore
  BY DEF PadBefore
<1>4. TypeOK /\ PadInv <=> PadBefore /\ SomebodyReleases
  BY DEF PadInv, PadBefore, HidInv
<1> QED BY <1>1, <1>2, <1>3, <1>4, HidInvariant, PTL DEF Spec

\* hid never holds a button down unless a thread is between pressing it and letting go of
\* it, even when the other thread has detached the pad and attached it again in between
\* (SetButtons and PressB against Release, input.cpp and lockscreen.cpp).
THEOREM NoButtonLeftHeld == Spec => []NoPhantomButtons
<1>1. PadInv => NoPhantomButtons
  BY DEF PadInv, HeldInv, Holding, NoPhantomButtons, Pressing
<1> QED BY <1>1, PadInvariant, PTL

\* With no client and the worker asleep or finished, nothing of the virtual pad is
\* attached: whichever of the two threads attached it last, one of them still comes back
\* to release it (ServeConnection's Release and the worker's own).
THEOREM ConsoleGivenBack == Spec => []PhysicalInControl
<1>1. TypeOK /\ PadInv => PhysicalInControl
  <2> SUFFICES ASSUME TypeOK, PadInv,
                      step["service"] = "noClient", step["worker"] \in {"nap", "done"}
               PROVE  ~dev /\ ~buf
    BY DEF PhysicalInControl
  <2>1. ~attached
    BY DEF PadInv, SomebodyReleases
  <2>2. \A t \in Thread : call[t] = "none"
    BY DEF PadInv, InStep, Thread
  <2> QED BY <2>1, <2>2 DEF PadInv, WhileDetached, GotBuf, GotDev
<1> QED BY <1>1, PadInvariant, PTL
=============================================================================
