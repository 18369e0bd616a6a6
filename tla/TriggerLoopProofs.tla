-------------------------- MODULE TriggerLoopProofs --------------------------
(***************************************************************************)
(* Proofs about TriggerLoop, for any requests, any depth of the channel    *)
(* and any durations.                                                      *)
(***************************************************************************)
EXTENDS TriggerLoop, SequenceTheorems, TLAPS

-----------------------------------------------------------------------------
(***************************************************************************)
(* What the operations on a queue do to the set of what is queued.         *)
(***************************************************************************)
LEMMA AppendToSet ==
  ASSUME NEW S, NEW s \in Seq(S), NEW e \in S
  PROVE  /\ Append(s, e) \in Seq(S) /\ Len(Append(s, e)) = Len(s) + 1
         /\ ToSet(Append(s, e)) = ToSet(s) \cup {e}
         /\ IsInjective(s) /\ e \notin ToSet(s) => IsInjective(Append(s, e))
<1> DEFINE t == Append(s, e)
<1>1. /\ t \in Seq(S) /\ Len(t) = Len(s) + 1
      /\ \A i \in 1..Len(s) : t[i] = s[i]
      /\ t[Len(s) + 1] = e
      /\ Len(s) \in Nat /\ DOMAIN s = 1..Len(s) /\ DOMAIN t = 1..Len(s) + 1
  BY AppendProperties, LenProperties
<1> HIDE DEF t
<1>2. \A i \in 1..Len(s) + 1 : i \in 1..Len(s) \/ i = Len(s) + 1
  BY <1>1
<1>3. ToSet(t) = ToSet(s) \cup {e}
  BY <1>1, <1>2 DEF ToSet
<1>4. IsInjective(s) /\ e \notin ToSet(s) => IsInjective(t)
  BY <1>1, <1>2 DEF ToSet, IsInjective
<1> QED BY <1>1, <1>3, <1>4 DEF t

LEMMA HeadAndTail ==
  ASSUME NEW S, NEW s \in Seq(S), s # <<>>
  PROVE  /\ Head(s) \in S /\ Tail(s) \in Seq(S) /\ Len(Tail(s)) = Len(s) - 1
         /\ ToSet(s) = ToSet(Tail(s)) \cup {Head(s)}
         /\ IsInjective(s) => IsInjective(Tail(s)) /\ Head(s) \notin ToSet(Tail(s))
<1> DEFINE t == Tail(s)
<1>1. /\ Head(s) \in S /\ t \in Seq(S) /\ Len(t) = Len(s) - 1
      /\ \A i \in 1..Len(t) : t[i] = s[i + 1]
      /\ Len(s) \in Nat \ {0} /\ DOMAIN s = 1..Len(s) /\ DOMAIN t = 1..Len(s) - 1
      /\ Head(s) = s[1]
  BY HeadTailProperties, LenProperties, EmptySeq
<1> HIDE DEF t
<1>2. \A i \in 1..Len(s) : i = 1 \/ (i - 1 \in 1..Len(t) /\ t[i - 1] = s[i])
  BY <1>1
<1>3. \A j \in 1..Len(s) - 1 : t[j] = s[j + 1] /\ j + 1 \in 1..Len(s) /\ j + 1 # 1
  BY <1>1
<1>4. ToSet(s) = ToSet(t) \cup {s[1]}
  <2>1. ASSUME NEW x \in ToSet(s) PROVE x \in ToSet(t) \cup {s[1]}
    BY <1>1, <1>2, <2>1 DEF ToSet
  <2>2. ASSUME NEW x \in ToSet(t) PROVE x \in ToSet(s)
    BY <1>1, <1>3, <2>2 DEF ToSet
  <2>3. s[1] \in ToSet(s)
    BY <1>1 DEF ToSet
  <2> QED BY <2>1, <2>2, <2>3
<1>5. ASSUME IsInjective(s) PROVE IsInjective(t) /\ s[1] \notin ToSet(t)
  <2>1. ASSUME NEW j \in DOMAIN t, NEW k \in DOMAIN t, t[j] = t[k] PROVE j = k
    <3>1. j + 1 = k + 1
      BY <1>1, <1>3, <1>5, <2>1 DEF IsInjective
    <3> QED BY <1>1, <3>1
  <2>2. ASSUME NEW j \in DOMAIN t, t[j] = s[1] PROVE FALSE
    BY <1>1, <1>3, <1>5, <2>2 DEF IsInjective
  <2> QED BY <2>1, <2>2 DEF IsInjective, ToSet
<1> QED BY <1>1, <1>4, <1>5 DEF t

LEMMA RemoveFromSet ==
  ASSUME NEW S, NEW s \in Seq(S), NEW i \in DOMAIN s, IsInjective(s)
  PROVE  /\ RemoveAt(s, i) \in Seq(S) /\ Len(RemoveAt(s, i)) = Len(s) - 1
         /\ ToSet(RemoveAt(s, i)) = ToSet(s) \ {s[i]}
         /\ IsInjective(RemoveAt(s, i))
<1> DEFINE front == SubSeq(s, 1, i - 1)
           back  == SubSeq(s, i + 1, Len(s))
           t     == RemoveAt(s, i)
<1>1. /\ Len(s) \in Nat /\ DOMAIN s = 1..Len(s) /\ i \in 1..Len(s)
      /\ \A j \in 1..Len(s) : s[j] \in S
  BY LenProperties, ElementOfSeq
<1>2. /\ front \in Seq(S) /\ Len(front) = i - 1
      /\ \A j \in 1..i - 1 : front[j] = s[j]
  BY <1>1, SubSeqProperties, Z3
<1>3. /\ back \in Seq(S) /\ Len(back) = Len(s) - i
      /\ \A j \in 1..Len(s) - i : back[j] = s[i + j]
  BY <1>1, SubSeqProperties, Z3
<1>4. /\ t \in Seq(S) /\ Len(t) = Len(front) + Len(back)
      /\ \A j \in 1..Len(front) + Len(back) :
           t[j] = IF j <= Len(front) THEN front[j] ELSE back[j - Len(front)]
  <2>1. t = front \o back
    BY DEF RemoveAt
  <2> HIDE DEF front, back, t
  <2> QED BY <1>2, <1>3, <2>1, ConcatProperties
<1> HIDE DEF front, back, t
<1>5. Len(t) = Len(s) - 1 /\ DOMAIN t = 1..Len(s) - 1
  BY <1>1, <1>2, <1>3, <1>4, LenProperties
<1>6. ASSUME NEW j \in 1..Len(s) - 1
      PROVE  t[j] = IF j < i THEN s[j] ELSE s[j + 1]
  <2>1. t[j] = IF j <= Len(front) THEN front[j] ELSE back[j - Len(front)]
    BY <1>1, <1>2, <1>3, <1>4
  <2>2. CASE j < i
    BY <1>1, <1>2, <2>1, <2>2
  <2>3. CASE j >= i
    <3>1. j - (i - 1) \in 1..Len(s) - i /\ i + (j - (i - 1)) = j + 1
      BY <1>1, <2>3
    <3>2. t[j] = back[j - (i - 1)]
      BY <1>1, <1>2, <2>1, <2>3
    <3> QED BY <1>1, <1>3, <2>3, <3>1, <3>2
  <2> QED BY <1>1, <2>2, <2>3
<1>7. ToSet(t) = ToSet(s) \ {s[i]}
  <2>1. \A j \in 1..Len(s) : j < i => j \in 1..Len(s) - 1 /\ t[j] = s[j]
    BY <1>1, <1>6
  <2>2. \A j \in 1..Len(s) : j > i => j - 1 \in 1..Len(s) - 1 /\ t[j - 1] = s[j]
    BY <1>1, <1>6
  <2>3. \A j \in 1..Len(s) - 1 : t[j] # s[i] /\ \E k \in 1..Len(s) : t[j] = s[k]
    BY <1>1, <1>6 DEF IsInjective
  <2>4. ASSUME NEW x \in ToSet(s), x # s[i] PROVE x \in ToSet(t)
    <3>1. PICK j \in 1..Len(s) : x = s[j]
      BY <1>1, <2>4 DEF ToSet
    <3>2. j < i \/ j > i
      BY <1>1, <2>4, <3>1
    <3> QED BY <1>5, <2>1, <2>2, <3>1, <3>2 DEF ToSet
  <2>5. ASSUME NEW x \in ToSet(t) PROVE x \in ToSet(s) /\ x # s[i]
    BY <1>1, <1>5, <2>3, <2>5 DEF ToSet
  <2> QED BY <2>4, <2>5
<1>8. IsInjective(t)
  BY <1>1, <1>5, <1>6 DEF IsInjective
<1> QED BY <1>4, <1>5, <1>7, <1>8 DEF t

-----------------------------------------------------------------------------
(***************************************************************************)
(* The inductive invariant.  That a request is lost nowhere needs that no  *)
(* handler waits twice (the slot it is given is its own), and that the     *)
(* task leaves by the cancellation alone.                                  *)
(***************************************************************************)
QueueInv ==
  /\ TypeOK
  /\ NoRequestLost
  /\ IsInjective(senders)
  /\ loop = "exited" => cancelled

LEMMA Names ==
  /\ \A r \in Managed : r \in Requests /\ r # ProcEvent
  /\ Managed \subseteq Managed \cup {ProcEvent}
BY TriggerAssumption

LEMMA EmptyQueue ==
  ASSUME NEW S
  PROVE  <<>> \in Seq(S) /\ Len(<<>>) = 0 /\ ToSet(<<>>) = {} /\ IsInjective(<<>>)
<1>1. <<>> \in Seq(S) /\ Len(<<>>) = 0 /\ DOMAIN <<>> = {}
  OBVIOUS
<1> QED BY <1>1 DEF ToSet, IsInjective

\* recv: the trigger taken leaves the channel, and a handler that waited gets its slot.
LEMMA ReceiveMoves ==
  ASSUME QueueInv, Receive, loop \notin {"handle", "wedged"}
  PROVE  /\ Head(channel) \in Managed \cup {ProcEvent}
         /\ channel' \in Seq(Managed \cup {ProcEvent}) /\ Len(channel') <= Depth
         /\ senders' \in Seq(Managed) /\ IsInjective(senders')
         /\ senders' # <<>> => Len(channel') = Depth
         /\ client' \in [Requests -> {"idle"} \cup Pending \cup Answers]
         /\ \A r \in Requests :
              /\ client'[r] = "waiting" => r \in ToSet(channel') \cup {Head(channel)}
              /\ client'[r] = "sending" <=> r \in ToSet(senders')
              /\ client'[r] = "refused" => cancelled
<1> DEFINE M == Managed \cup {ProcEvent}
<1>1. /\ channel \in Seq(M) /\ channel # <<>> /\ senders \in Seq(Managed)
      /\ Len(channel) \in Nat /\ Len(senders) \in Nat /\ Depth \in Nat
      /\ Len(channel) <= Depth /\ (senders # <<>> => Len(channel) = Depth)
      /\ client \in [Requests -> {"idle"} \cup Pending \cup Answers]
  BY LenProperties, TriggerAssumption DEF QueueInv, TypeOK, Receive
<1>2. /\ Head(channel) \in M /\ Tail(channel) \in Seq(M) /\ Len(Tail(channel)) = Len(channel) - 1
      /\ ToSet(channel) = ToSet(Tail(channel)) \cup {Head(channel)}
  BY <1>1, HeadAndTail
<1>3. client' = [r \in Requests |-> IF senders # <<>> /\ r = Head(senders) THEN "waiting"
                                    ELSE client[r]]
  BY DEF Receive
<1>4. client' \in [Requests -> {"idle"} \cup Pending \cup Answers]
  BY <1>1, <1>3 DEF Pending
<1>5. CASE senders = <<>>
  <2>1. channel' = Tail(channel) /\ senders' = <<>>
    BY <1>1, <1>2, <1>5, ConcatEmptySeq DEF Receive
  <2>2. \A r \in Requests : client'[r] = client[r]
    BY <1>3, <1>5
  <2> QED BY <1>1, <1>2, <1>4, <1>5, <2>1, <2>2, EmptyQueue DEF QueueInv, NoRequestLost
<1>6. CASE senders # <<>>
  <2>1. /\ Head(senders) \in Managed /\ Tail(senders) \in Seq(Managed)
        /\ ToSet(senders) = ToSet(Tail(senders)) \cup {Head(senders)}
        /\ IsInjective(Tail(senders)) /\ Head(senders) \notin ToSet(Tail(senders))
    BY <1>1, <1>6, HeadAndTail DEF QueueInv
  <2>2. channel' = Append(Tail(channel), Head(senders)) /\ senders' = Tail(senders)
    BY <1>2, <1>6, <2>1, AppendIsConcat DEF Receive
  <2>3. /\ channel' \in Seq(M) /\ Len(channel') = Len(channel)
        /\ ToSet(channel') = ToSet(Tail(channel)) \cup {Head(senders)}
    <3> DEFINE t == Tail(channel)
               h == Head(senders)
    <3>1. t \in Seq(M) /\ h \in M /\ Len(t) + 1 = Len(channel) /\ channel' = Append(t, h)
      BY <1>1, <1>2, <2>1, <2>2
    <3> HIDE DEF t, h, M
    <3>2. channel' \in Seq(M) /\ Len(channel') = Len(t) + 1 /\ ToSet(channel') = ToSet(t) \cup {h}
      BY <3>1, AppendToSet
    <3> QED BY <3>1, <3>2 DEF t, h
  <2>4. ASSUME NEW r \in Requests
        PROVE  /\ client'[r] = "waiting" => r \in ToSet(channel') \cup {Head(channel)}
               /\ client'[r] = "sending" <=> r \in ToSet(senders')
               /\ client'[r] = "refused" => cancelled
    BY <1>2, <1>3, <1>6, <2>1, <2>2, <2>3 DEF QueueInv, NoRequestLost
  <2> QED BY <1>1, <1>2, <1>4, <1>6, <2>1, <2>2, <2>3, <2>4
<1> QED BY <1>5, <1>6

\* The task or the process is gone: the queues are empty and no client waits.
LEMMA QueuesDrop ==
  ASSUME QueueInv, NEW a \in {"refused", "cut"},
         channel' = <<>>, senders' = <<>>, cancelled', a = "refused" => cancelled,
         client' = [r \in Requests |-> IF client[r] \in Pending THEN a ELSE client[r]]
  PROVE  /\ channel' \in Seq(Managed \cup {ProcEvent}) /\ Len(channel') <= Depth
         /\ senders' \in Seq(Managed) /\ IsInjective(senders')
         /\ client' \in [Requests -> {"idle"} \cup Pending \cup Answers]
         /\ NoRequestLost'
<1>1. \A r \in Requests : client'[r] \notin Pending
  BY DEF Pending
<1>2. client' \in [Requests -> {"idle"} \cup Pending \cup Answers]
  BY DEF QueueInv, TypeOK, Answers
<1> QED BY <1>1, <1>2, EmptyQueue, TriggerAssumption DEF NoRequestLost, Pending

\* A request passes the gates and is queued, waits for a slot, or is turned away.
LEMMA SubmitStep ==
  ASSUME QueueInv, NEW r \in Requests, Submit(r)
  PROVE  QueueInv'
<1> DEFINE M == Managed \cup {ProcEvent}
<1>0. /\ channel \in Seq(M) /\ senders \in Seq(Managed) /\ Len(channel) \in Nat /\ Depth \in Nat
      /\ client \in [Requests -> {"idle"} \cup Pending \cup Answers]
  BY LenProperties, TriggerAssumption DEF QueueInv, TypeOK
<1>1. /\ r \notin ToSet(senders)
      /\ UNCHANGED <<loop, trigger, clocks, events, daemon>>
  BY DEF QueueInv, NoRequestLost, Submit
<1>2. PICK a \in {"denied", "refused", "waiting", "sending"} :
        /\ client' = [client EXCEPT ![r] = a]
        /\ a = "refused" => loop = "exited"
        /\ a \in {"denied", "refused"} => UNCHANGED <<channel, senders>>
        /\ a = "waiting" => r \in Managed /\ Room /\ channel' = Append(channel, r)
                              /\ senders' = senders
        /\ a = "sending" => r \in Managed /\ ~Room /\ senders' = Append(senders, r)
                              /\ channel' = channel
  BY DEF Submit, guard_unit
<1>3. /\ client' \in [Requests -> {"idle"} \cup Pending \cup Answers]
      /\ client'[r] = a
      /\ \A q \in Requests : q # r => client'[q] = client[q]
  BY <1>0, <1>2 DEF Pending, Answers
<1>4. ASSUME a = "waiting"
      PROVE  /\ channel' \in Seq(M) /\ Len(channel') = Len(channel) + 1
             /\ ToSet(channel') = ToSet(channel) \cup {r}
  <2>1. channel \in Seq(M) /\ r \in M /\ channel' = Append(channel, r)
    BY <1>0, <1>2, <1>4
  <2> HIDE DEF M
  <2> QED BY <2>1, AppendToSet
<1>5. ASSUME a = "sending"
      PROVE  /\ senders' \in Seq(Managed) /\ ToSet(senders') = ToSet(senders) \cup {r}
             /\ IsInjective(senders')
  <2>1. /\ senders \in Seq(Managed) /\ r \in Managed /\ senders' = Append(senders, r)
        /\ IsInjective(senders) /\ r \notin ToSet(senders)
    BY <1>0, <1>1, <1>2, <1>5 DEF QueueInv
  <2> QED BY <2>1, AppendToSet
<1>6. TypeOK'
  BY <1>0, <1>1, <1>2, <1>3, <1>4, <1>5 DEF QueueInv, TypeOK, Room, clocks, events
<1>7. NoRequestLost'
  BY <1>1, <1>2, <1>3, <1>4, <1>5 DEF QueueInv, NoRequestLost, cancelled
<1>8. IsInjective(senders') /\ (loop' = "exited" => cancelled')
  BY <1>1, <1>2, <1>5 DEF QueueInv, cancelled
<1> QED BY <1>6, <1>7, <1>8 DEF QueueInv

LEMMA HangUpStep ==
  ASSUME QueueInv, NEW r \in Requests, HangUp(r)
  PROVE  QueueInv'
<1>0. /\ senders \in Seq(Managed) /\ UNCHANGED <<channel, loop, trigger, clocks, events, daemon>>
      /\ client \in [Requests -> {"idle"} \cup Pending \cup Answers]
  BY DEF QueueInv, TypeOK, HangUp
<1>1. /\ client' \in [Requests -> {"idle"} \cup Pending \cup Answers]
      /\ client'[r] = "gone"
      /\ \A q \in Requests : q # r => client'[q] = client[q]
  BY <1>0 DEF HangUp, Pending, Answers
<1>2. /\ senders' \in Seq(Managed) /\ IsInjective(senders')
      /\ ToSet(senders') = ToSet(senders) \ {r}
      /\ senders' # <<>> => senders # <<>>
  <2>1. CASE client[r] = "waiting" /\ UNCHANGED senders
    BY <1>0, <2>1 DEF QueueInv, NoRequestLost
  <2>2. CASE \E i \in DOMAIN senders : senders[i] = r /\ senders' = RemoveAt(senders, i)
    <3>1. PICK i \in DOMAIN senders : senders[i] = r /\ senders' = RemoveAt(senders, i)
      BY <2>2
    <3>2. senders # <<>>
      BY <3>1
    <3> QED BY <1>0, <3>1, <3>2, RemoveFromSet DEF QueueInv
  <2> QED BY <2>1, <2>2 DEF HangUp
<1>3. TypeOK'
  BY <1>0, <1>1, <1>2 DEF QueueInv, TypeOK, clocks, events
<1>4. NoRequestLost'
  BY <1>0, <1>1, <1>2 DEF QueueInv, NoRequestLost, cancelled
<1> QED BY <1>0, <1>2, <1>3, <1>4 DEF QueueInv, cancelled

LEMMA ForwardStep ==
  ASSUME QueueInv, Forward
  PROVE  QueueInv'
<1> DEFINE M == Managed \cup {ProcEvent}
<1>0. /\ channel \in Seq(M) /\ senders \in Seq(Managed) /\ Len(channel) \in Nat /\ Depth \in Nat
      /\ UNCHANGED <<senders, client, loop, trigger, clocks, procmon, changed, daemon>>
      /\ heard' \in BOOLEAN
  BY LenProperties, TriggerAssumption DEF QueueInv, TypeOK, Forward
<1>1. CASE channel' = channel
  <2>1. TypeOK'
    BY <1>0, <1>1 DEF QueueInv, TypeOK, clocks
  <2> QED BY <1>0, <1>1, <2>1 DEF QueueInv, NoRequestLost, cancelled
<1>2. CASE Room /\ channel' = Append(channel, ProcEvent)
  <2>1. /\ channel' \in Seq(M) /\ Len(channel') = Len(channel) + 1
        /\ ToSet(channel') = ToSet(channel) \cup {ProcEvent}
    BY <1>0, <1>2, AppendToSet
  <2>2. TypeOK'
    BY <1>0, <1>2, <2>1 DEF QueueInv, TypeOK, Room, clocks
  <2> QED BY <1>0, <2>1, <2>2 DEF QueueInv, NoRequestLost, cancelled
<1> QED BY <1>1, <1>2 DEF Forward

\* The steps that take a trigger: the one taken is in the task's hands.
LEMMA TakeStep ==
  ASSUME QueueInv, SelectReceive \/ DebounceReceive
  PROVE  QueueInv'
<1>1. /\ Receive /\ loop \in {"select", "debounce"}
      /\ UNCHANGED <<until_tick, due, join_left, events, daemon>>
      /\ deadline' \in 0..Window
      /\ \/ Head(channel) = ProcEvent /\ loop' = "debounce"
           /\ trigger' \in {trigger, ProcEvent}
         \/ loop' = "handle" /\ trigger' = Head(channel)
  BY TriggerAssumption DEF SelectReceive, DebounceReceive, clocks, QueueInv, TypeOK
<1>2. /\ Head(channel) \in Managed \cup {ProcEvent}
      /\ channel' \in Seq(Managed \cup {ProcEvent}) /\ Len(channel') <= Depth
      /\ senders' \in Seq(Managed) /\ IsInjective(senders')
      /\ senders' # <<>> => Len(channel') = Depth
      /\ client' \in [Requests -> {"idle"} \cup Pending \cup Answers]
      /\ \A r \in Requests :
           /\ client'[r] = "waiting" => r \in ToSet(channel') \cup {Head(channel)}
           /\ client'[r] = "sending" <=> r \in ToSet(senders')
           /\ client'[r] = "refused" => cancelled
  BY <1>1, ReceiveMoves
<1>3. TypeOK'
  BY <1>1, <1>2 DEF QueueInv, TypeOK, LoopPoints, PassPoints, events
<1>4. ProcEvent \notin Requests
  BY TriggerAssumption
<1> QED BY <1>1, <1>2, <1>3, <1>4 DEF QueueInv, NoRequestLost, cancelled

\* The steps that leave the task, or end every task.
LEMMA LeaveStep ==
  ASSUME QueueInv, SelectCancel \/ BindFails \/ SignalUnhandled \/ Stop
  PROVE  QueueInv'
<1>1. CASE SelectCancel
  <2>1. /\ channel' \in Seq(Managed \cup {ProcEvent}) /\ Len(channel') <= Depth
        /\ senders' \in Seq(Managed) /\ IsInjective(senders') /\ senders' = <<>>
        /\ client' \in [Requests -> {"idle"} \cup Pending \cup Answers]
        /\ NoRequestLost' /\ cancelled'
        /\ UNCHANGED <<trigger, clocks, events, daemon>> /\ loop' = "exited"
    BY <1>1, QueuesDrop DEF SelectCancel, cancelled
  <2>2. TypeOK'
    BY <2>1 DEF QueueInv, TypeOK, LoopPoints, clocks, events
  <2> QED BY <2>1, <2>2 DEF QueueInv
<1>2. CASE BindFails \/ SignalUnhandled \/ Stop
  <2>0. /\ TasksEnd /\ daemon' \in {"leaving", "stopped"}
        /\ loop' \in {"exited", "wedged", "abandoned"}
    BY <1>2 DEF BindFails, SignalUnhandled, Stop, Leave
  <2>1. /\ channel' \in Seq(Managed \cup {ProcEvent}) /\ Len(channel') <= Depth
        /\ senders' \in Seq(Managed) /\ IsInjective(senders') /\ senders' = <<>>
        /\ client' \in [Requests -> {"idle"} \cup Pending \cup Answers]
        /\ NoRequestLost' /\ cancelled'
        /\ UNCHANGED <<trigger, clocks, changed>>
        /\ procmon' = FALSE /\ heard' = FALSE
    BY <2>0, QueuesDrop DEF TasksEnd, cancelled
  <2>2. TypeOK'
    BY <2>0, <2>1 DEF QueueInv, TypeOK, LoopPoints, PassPoints, Stages, clocks
  <2> QED BY <2>1, <2>2 DEF QueueInv
<1> QED BY <1>1, <1>2

\* The pass answers the request in its hands, or hangs with it.
LEMMA HandleStep ==
  ASSUME QueueInv, Handle
  PROVE  QueueInv'
<1>1. /\ client' \in [Requests -> {"idle"} \cup Pending \cup Answers]
      /\ \A r \in Requests : client'[r] = client[r] \/ client'[r] = "done"
      /\ loop' = "observe" => \A r \in Requests : client'[r] = "waiting" => r # trigger
      /\ UNCHANGED <<channel, senders, trigger, clocks, events, daemon>>
      /\ loop' \in {"observe", "wedged"}
  BY DEF Handle, QueueInv, TypeOK, Answers
<1>2. ASSUME NEW r \in Requests
      PROVE  client'[r] = "sending" <=> client[r] = "sending"
  BY DEF Handle
<1>3. TypeOK'
  BY <1>1 DEF QueueInv, TypeOK, LoopPoints, PassPoints, clocks, events
<1>4. NoRequestLost'
  BY <1>1, <1>2 DEF QueueInv, NoRequestLost, cancelled
<1> QED BY <1>1, <1>3, <1>4 DEF QueueInv

\* What is left moves the clocks, the listener, the stages or the pass, and no request.
LEMMA OtherStep ==
  ASSUME QueueInv,
         \/ SelectTimer \/ DebounceElapsed \/ Observe \/ EndPass \/ SpawnTasks \/ Bind
         \/ Signal \/ Exit \/ Tick \/ ListenerExits \/ ExecOrExit
  PROVE  QueueInv'
<1> USE TriggerAssumption DEF QueueInv
<1>1. /\ UNCHANGED queues
      /\ loop' = loop \/ loop \notin {"handle", "wedged", "exited"}
      /\ loop' # "exited" \/ loop = "exited"
      /\ trigger' = trigger \/ loop \notin {"handle", "wedged"}
      /\ cancelled => cancelled'
  BY DEF queues, SelectTimer, DebounceElapsed, Observe, EndPass, SpawnTasks, Bind, Signal,
         Exit, Tick,
         ListenerExits, ExecOrExit, cancelled
<1>2. /\ loop' \in LoopPoints /\ daemon' \in Stages
      /\ trigger' \in Managed \cup {ProcEvent, Timer, Startup}
      /\ procmon' \in BOOLEAN /\ heard' \in BOOLEAN /\ changed' \in BOOLEAN
  BY DEF TypeOK, LoopPoints, PassPoints, Stages, events, SelectTimer, DebounceElapsed, Observe,
         EndPass, SpawnTasks, Bind, Signal, Exit, Tick, ListenerExits, ExecOrExit
<1>3. /\ deadline' \in 0..Window /\ until_tick' \in 1..Interval
      /\ due' \in 0..MaxDue /\ join_left' \in 0..JoinLimit
  BY DEF TypeOK, clocks, SelectTimer, DebounceElapsed, Observe, EndPass, SpawnTasks, Bind, Signal,
         Exit, Tick, ListenerExits, ExecOrExit
<1>4. TypeOK'
  BY <1>1, <1>2, <1>3 DEF TypeOK, queues
<1>5. NoRequestLost'
  BY <1>1 DEF NoRequestLost, queues
<1> QED BY <1>1, <1>4, <1>5 DEF queues

LEMMA QueueInvHolds == Spec => []QueueInv
<1>1. ASSUME Init PROVE QueueInv
  <2>1. /\ channel \in Seq(Managed \cup {ProcEvent}) /\ Len(channel) <= Depth
        /\ senders \in Seq(Managed) /\ senders = <<>> /\ ToSet(senders) = {}
        /\ IsInjective(senders)
    BY <1>1, EmptyQueue, TriggerAssumption DEF Init
  <2>2. client \in [Requests -> {"idle"} \cup Pending \cup Answers]
    BY <1>1 DEF Init
  <2>3. TypeOK
    <3>1. loop \in LoopPoints /\ daemon \in Stages /\ trigger = Startup
      BY <1>1 DEF Init, LoopPoints, PassPoints, Stages
    <3>2. /\ deadline \in 0..Window /\ until_tick \in 1..Interval
          /\ due \in 0..MaxDue /\ join_left \in 0..JoinLimit
      BY <1>1, TriggerAssumption DEF Init
    <3>3. procmon \in BOOLEAN /\ heard \in BOOLEAN /\ changed \in BOOLEAN
      BY <1>1 DEF Init
    <3> QED BY <2>1, <2>2, <3>1, <3>2, <3>3 DEF TypeOK
  <2> QED BY <1>1, <2>1, <2>3 DEF Init, QueueInv, NoRequestLost
<1>2. QueueInv /\ [Next]_vars => QueueInv'
  <2> SUFFICES ASSUME QueueInv, [Next]_vars PROVE QueueInv'
    OBVIOUS
  <2>1. CASE UNCHANGED vars
    BY <2>1 DEF vars, queues, clocks, events, QueueInv, TypeOK, NoRequestLost, cancelled
  <2>2. CASE Next
    BY <2>2, SubmitStep, HangUpStep, ForwardStep, TakeStep, LeaveStep, HandleStep, OtherStep
       DEF Next, Select, Debounce, Pass, Main, Listener, Outside
  <2> QED BY <2>1, <2>2
<1> QED BY <1>1, <1>2, PTL DEF Spec

\* The variables keep their types, the channel its depth, and handlers wait only
\* for a full channel.
THEOREM TriggerTypes == Spec => []TypeOK
<1>1. QueueInv => TypeOK
  BY DEF QueueInv
<1> QED BY <1>1, QueueInvHolds, PTL

\* A handler that waits has its trigger in the channel or in the hands of the task, and
\* is refused only in a shutdown, whatever the depth of the channel and the requests.
THEOREM RequestsAreNotLost == Spec => []NoRequestLost
<1>1. QueueInv => NoRequestLost
  BY DEF QueueInv
<1> QED BY <1>1, QueueInvHolds, PTL

-----------------------------------------------------------------------------
\* A pass ends by itself, unless the join has run into its time limit or the startup
\* fails under it.
THEOREM PassesRunToTheirEnd == Spec => PassIsNotAborted
<1>1. ASSUME [Next]_vars, pass_in_flight, ~pass_in_flight'
      PROVE  \/ loop' = "select"
             \/ daemon = "joining" /\ join_left = 0
             \/ daemon \in {"starting", "binding"}
  <2> USE DEF pass_in_flight, PassPoints
  <2>1. CASE UNCHANGED vars
    BY <1>1, <2>1 DEF vars
  <2>2. CASE Select \/ Debounce \/ Pass \/ Tick \/ Listener \/ Outside
    BY <1>1, <2>2
       DEF Select, Debounce, Pass, Listener, Outside, SelectCancel, SelectTimer, SelectReceive,
           DebounceElapsed, DebounceReceive, Handle, Observe, EndPass, Tick, Forward,
           ListenerExits, ExecOrExit, Submit, HangUp
  <2>3. CASE Main
    BY <1>1, <2>3 DEF Main, SpawnTasks, Bind, BindFails, SignalUnhandled, Signal, Stop, Exit, Leave
  <2> QED BY <1>1, <2>1, <2>2, <2>3 DEF Next
<1> QED BY <1>1, PTL DEF Spec, PassIsNotAborted

=============================================================================
