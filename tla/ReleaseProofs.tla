---------------------------- MODULE ReleaseProofs ----------------------------
(***************************************************************************)
(* Theorems about ReleaseLine and ReleaseRunner.                           *)
(*                                                                         *)
(* ReleaseLine, for any versions, clients and operations and streams of    *)
(* any length: however requests overtake each other and wherever a server  *)
(* stops, the stream keeps one running production and one candidate, and   *)
(* a stopped line is only started by who is meant to start it.  While      *)
(* requests come one after the other and no server stops, a line at rest   *)
(* tells the truth and an ended candidate stays ended.                     *)
(*                                                                         *)
(* ReleaseRunner, for any servers, messages, events and hashes: a message  *)
(* is run by the lanes its hash selects, and a result is delivered once,   *)
(* whichever server stops, pauses or loses its lease.                      *)
(***************************************************************************)
EXTENDS ReleaseLine, ReleaseRunner, FiniteSetTheorems, SequenceTheorems, NaturalsInduction,
        WellFoundedInduction, TLAPS

-----------------------------------------------------------------------------
(* Sequences of anything.                                                   *)

IsSeq(s) == s \in Seq({s[i] : i \in DOMAIN s})

LEMMA SeqIsSeq == ASSUME NEW S, NEW s \in Seq(S) PROVE IsSeq(s)
BY DEF IsSeq

LEMMA SeqLen == ASSUME NEW s, IsSeq(s) PROVE Len(s) \in Nat /\ DOMAIN s = 1..Len(s)
BY DEF IsSeq

LEMMA TailIsSeq ==
  ASSUME NEW s, IsSeq(s), s # <<>>
  PROVE /\ IsSeq(Tail(s)) /\ Len(s) > 0 /\ Len(Tail(s)) = Len(s) - 1
        /\ Head(s) = s[1] /\ \A i \in 1..Len(Tail(s)) : Tail(s)[i] = s[i + 1]
<1> DEFINE S == {s[i] : i \in DOMAIN s}
<1>1. s \in Seq(S)
  BY DEF IsSeq
<1>2. Tail(s) \in Seq(S) /\ Len(s) > 0 /\ Len(Tail(s)) = Len(s) - 1
  BY <1>1
<1>3. Head(s) = s[1] /\ \A i \in 1..Len(Tail(s)) : Tail(s)[i] = s[i + 1]
  BY <1>1, <1>2
<1> QED
  BY <1>2, <1>3, SeqIsSeq

LEMMA ConcatIsSeq ==
  ASSUME NEW s, NEW t, IsSeq(s), IsSeq(t)
  PROVE /\ IsSeq(s \o t) /\ Len(s \o t) = Len(s) + Len(t)
        /\ \A i \in 1..Len(s) : (s \o t)[i] = s[i]
        /\ \A i \in 1..Len(t) : (s \o t)[Len(s) + i] = t[i]
        /\ \A i \in 1..Len(s \o t) :
             i \in 1..Len(s) \/ \E j \in 1..Len(t) : i = Len(s) + j
<1> DEFINE S == {s[i] : i \in DOMAIN s} \cup {t[i] : i \in DOMAIN t}
<1>1. s \in Seq(S) /\ t \in Seq(S)
  BY DEF IsSeq
<1>2. s \o t \in Seq(S) /\ Len(s \o t) = Len(s) + Len(t)
  BY <1>1
<1>3. Len(s) \in Nat /\ Len(t) \in Nat
  BY SeqLen
<1>4. \A i \in 1..Len(s) : (s \o t)[i] = s[i]
  BY <1>1, <1>3
<1>5. \A i \in 1..Len(t) : (s \o t)[Len(s) + i] = t[i]
  BY <1>1, <1>3
<1>6. ASSUME NEW i \in 1..Len(s \o t), i \notin 1..Len(s)
      PROVE  \E j \in 1..Len(t) : i = Len(s) + j
  <2>1. i - Len(s) \in 1..Len(t) /\ i = Len(s) + (i - Len(s))
    BY <1>2, <1>3, <1>6
  <2> QED
    BY <2>1
<1> QED
  BY <1>2, <1>4, <1>5, <1>6, SeqIsSeq

LEMMA MappedIsSeq ==
  ASSUME NEW q, IsSeq(q), NEW f, f = [i \in DOMAIN q |-> f[i]]
  PROVE IsSeq(f) /\ Len(f) = Len(q)
<1>1. Len(q) \in Nat /\ DOMAIN q = 1..Len(q)
  BY SeqLen
<1>2. f = [i \in 1..Len(q) |-> f[i]]
  BY <1>1
<1>3. f \in Seq({f[i] : i \in DOMAIN f}) /\ Len(f) = Len(q)
  BY <1>1, <1>2
<1> QED
  BY <1>3 DEF IsSeq

-----------------------------------------------------------------------------
(* The inductive invariant.                                                 *)

Formed(e) == {"status", "reason"} \subseteq DOMAIN e

\* No two events occupy one slot; OneActive without counting.
NoTwo ==
    /\ \A e, f \in Running("production") : e = f
    /\ \A e, f \in Active : e = f

\* What a request has left to write: copies of archived events only, and
\* nothing that runs unless the request is one that starts a line or was read
\* while the line was running.
WriteOK(r, w) ==
    /\ w.do = "archive" =>
         /\ IsSeq(w.events)
         /\ \A i \in 1..Len(w.events) : Formed(w.events[i]) /\ w.events[i].status = "archived"
    /\ w.do = "record" /\ w.status = "running" => r.op \in Starting \/ r.saw

RequestOK(r) ==
    /\ {"todo", "op", "saw"} \subseteq DOMAIN r
    /\ IsSeq(r.todo)
    /\ \A i \in 1..Len(r.todo) : WriteOK(r, r.todo[i])

RequestsOK == req = [a \in Actors |-> req[a]] /\ \A a \in Actors : RequestOK(req[a])
StreamOK == IsSeq(event) /\ \A e \in Ids : Formed(event[e])
IInv == StreamOK /\ NoTwo /\ RequestsOK

LEMMA IdleOK == RequestOK(Idle)
<1>1. Idle.todo = <<>> /\ {"todo", "op", "saw"} \subseteq DOMAIN Idle
  BY DEF Idle
<1>2. IsSeq(<<>>) /\ Len(<<>>) = 0
  BY DEF IsSeq
<1> QED
  BY <1>1, <1>2 DEF RequestOK

-----------------------------------------------------------------------------
(* What the writes do to the stream.                                        *)

\* The next stream has no production that runs and no candidate that occupies
\* the slot but those of the stream as it is, and does not begin to run.
NothingNew ==
    /\ StreamOK'
    /\ Running("production")' \subseteq Running("production")
    /\ AnyRunning' => AnyRunning
    /\ Active' \subseteq Active

LEMMA EndedByFacts ==
  ASSUME NEW w, NEW e, Formed(e)
  PROVE  /\ Formed(EndedBy(w, e)) /\ EndedBy(w, e).lane = e.lane
         /\ EndedBy(w, e).status = "running" => e.status = "running"
         /\ e.lane = "canary" /\ EndedBy(w, e).status = "stopped" => e.status = "stopped"
         /\ w.lane = "production" /\ w.status = "running" /\ e.lane = "production"
              => EndedBy(w, e).status # "running"
         /\ w.lane = "canary" /\ e.lane = "canary"
              => EndedBy(w, e).status \notin {"running", "stopped"}
BY DEF EndedBy, Ending, Formed, CancelsCanary, Occupied

LEMMA RecordStream ==
  ASSUME StreamOK, NEW w, Record(w)
  PROVE  /\ IsSeq(event') /\ Len(event') = Len(event) + 1 /\ Len(event) \in Nat
         /\ \A e \in Ids : event'[e] = EndedBy(w, event[e])
         /\ event'[Len(event) + 1].lane = w.lane
         /\ event'[Len(event) + 1].status = w.status
         /\ Formed(event'[Len(event) + 1])
<1> DEFINE es == [e \in Ids |-> EndedBy(w, event[e])]
           S == {es[i] : i \in DOMAIN es}
           new == [lane |-> w.lane, status |-> w.status, reason |-> w.reason,
                   version |-> w.version, at |-> w.at,
                   root |-> IF w.lane = "canary" /\ w.root = 0 THEN Len(es) + 1 ELSE w.root]
<1>1. Len(event) \in Nat
  BY SeqLen DEF StreamOK
<1>2. es \in Seq(S) /\ Len(es) = Len(event)
  BY <1>1 DEF Ids
<1>3. event' = Append(es, new)
  BY DEF Record, Inserted
<1> HIDE DEF es, new
<1>4. es \in Seq(S \cup {new})
  BY <1>2
<1>5. event' \in Seq(S \cup {new}) /\ Len(event') = Len(event) + 1
  BY <1>2, <1>3, <1>4
<1>6. event'[Len(event) + 1] = new /\ \A e \in Ids : event'[e] = es[e]
  BY <1>1, <1>2, <1>3, <1>4 DEF Ids
<1>7. new.lane = w.lane /\ new.status = w.status /\ Formed(new)
  BY DEF new, Formed
<1>8. \A e \in Ids : es[e] = EndedBy(w, event[e])
  BY DEF es
<1> QED
  BY <1>1, <1>5, <1>6, <1>7, <1>8, SeqIsSeq

\* A new event ends what it meets in its slot.
LEMMA RecordStep ==
  ASSUME StreamOK, NoTwo, NEW w, Record(w)
  PROVE  /\ StreamOK' /\ NoTwo'
         /\ AnyRunning' /\ ~AnyRunning => w.status = "running"
<1> DEFINE n == Len(event) + 1
<1>1. Len(event) \in Nat /\ Ids' = Ids \cup {n} /\ n \notin Ids
  BY RecordStream DEF Ids
<1>2. \A e \in Ids : Formed(event[e])
  BY DEF StreamOK
<1>3. \A e \in Ids :
        /\ Formed(event'[e]) /\ event'[e].lane = event[e].lane
        /\ event'[e].status = "running" => event[e].status = "running"
        /\ event[e].lane = "canary" /\ event'[e].status = "stopped" => event[e].status = "stopped"
        /\ w.lane = "production" /\ w.status = "running" /\ event[e].lane = "production"
             => event'[e].status # "running"
        /\ w.lane = "canary" /\ event[e].lane = "canary"
             => event'[e].status \notin {"running", "stopped"}
  BY <1>2, RecordStream, EndedByFacts
<1>4. event'[n].lane = w.lane /\ event'[n].status = w.status /\ Formed(event'[n])
  BY RecordStream
<1>5. StreamOK'
  BY <1>1, <1>3, <1>4, RecordStream DEF StreamOK
<1>6. ASSUME NEW e \in Running("production")', NEW f \in Running("production")' PROVE e = f
  BY <1>1, <1>3, <1>4, <1>6 DEF NoTwo, Running, In
<1>7. ASSUME NEW e \in Active', NEW f \in Active' PROVE e = f
  BY <1>1, <1>3, <1>4, <1>7 DEF NoTwo, Active, In
<1>8. ASSUME AnyRunning', ~AnyRunning PROVE w.status = "running"
  BY <1>1, <1>3, <1>4, <1>8 DEF AnyRunning, Running, In
<1> QED
  BY <1>5, <1>6, <1>7, <1>8 DEF NoTwo

\* An event that is completed by its id runs no more.
LEMMA CompletedStep ==
  ASSUME StreamOK, NEW id, NEW reason,
         event' = [event EXCEPT ![id] = Ending(@, "completed", reason)]
  PROVE  NothingNew
<1> DEFINE S == {event[i] : i \in DOMAIN event}
<1>1. Len(event) \in Nat /\ DOMAIN event = Ids /\ event \in Seq(S)
  BY SeqLen DEF StreamOK, Ids, IsSeq
<1>2. event' = [e \in Ids |-> IF e = id THEN Ending(event[e], "completed", reason) ELSE event[e]]
  BY <1>1
<1>3. IsSeq(event') /\ Ids' = Ids
  <2>1. event' = [e \in DOMAIN event |-> event'[e]]
    BY <1>1, <1>2
  <2>2. IsSeq(event') /\ Len(event') = Len(event)
    BY <2>1, MappedIsSeq DEF StreamOK
  <2> QED
    BY <2>2 DEF Ids
<1>4. \A e \in Ids : Formed(event[e])
  BY DEF StreamOK
<1>5. \A e \in Ids : /\ Formed(event'[e])
                     /\ event'[e] = event[e] \/ event'[e].status = "completed"
  BY <1>2, <1>4 DEF Ending, Formed
<1> QED
  BY <1>3, <1>5 DEF NothingNew, StreamOK, AnyRunning, Running, Active, In

\* What archiveLine adds is archived.
LEMMA ArchiveStep ==
  ASSUME StreamOK, NEW r, NEW w, WriteOK(r, w), Archive(w)
  PROVE  NothingNew
<1>1. /\ IsSeq(event) /\ IsSeq(w.events) /\ event' = event \o w.events
      /\ \A i \in 1..Len(w.events) : Formed(w.events[i]) /\ w.events[i].status = "archived"
  BY DEF Archive, StreamOK, WriteOK
<1>2. /\ IsSeq(event')
      /\ \A e \in Ids : event'[e] = event[e]
      /\ \A i \in 1..Len(w.events) : event'[Len(event) + i] = w.events[i]
      /\ \A e \in Ids' : e \in Ids \/ \E i \in 1..Len(w.events) : e = Len(event) + i
  <2> DEFINE t == w.events
  <2>1. IsSeq(event) /\ IsSeq(t) /\ event' = event \o t
    BY <1>1
  <2> HIDE DEF t
  <2> DEFINE es == event \o t
  <2>2. /\ IsSeq(es) /\ Len(es) = Len(event) + Len(t)
        /\ \A e \in 1..Len(event) : es[e] = event[e]
        /\ \A i \in 1..Len(t) : es[Len(event) + i] = t[i]
        /\ \A e \in 1..Len(es) :
             e \in 1..Len(event) \/ \E i \in 1..Len(t) : e = Len(event) + i
    BY <2>1, ConcatIsSeq, Zenon
  <2>3. event' = es
    BY <2>1
  <2> HIDE DEF es
  <2> QED
    BY <2>2, <2>3 DEF Ids, t
<1>3. \A e \in Ids' : \/ e \in Ids /\ event'[e] = event[e]
                      \/ Formed(event'[e]) /\ event'[e].status = "archived"
  BY <1>1, <1>2
<1>4. StreamOK'
  BY <1>2, <1>3 DEF StreamOK
<1> QED
  BY <1>3, <1>4 DEF NothingNew, AnyRunning, Running, Active, In

LEMMA NothingNewStep ==
  ASSUME NoTwo, NothingNew
  PROVE  StreamOK' /\ NoTwo' /\ (AnyRunning' => AnyRunning)
BY DEF NoTwo, NothingNew, AnyRunning

LEMMA SameStream ==
  ASSUME StreamOK, NoTwo, event' = event
  PROVE  StreamOK' /\ NoTwo' /\ (AnyRunning' => AnyRunning)
BY DEF StreamOK, NoTwo, AnyRunning, Running, Active, In, Ids

\* A write keeps the invariant, and only the record of a running event by a
\* request that may write one starts anything.
LEMMA WriteStep ==
  ASSUME IInv, NEW a \in Actors, Write(a)
  PROVE  /\ IInv'
         /\ AnyRunning' /\ ~AnyRunning => req[a].op \in Starting \/ req[a].saw
         /\ req'[a] # req[a]
<1> DEFINE todo == req[a].todo
           w == Head(todo)
<1>1. RequestOK(req[a]) /\ IsSeq(todo) /\ todo # <<>> /\ {"todo", "op", "saw"} \subseteq DOMAIN req[a]
  BY DEF IInv, RequestsOK, RequestOK, Write
<1>2. WriteOK(req[a], w)
  BY <1>1, TailIsSeq, SeqLen DEF RequestOK
<1>3. Record(w) \/ Complete(w) \/ SetOnline(w) \/ Archive(w) \/ Transition(w) \/ Refresh(w)
  BY DEF Write
<1>4. /\ StreamOK' /\ NoTwo'
      /\ AnyRunning' /\ ~AnyRunning => w.do = "record" /\ w.status = "running"
  <2>1. CASE Record(w)
    BY <2>1, RecordStep DEF IInv, Record
  <2>2. CASE Complete(w)
    BY <2>2, CompletedStep, NothingNewStep DEF IInv, Complete
  <2>3. CASE SetOnline(w)
    BY <2>3, SameStream DEF IInv, SetOnline
  <2>4. CASE Archive(w)
    BY <1>2, <2>4, ArchiveStep, NothingNewStep DEF IInv
  <2>5. CASE Transition(w)
    BY <2>5, CompletedStep, NothingNewStep DEF IInv, Transition
  <2>6. CASE Refresh(w)
    BY <2>6, SameStream DEF IInv, Refresh
  <2> QED
    BY <1>3, <2>1, <2>2, <2>3, <2>4, <2>5, <2>6
<1>5. RequestsOK' /\ req'[a] # req[a]
  <2> DEFINE r == IF Len(todo) = 1 THEN Idle ELSE [req[a] EXCEPT !.todo = Tail(todo)]
  <2>1. req' = [req EXCEPT ![a] = r] /\ req = [b \in Actors |-> req[b]]
    <3>1. req = [b \in Actors |-> req[b]]
      BY DEF IInv, RequestsOK
    <3>2. req' = [req EXCEPT ![a] = IF Len(req[a].todo) = 1 THEN Idle
                                    ELSE [req[a] EXCEPT !.todo = Tail(req[a].todo)]]
      BY DEF Write
    <3> QED
      BY <3>1, <3>2
  <2>2. RequestOK(r) /\ r # req[a]
    <3>1. CASE Len(todo) = 1
      BY <1>1, <3>1, IdleOK DEF Idle
    <3>2. CASE Len(todo) # 1
      <4> DEFINE left == Tail(todo)
      <4>1. r.todo = left /\ r.op = req[a].op /\ r.saw = req[a].saw /\ DOMAIN r = DOMAIN req[a]
        BY <1>1, <3>2
      <4>2. /\ IsSeq(left) /\ Len(left) = Len(todo) - 1 /\ Len(todo) \in Nat
            /\ \A i \in 1..Len(left) : left[i] = todo[i + 1]
        BY <1>1, TailIsSeq, SeqLen
      <4>3. \A i \in 1..Len(todo) : WriteOK(req[a], todo[i])
        BY <1>1 DEF RequestOK
      <4> HIDE DEF r, left, todo
      <4>4. \A i \in 1..Len(left) : WriteOK(req[a], left[i])
        BY <4>2, <4>3
      <4>5. \A i \in 1..Len(r.todo) : WriteOK(r, r.todo[i])
        BY <4>1, <4>4 DEF WriteOK
      <4>6. RequestOK(r)
        BY <1>1, <4>1, <4>2, <4>5 DEF RequestOK
      <4>7. r # req[a]
        BY <4>1, <4>2 DEF todo
      <4> QED
        BY <4>6, <4>7
    <3> QED
      BY <3>1, <3>2
  <2> HIDE DEF r
  <2>3. req' = [b \in Actors |-> IF b = a THEN r ELSE req[b]]
    BY <2>1
  <2> QED
    BY <2>2, <2>3 DEF IInv, RequestsOK
<1>6. AnyRunning' /\ ~AnyRunning => req[a].op \in Starting \/ req[a].saw
  BY <1>2, <1>4 DEF WriteOK
<1> QED
  BY <1>4, <1>5, <1>6 DEF IInv

-----------------------------------------------------------------------------
(* What a request decides to write.                                         *)

\* Every write of the request may be written by it.
Fits(a, operation, todo) ==
    /\ IsSeq(todo)
    /\ \A i \in 1..Len(todo) :
         WriteOK([op |-> operation, saw |-> line.status = "running" \/ AnyRunning,
                  todo |-> todo], todo[i])

LEMMA BeginStep ==
  ASSUME IInv, NEW a \in Actors, NEW operation, NEW todo,
         Begin(a, operation, todo), Fits(a, operation, todo)
  PROVE  IInv' /\ event' = event
<1> DEFINE r == [op |-> operation, saw |-> line.status = "running" \/ AnyRunning, todo |-> todo]
<1>1. r.todo = todo /\ {"todo", "op", "saw"} \subseteq DOMAIN r
  OBVIOUS
<1>2. RequestOK(r)
  BY <1>1 DEF Fits, RequestOK
<1>3. req' = [req EXCEPT ![a] = r] /\ event' = event
  BY DEF Begin
<1> HIDE DEF r
<1>4. req' = [b \in Actors |-> IF b = a THEN r ELSE req[b]]
  BY <1>3 DEF IInv, RequestsOK
<1> QED
  BY <1>2, <1>3, <1>4, SameStream DEF IInv, RequestsOK

LEMMA OneFits ==
  ASSUME NEW a, NEW operation, NEW w,
         WriteOK([op |-> operation, saw |-> line.status = "running" \/ AnyRunning,
                  todo |-> <<w>>], w)
  PROVE  Fits(a, operation, <<w>>)
<1>1. IsSeq(<<w>>) /\ Len(<<w>>) = 1 /\ <<w>>[1] = w
  BY DEF IsSeq
<1> QED
  BY <1>1 DEF Fits

LEMMA TwoFit ==
  ASSUME NEW a, NEW operation, NEW v, NEW w,
         \A x \in {v, w} :
            WriteOK([op |-> operation, saw |-> line.status = "running" \/ AnyRunning,
                     todo |-> <<v, w>>], x)
  PROVE  Fits(a, operation, <<v, w>>)
<1>1. IsSeq(<<v, w>>) /\ Len(<<v, w>>) = 2 /\ <<v, w>>[1] = v /\ <<v, w>>[2] = w
  BY DEF IsSeq
<1> QED
  BY <1>1 DEF Fits

LEMMA NewFacts ==
  ASSUME NEW lane, NEW operation, NEW status, NEW version
  PROVE  /\ New(lane, operation, status, version).do = "record"
         /\ New(lane, operation, status, version).status = status
BY DEF New, NoWrite

LEMMA AgainFacts ==
  ASSUME NEW e, NEW operation, NEW status
  PROVE  Again(e, operation, status).do = "record" /\ Again(e, operation, status).status = status
BY DEF Again, New, NoWrite

LEMMA OnlineFacts == ASSUME NEW v PROVE Online(v).do = "online"
BY DEF Online, NoWrite

LEMMA ShownIsSeq == ASSUME NEW S PROVE IsSeq(Shown(S)) /\ IsSeq(ShownOrLatest(S))
<1>1. ASSUME NEW e PROVE IsSeq(<<e>>) /\ IsSeq(<<>>)
  BY DEF IsSeq
<1>2. ASSUME NEW e PROVE IsSeq(ShownIn(e, S))
  BY <1>1 DEF ShownIn
<1>3. IsSeq(Shown(S))
  BY <1>2, ConcatIsSeq DEF Shown
<1> QED
  BY <1>1, <1>3 DEF ShownOrLatest


\* Nothing that runs is written, or by a request that may write it.
MayWrite(operation, w) ==
    /\ w.do # "archive"
    /\ w.do = "record" /\ w.status = "running"
         => operation \in Starting \/ line.status = "running" \/ AnyRunning

LEMMA MayFit ==
  ASSUME NEW operation, NEW todo, NEW w, MayWrite(operation, w)
  PROVE  WriteOK([op |-> operation, saw |-> line.status = "running" \/ AnyRunning,
                  todo |-> todo], w)
BY DEF WriteOK, MayWrite

LEMMA BeginOne ==
  ASSUME IInv, NEW a \in Actors, NEW operation, NEW w,
         MayWrite(operation, w), Begin(a, operation, <<w>>)
  PROVE  IInv' /\ event' = event
<1>1. Fits(a, operation, <<w>>)
  <2>1. WriteOK([op |-> operation, saw |-> line.status = "running" \/ AnyRunning,
                 todo |-> <<w>>], w)
    BY MayFit
  <2> QED
    BY <2>1, OneFits
<1> QED
  BY <1>1, BeginStep

LEMMA BeginTwo ==
  ASSUME IInv, NEW a \in Actors, NEW operation, NEW v, NEW w,
         MayWrite(operation, v), MayWrite(operation, w), Begin(a, operation, <<v, w>>)
  PROVE  IInv' /\ event' = event
<1>1. Fits(a, operation, <<v, w>>)
  <2>1. \A x \in {v, w} :
           WriteOK([op |-> operation, saw |-> line.status = "running" \/ AnyRunning,
                    todo |-> <<v, w>>], x)
    BY MayFit
  <2> QED
    BY <2>1, TwoFit
<1> QED
  BY <1>1, BeginStep

\* Releases, rollbacks, and the operations of the candidate.
LEMMA ReleaseFits ==
  ASSUME IInv, NEW c \in Clients,
         \/ CreateProduction(c) \/ Rollback(c) \/ ForceStop(c) \/ CreateCanary(c)
         \/ StartCanary(c) \/ StopCanary(c) \/ CancelCanary(c) \/ Promote(c)
  PROVE  IInv' /\ event' = event
<1> USE DEF Request, MayWrite, Starting
<1>0. c \in Actors
  BY DEF Actors
<1>1. CASE CreateProduction(c)
  <2> PICK v \in Versions :
        Begin(c, "production", <<New("production", "create_production", "running", v), Online(v)>>)
    BY <1>1 DEF CreateProduction
  <2> QED
    BY <1>0, BeginTwo, NewFacts, OnlineFacts
<1>2. CASE Rollback(c)
  <2> PICK e \in Ids :
        Begin(c, "rollback", <<New("production", "rollback", "running", event[e].version),
                               Online(event[e].version)>>)
    BY <1>2 DEF Rollback
  <2> QED
    BY <1>0, BeginTwo, NewFacts, OnlineFacts
<1>3. CASE ForceStop(c)
  <2> PICK e \in Ids :
        Begin(c, "forceStop", <<[Again(e, "force_stop", "stopped") EXCEPT !.reason = "force_stopped"],
                                Online(None)>>)
    BY <1>3 DEF ForceStop, Running, In
  <2> DEFINE w == [Again(e, "force_stop", "stopped") EXCEPT !.reason = "force_stopped"]
  <2>1. w.do = "record" /\ w.status = "stopped"
    BY AgainFacts
  <2>2. Begin(c, "forceStop", <<w, Online(None)>>)
    OBVIOUS
  <2> HIDE DEF w
  <2> QED
    BY <1>0, <2>1, <2>2, BeginTwo, OnlineFacts
<1>4. CASE CreateCanary(c)
  BY <1>0, <1>4, BeginOne, NewFacts DEF CreateCanary
<1>5. CASE StartCanary(c)
  BY <1>0, <1>5, BeginOne, AgainFacts DEF StartCanary
<1>6. CASE StopCanary(c)
  BY <1>0, <1>6, BeginOne, AgainFacts DEF StopCanary
<1>7. CASE CancelCanary(c)
  <2> PICK e \in Ids :
        Begin(c, "cancelCanary", <<[Again(e, "cancel_canary", "cancelled") EXCEPT !.reason = "cancelled"]>>)
    BY <1>7 DEF CancelCanary, Active, In
  <2> DEFINE w == [Again(e, "cancel_canary", "cancelled") EXCEPT !.reason = "cancelled"]
  <2>1. w.do = "record" /\ w.status = "cancelled"
    BY AgainFacts
  <2>2. Begin(c, "cancelCanary", <<w>>)
    OBVIOUS
  <2> HIDE DEF w
  <2> QED
    BY <1>0, <2>1, <2>2, BeginOne
<1>8. CASE Promote(c)
  <2> DEFINE v == [Again(line.canary, "promote_canary", "running") EXCEPT !.lane = "production"]
             w == [NoWrite EXCEPT !.do = "complete", !.id = line.canary]
  <2>1. Begin(c, "promote", <<v, w>>) /\ AnyRunning
    BY <1>8 DEF Promote, AnyRunning, Running, In
  <2>2. v.do = "record" /\ w.do = "complete"
    BY AgainFacts DEF NoWrite
  <2> HIDE DEF v, w
  <2> QED
    BY <1>0, <2>1, <2>2, BeginTwo
<1> QED
  BY <1>1, <1>2, <1>3, <1>4, <1>5, <1>6, <1>7, <1>8

\* An edit writes the status it has read, a restored event that of the line.
LEMMA EditFits ==
  ASSUME IInv, NEW c \in Clients, Adjust(c) \/ RestoreHistory(c)
  PROVE  IInv' /\ event' = event
<1> USE DEF Request, MayWrite
<1>0. c \in Actors
  BY DEF Actors
<1>1. CASE Adjust(c)
  <2> PICK e \in Ids : Begin(c, "adjust", <<Again(e, "config_changed", event[e].status)>>)
    BY <1>1 DEF Adjust
  <2>1. event[e].status = "running" => AnyRunning
    BY DEF AnyRunning
  <2> QED
    BY <1>0, <2>1, BeginOne, AgainFacts
<1>2. CASE RestoreHistory(c)
  <2> DEFINE w(e, lane) == New(lane, IF lane = "production" THEN "restore_to_production"
                                     ELSE "restore_to_canary", line.status, event[e].version)
  <2>1. PICK e \in Ids, lane \in Lanes :
          \/ Begin(c, "restore", <<w(e, lane), Online(event[e].version)>>)
          \/ Begin(c, "restore", <<w(e, lane)>>)
    BY <1>2 DEF RestoreHistory
  <2>2. w(e, lane).do = "record" /\ w(e, lane).status = line.status
    BY NewFacts
  <2> HIDE DEF w
  <2> QED
    BY <1>0, <2>1, <2>2, BeginOne, BeginTwo, OnlineFacts
<1> QED
  BY <1>1, <1>2

LEMMA ScanFits == ASSUME IInv, Scan PROVE IInv' /\ event' = event
<1> DEFINE v == [NoWrite EXCEPT !.do = "transition", !.id = line.canary]
           w == [NoWrite EXCEPT !.do = "refresh"]
<1>1. Begin(Runner, "scan", <<v, w>>) /\ Runner \in Actors
  BY DEF Scan, Actors
<1>2. v.do = "transition" /\ w.do = "refresh"
  BY DEF NoWrite
<1> HIDE DEF v, w
<1> QED
  BY <1>1, <1>2, BeginTwo DEF MayWrite

LEMMA AllFit ==
  ASSUME IInv, NEW a \in Actors, NEW operation, NEW todo, IsSeq(todo),
         \A i \in 1..Len(todo) : MayWrite(operation, todo[i]),
         Begin(a, operation, todo)
  PROVE  IInv' /\ event' = event
<1>1. Fits(a, operation, todo)
  BY MayFit DEF Fits
<1> QED
  BY <1>1, BeginStep

\* A line starts, is archived, and comes back stopped.
LEMMA LineFits ==
  ASSUME IInv, NEW c \in Clients, StartLine(c) \/ ArchiveLine(c) \/ UnarchiveLine(c)
  PROVE  IInv' /\ event' = event
<1>0. c \in Actors
  BY DEF Actors
<1>1. CASE StartLine(c)
  <2>1. ASSUME NEW e
        PROVE  /\ IsSeq(Resumed(e))
               /\ \A i \in 1..Len(Resumed(e)) : MayWrite("startLine", Resumed(e)[i])
    <3> DEFINE v == Again(e, "resume_lane", "running")
               w == Online(event[e].version)
    <3>1. MayWrite("startLine", v) /\ MayWrite("startLine", w)
      BY AgainFacts, OnlineFacts DEF MayWrite, Starting
    <3>2. Resumed(e) = <<v, w>> \/ Resumed(e) = <<v>>
      BY DEF Resumed
    <3> HIDE DEF v, w
    <3>3. IsSeq(<<v, w>>) /\ IsSeq(<<v>>)
      BY DEF IsSeq
    <3> QED
      BY <3>1, <3>2, <3>3
  <2>2. \/ Begin(c, "startLine", Resumed(Resumable[1]))
        \/ Begin(c, "startLine", Resumed(Resumable[1]) \o Resumed(Resumable[2]))
    BY <1>1 DEF StartLine, Request
  <2>3. CASE Begin(c, "startLine", Resumed(Resumable[1]))
    BY <1>0, <2>1, <2>3, AllFit
  <2>4. CASE Begin(c, "startLine", Resumed(Resumable[1]) \o Resumed(Resumable[2]))
    <3> DEFINE s == Resumed(Resumable[1])
               t == Resumed(Resumable[2])
    <3>1. /\ IsSeq(s) /\ IsSeq(t) /\ Begin(c, "startLine", s \o t)
          /\ \A i \in 1..Len(s) : MayWrite("startLine", s[i])
          /\ \A i \in 1..Len(t) : MayWrite("startLine", t[i])
      BY <2>1, <2>4
    <3> HIDE DEF s, t
    <3>2. IsSeq(s \o t) /\ \A i \in 1..Len(s \o t) : MayWrite("startLine", (s \o t)[i])
      BY <3>1, ConcatIsSeq
    <3> QED
      BY <1>0, <3>1, <3>2, AllFit
  <2> QED
    BY <2>2, <2>3, <2>4
<1>2. CASE ArchiveLine(c)
  <2> DEFINE shown == ShownOrLatest(Statuses)
             copies == [i \in DOMAIN shown |-> Archived(shown[i])]
             w == [NoWrite EXCEPT !.do = "archive", !.at = Now, !.events = copies,
                                  !.production = line.production, !.canary = line.canary]
  <2>1. Begin(c, "archive", <<w>>)
    BY <1>2 DEF ArchiveLine, Request
  <2>2. w.do = "archive" /\ w.events = copies
    BY DEF NoWrite
  <2>3. IsSeq(shown) /\ Len(shown) \in Nat /\ DOMAIN shown = 1..Len(shown)
    BY ShownIsSeq, SeqLen
  <2>4. \A i \in DOMAIN shown : Formed(copies[i]) /\ copies[i].status = "archived"
    BY DEF Archived, Formed
  <2>5. copies = [i \in DOMAIN shown |-> copies[i]]
    OBVIOUS
  <2> HIDE DEF shown, copies, w
  <2>6. IsSeq(copies) /\ Len(copies) = Len(shown)
    BY <2>3, <2>5, MappedIsSeq
  <2>7. \A i \in 1..Len(copies) : Formed(copies[i]) /\ copies[i].status = "archived"
    BY <2>3, <2>4, <2>6
  <2>8. Fits(c, "archive", <<w>>)
    <3>1. WriteOK([op |-> "archive", saw |-> line.status = "running" \/ AnyRunning,
                   todo |-> <<w>>], w)
      BY <2>2, <2>6, <2>7 DEF WriteOK
    <3> QED
      BY <3>1, OneFits
  <2> QED
    BY <1>0, <2>1, <2>8, BeginStep
<1>3. CASE UnarchiveLine(c)
  <2> DEFINE shown == ShownOrLatest({"archived"})
             todo == [i \in DOMAIN shown |-> Unarchived(shown[i])]
  <2>1. Begin(c, "unarchive", todo)
    BY <1>3 DEF UnarchiveLine, Request
  <2>2. IsSeq(shown) /\ Len(shown) \in Nat /\ DOMAIN shown = 1..Len(shown)
    BY ShownIsSeq, SeqLen
  <2>3. \A i \in DOMAIN shown : MayWrite("unarchive", todo[i])
    BY AgainFacts DEF Unarchived, MayWrite
  <2>4. todo = [i \in DOMAIN shown |-> todo[i]]
    OBVIOUS
  <2> HIDE DEF shown, todo
  <2>5. IsSeq(todo) /\ Len(todo) = Len(shown)
    BY <2>2, <2>4, MappedIsSeq
  <2>6. \A i \in 1..Len(todo) : MayWrite("unarchive", todo[i])
    BY <2>2, <2>3, <2>5
  <2> QED
    BY <1>0, <2>1, <2>5, <2>6, AllFit
<1> QED
  BY <1>1, <1>2, <1>3

LEMMA CrashStep == ASSUME IInv, Crash PROVE IInv' /\ event' = event
<1>1. event' = event /\ req' = [a \in Actors |-> Idle]
  BY DEF Crash
<1>2. RequestsOK'
  BY <1>1, IdleOK DEF RequestsOK
<1> QED
  BY <1>1, <1>2, SameStream DEF IInv

-----------------------------------------------------------------------------
(* The theorems.                                                            *)

LEMMA Initially == Init => IInv
<1> SUFFICES ASSUME Init PROVE IInv
  OBVIOUS
<1>1. event = <<>> /\ req = [a \in Actors |-> Idle]
  BY DEF Init
<1>2. IsSeq(event) /\ Ids = {}
  BY <1>1 DEF IsSeq, Ids
<1>3. RequestsOK
  BY <1>1, IdleOK DEF RequestsOK
<1> QED
  BY <1>2, <1>3 DEF IInv, StreamOK, NoTwo, Running, Active, In

LEMMA Step ==
  ASSUME IInv, [Next]_vars
  PROVE  IInv' /\ StartedByRequest
<1>1. ASSUME IInv', event' = event
      PROVE  IInv' /\ (AnyRunning' => AnyRunning)
  BY <1>1, SameStream DEF IInv
<1>2. ASSUME NEW c \in Clients,
             \/ CreateProduction(c) \/ Rollback(c) \/ ForceStop(c)
             \/ CreateCanary(c) \/ StartCanary(c) \/ StopCanary(c) \/ CancelCanary(c)
             \/ Promote(c) \/ Adjust(c) \/ StartLine(c)
             \/ ArchiveLine(c) \/ UnarchiveLine(c) \/ RestoreHistory(c)
      PROVE  IInv' /\ (AnyRunning' => AnyRunning)
  BY <1>1, <1>2, ReleaseFits, EditFits, LineFits
<1>3. ASSUME Scan PROVE IInv' /\ (AnyRunning' => AnyRunning)
  BY <1>1, <1>3, ScanFits
<1>4. ASSUME NEW a \in Actors, Write(a)
      PROVE  /\ IInv'
             /\ ~AnyRunning /\ AnyRunning' =>
                  req'[a] # req[a] /\ (req[a].op \in Starting \/ req[a].saw)
  BY <1>4, WriteStep
<1>5. ASSUME Crash PROVE IInv' /\ (AnyRunning' => AnyRunning)
  BY <1>1, <1>5, CrashStep
<1>6. ASSUME UNCHANGED vars PROVE IInv' /\ (AnyRunning' => AnyRunning)
  <2>1. event' = event /\ req' = req
    BY <1>6 DEF vars
  <2>2. IInv'
    BY <2>1, SameStream DEF IInv, RequestsOK
  <2> QED
    BY <1>1, <2>1, <2>2
<1> QED
  BY <1>2, <1>3, <1>4, <1>5, <1>6 DEF Next, StartedByRequest

\* However requests overtake each other and wherever the server stops, one
\* production runs and one candidate occupies the canary slot: the partial
\* unique indexes of release_line_events never refuse a write of record.
THEOREM OneEventASlot == Spec => []OneActive
<1>1. IInv => OneActive
  <2> SUFFICES ASSUME IInv PROVE OneActive
    OBVIOUS
  <2>1. ASSUME NEW S, \A e, f \in S : e = f PROVE Cardinality(S) <= 1
    <3>1. CASE S = {}
      BY <3>1, FS_EmptySet
    <3>2. CASE S # {}
      <4> PICK e : e \in S
        BY <3>2
      <4>1. S = {e}
        BY <2>1
      <4> QED
        BY <4>1, FS_Singleton
    <3> QED
      BY <3>1, <3>2
  <2> QED
    BY <2>1 DEF IInv, NoTwo, OneActive
<1>2. IInv /\ [Next]_vars => IInv'
  BY Step
<1> QED
  BY <1>1, <1>2, Initially, PTL DEF Spec

\* A line on which nothing runs starts again only by a request that is meant to
\* start it, or by one that was read while it was running.
THEOREM StopsHold == Spec => StopHolds
<1>1. IInv /\ [Next]_vars => IInv'
  BY Step
<1>2. IInv /\ [Next]_vars => [StartedByRequest]_vars
  BY Step
<1> QED
  BY <1>1, <1>2, Initially, PTL DEF Spec, StopHolds
-----------------------------------------------------------------------------
(* ReleaseLine: what holds while requests come one after the other and no   *)
(* server stops.                                                            *)

EventSet == [lane : Lanes, status : Statuses, reason : Reasons, version : Versions,
             at : Nat, root : Nat]
Dark == "dark" \in happened

\* The events of a lane that its slot can show, and the last one of a set.
InLane(lane) == {e \in Ids : event[e].lane = lane /\ event[e].status \in Visible}
Topmost(S, x) == IF S = {} THEN x = 0 ELSE x \in S /\ \A f \in S : f <= x

\* The stream is in the order of created_at.
RootOK(e) == event[e].root <= e /\ (event[e].lane = "canary" => event[e].root # 0)
InOrder(es) == \A e, f \in 1..Len(es) : e <= f => es[e].at <= es[f].at
Stream == event \in Seq(EventSet) /\ (\A e \in Ids : RootOK(e)) /\ InOrder(event)

\* Nothing was shown after an event that runs; nothing runs on an archived
\* line, and its slots show what was archived.
Shows == \A e, f \in Ids : event[e].status = "running" /\ f \in InLane(event[e].lane) => f <= e
Open == line.status = "archived" => Dark
Shelved ==
    /\ ~AnyRunning
    /\ \A p \in {line.production, line.canary} : p # 0 => event[p].status = "archived"
    /\ line.production # 0 \/ line.canary # 0
Base ==
    /\ Stream
    /\ ~Dark => Shows
    /\ ~Open => Shelved
    /\ line.status \in {"none", "running", "stopped", "archived"}
    /\ line.status # "none" => event # <<>>

\* What a settled line tells.
Pointers == Topmost(InLane("production"), line.production) /\ Topmost(InLane("canary"), line.canary)
Lit == ~Dark => (line.status = "running" <=> AnyRunning)
RightVersion(v) ==
    /\ Running("production") = {} => v = None
    /\ \A e \in Running("production") : event[e].root = 0 => v = event[e].version
Continues(r) == ~Ended(r) \/ \E e \in Of(r) : event[e].status = "archived"
Continuing == ~Dark => \A e \in Active : Continues(event[e].root)
Known(r) == r = 0 \/ Promoted(r)

\* The writes a request may have left: a record, by what it records, ...
Fresh(w) ==
    /\ w.do = "record" /\ w.version \in Versions /\ w.reason \in Reasons
    /\ w.at \in Nat /\ \A e \in Ids : event[e].at <= w.at
    /\ w.root \in Nat /\ w.root <= Len(event)
    /\ Open \/ w.operation = "unarchive_line" \/ w.status \in {"running", "cancelled"}
Candidate(w) ==
    /\ Fresh(w) /\ w.lane = "canary" /\ w.status \in {"running", "stopped", "cancelled"}
    /\ w.operation \notin CancelsCanary
    /\ ~Dark /\ w.status # "cancelled" /\ w.root # 0 => Continues(w.root)
Production(w, status) == Fresh(w) /\ w.lane = "production" /\ w.status = status
Released(w) == Production(w, "running") /\ Known(w.root)
Kept(w) == Released(w) /\ (w.root # 0 \/ online = w.version) /\ w.operation \notin CancelsCanary
Stops(w) == Production(w, "stopped") /\ w.operation = "force_stop" /\ Known(w.root)
Resting(w) ==
    /\ Production(w, "stopped") /\ w.operation # "force_stop" /\ Known(w.root)
    /\ ~Dark => Running("production") = {}

\* ... the end of the only candidate, and the version of the stream.
Ends(w) == w.id \in Ids /\ event[w.id].lane = "canary" /\ Active \subseteq {w.id} /\ Open
Completes(w) == w.do = "complete" /\ Ends(w)
Transits(w) == w.do = "transition" /\ Ends(w) /\ line.status # "archived"
Refreshes(w) == w.do = "refresh" /\ event # <<>> /\ line.status # "archived"
Promotes(w, x) ==
    /\ Production(w, "running") /\ w.root # 0 /\ w.operation \notin CancelsCanary
    /\ Completes(x)
Brings(w, v) == w.do = "online" /\ w.version = v
Onlines(w) == w.do = "online" /\ RightVersion(w.version)

Copy(e) ==
    /\ e \in EventSet /\ e.status = "archived" /\ e.root <= Len(event)
    /\ \A f \in Ids : event[f].at <= e.at
    /\ e.lane = "canary" => e.root # 0
    /\ e.lane = "production" => Known(e.root)
Archives(w) ==
    /\ w.do = "archive" /\ w.production = line.production /\ w.canary = line.canary
    /\ event # <<>> /\ w.events \in Seq(EventSet) /\ w.events # <<>>
    /\ \A i, j \in DOMAIN w.events : Copy(w.events[i]) /\ w.events[i].at = w.events[j].at
    /\ line.production # 0 => \E i \in DOMAIN w.events : w.events[i].lane = "production"
    /\ line.canary # 0 => \E i \in DOMAIN w.events : w.events[i].lane = "canary"
    /\ ~Dark => ~AnyRunning

OneLeft(w) ==
    \/ Resting(w) \/ Kept(w) \/ Candidate(w)
    \/ Completes(w) \/ Onlines(w) \/ Archives(w) \/ Refreshes(w)
TwoLeft(v, w) ==
    \/ Released(v) /\ Brings(w, v.version)
    \/ Stops(v) /\ Brings(w, None)
    \/ Promotes(v, w)
    \/ Resting(v) /\ v.operation \notin CancelsCanary /\ Candidate(w) /\ w.at = v.at
    \/ Onlines(v) /\ Candidate(w)
    \/ Transits(v) /\ Refreshes(w)
ThreeLeft(u, v, w) ==
    /\ Released(u) /\ u.operation \notin CancelsCanary /\ Brings(v, u.version)
    /\ Candidate(w) /\ w.at = u.at
TodoOK(todo) ==
    \/ todo = <<>>
    \/ Len(todo) = 1 /\ OneLeft(todo[1])
    \/ Len(todo) = 2 /\ TwoLeft(todo[1], todo[2])
    \/ Len(todo) = 3 /\ ThreeLeft(todo[1], todo[2], todo[3])

\* A line with these writes left: what they are going to put right may be
\* wrong, and nothing else.
Awaits(todo, do) == todo # <<>> /\ todo[1].do = do
Sound(todo) ==
    /\ IsSeq(todo) /\ TodoOK(todo) /\ Base
    /\ Awaits(todo, "refresh") \/ (Pointers /\ Lit)
    /\ Awaits(todo, "online") \/ RightVersion(online)
    /\ Awaits(todo, "complete") \/ Continuing

\* One request at most is at work, and these are its writes.
Left(todo) ==
    \/ todo = <<>> /\ ~Busy
    \/ todo # <<>> /\ \E a \in Actors :
         req[a].todo = todo /\ \A b \in Actors \ {a} : req[b] = Idle
LineInv ==
    Orderly => \E todo \in {req[a].todo : a \in Actors} \cup {<<>>} : Left(todo) /\ Sound(todo)

-----------------------------------------------------------------------------
(* The last event of a set.                                                 *)

LEMMA HighestFound ==
  ASSUME NEW n \in Nat, NEW S, S \subseteq 0..n, S # {}
  PROVE  \E m \in S : \A x \in S : x <= m
<1> DEFINE R == {p \in Nat \X Nat : p[1] < p[2]}
           T == {n - x : x \in S}
<1>1. T \subseteq Nat /\ T # {}
  <2>1. ASSUME NEW x \in S PROVE n - x \in Nat
    <3>1. x \in 0..n
      OBVIOUS
    <3> QED
      BY <3>1
  <2> QED
    BY <2>1
<1>2. IsWellFoundedOn(R, Nat)
  BY NatLessThanWellFounded DEF OpToRel
<1>3. PICK t \in T : \A y \in T : ~(<<y, t>> \in R)
  <2> HIDE DEF R, T
  <2> QED
    BY <1>1, <1>2, WFMin
<1>4. PICK m \in S : t = n - m
  OBVIOUS
<1>5. ASSUME NEW x \in S PROVE x <= m
  <2>1. n - x \in T /\ n - x \in Nat /\ n - m \in Nat /\ x \in 0..n /\ m \in 0..n
    BY <1>1, <1>4
  <2>2. ~(n - x < n - m)
    BY <1>3, <1>4, <2>1
  <2> QED
    BY <2>1, <2>2
<1> QED
  BY <1>5

\* Of a stream in the order of created_at, Newest is the last.
LEMMA NewestIsTopmost ==
  ASSUME NEW es, Len(es) \in Nat, \A e \in 1..Len(es) : es[e].at \in Nat, InOrder(es),
         NEW S, S \subseteq 1..Len(es)
  PROVE  Topmost(S, Newest(es, S))
<1>1. CASE S = {}
  BY <1>1 DEF Topmost, Newest
<1>2. CASE S # {}
  <2>1. S \subseteq 0..Len(es)
    OBVIOUS
  <2>2. PICK m \in S : \A f \in S : f <= m
    BY <1>2, <2>1, HighestFound
  <2>3. \A f \in S : Later(es, m, f)
    BY <2>2 DEF InOrder, Later
  <2> DEFINE x == CHOOSE e \in S : \A f \in S : Later(es, e, f)
  <2>4. x \in S /\ \A f \in S : Later(es, x, f)
    BY <2>3
  <2>5. Newest(es, S) = x
    BY <1>2 DEF Newest
  <2> HIDE DEF x
  <2>6. ASSUME NEW f \in S PROVE f <= x
    BY <2>4 DEF InOrder, Later
  <2> QED
    BY <1>2, <2>4, <2>5, <2>6 DEF Topmost
<1> QED
  BY <1>1, <1>2

LEMMA TopmostIsOne ==
  ASSUME NEW S, S \subseteq Int, NEW x, NEW y, Topmost(S, x), Topmost(S, y)
  PROVE  x = y
<1>1. CASE S = {}
  BY <1>1 DEF Topmost
<1>2. CASE S # {}
  <2>1. x \in S /\ y \in S /\ y <= x /\ x <= y
    BY <1>2 DEF Topmost
  <2>2. x \in Int /\ y \in Int
    BY <2>1
  <2> QED
    BY <2>1, <2>2
<1> QED
  BY <1>1, <1>2

\* What the slots show of a stream in order.
LEMMA SlotIsTopmost ==
  ASSUME NEW es \in Seq(EventSet), InOrder(es), NEW lane
  PROVE  Topmost({e \in 1..Len(es) : es[e].lane = lane /\ es[e].status \in Visible}, Slot(es, lane))
<1> DEFINE S == {e \in 1..Len(es) : es[e].lane = lane /\ es[e].status \in Visible}
<1>1. Len(es) \in Nat /\ DOMAIN es = 1..Len(es) /\ \A e \in 1..Len(es) : es[e] \in EventSet
  OBVIOUS
<1>2. \A e \in 1..Len(es) : es[e].at \in Nat
  BY <1>1 DEF EventSet
<1>3. Slot(es, lane) = Newest(es, S)
  BY <1>1 DEF Slot
<1>4. S \subseteq 1..Len(es)
  OBVIOUS
<1>5. Topmost(S, Newest(es, S))
  <2> HIDE DEF S
  <2> QED
    BY <1>1, <1>2, <1>4, NewestIsTopmost
<1>6. Topmost(S, Slot(es, lane))
  <2> HIDE DEF S
  <2> QED
    BY <1>3, <1>5, Zenon
<1> QED
  BY <1>6

-----------------------------------------------------------------------------
(* What a record does to the stream.                                        *)

\* What becomes of an event: it ends, or stays as it is.
LEMMA EndedByCases ==
  ASSUME NEW w, NEW e \in EventSet
  PROVE  /\ EndedBy(w, e) \in EventSet
         /\ EndedBy(w, e).lane = e.lane /\ EndedBy(w, e).version = e.version
         /\ EndedBy(w, e).at = e.at /\ EndedBy(w, e).root = e.root
         /\ \/ EndedBy(w, e) = e
            \/ e.lane = "production" /\ e.status = "running" /\ EndedBy(w, e).status = "stopped"
            \/ e.lane = "canary" /\ e.status \in Occupied /\ EndedBy(w, e).status = "cancelled"
            \/ e.lane = "canary" /\ e.status \in Occupied /\ EndedBy(w, e).status = "completed"
                 /\ EndedBy(w, e).reason = "replaced"
<1>1. ASSUME NEW status \in Statuses, NEW reason \in Reasons
      PROVE  /\ Ending(e, status, reason) \in EventSet
             /\ Ending(e, status, reason).lane = e.lane /\ Ending(e, status, reason).version = e.version
             /\ Ending(e, status, reason).at = e.at /\ Ending(e, status, reason).root = e.root
             /\ Ending(e, status, reason).status = status /\ Ending(e, status, reason).reason = reason
  BY DEF Ending, EventSet
<1>2. /\ "stopped" \in Statuses /\ "cancelled" \in Statuses /\ "completed" \in Statuses
      /\ {"rolled_back", "replaced", "force_stopped", "cancelled"} \subseteq Reasons
  BY DEF Statuses, Reasons
<1> QED
  BY <1>1, <1>2 DEF EndedBy

\* Which events end.
LEMMA EndedByRules ==
  ASSUME NEW w, NEW e \in EventSet
  PROVE  /\ e.lane = "production" /\ w.lane = "production" /\ w.status = "running"
              => EndedBy(w, e).status # "running"
         /\ e.lane = "production" /\ w.operation = "force_stop" => EndedBy(w, e).status # "running"
         /\ e.lane = "production" /\ w.operation # "force_stop"
              /\ (w.lane # "production" \/ w.status # "running") => EndedBy(w, e) = e
         /\ e.lane = "canary" /\ w.operation \in CancelsCanary => EndedBy(w, e).status \notin Occupied
         /\ e.lane = "canary" /\ w.lane = "canary" => EndedBy(w, e).status \notin Occupied
         /\ e.lane = "canary" /\ w.operation \notin CancelsCanary /\ w.lane # "canary"
              => EndedBy(w, e) = e
         /\ e.lane = "canary" /\ w.operation \notin CancelsCanary /\ EndedBy(w, e) # e
              => EndedBy(w, e).status = "completed" /\ EndedBy(w, e).reason = "replaced"
BY DEF EndedBy, Ending, EventSet, CancelsCanary, Occupied

Recorded(w, n, new) ==
    /\ n \in Nat \ {0} /\ n = Len(event) + 1 /\ Len(event') = n
    /\ Ids = 1..(n - 1) /\ Ids' = 1..n
    /\ event \in Seq(EventSet) /\ event' \in Seq(EventSet)
    /\ \A e \in Ids : event[e] \in EventSet /\ event'[e] = EndedBy(w, event[e])
    /\ event'[n] = new /\ new \in EventSet
    /\ new.lane = w.lane /\ new.status = w.status /\ new.version = w.version /\ new.at = w.at
    /\ new.root = IF w.lane = "canary" /\ w.root = 0 THEN n ELSE w.root

LEMMA RecordFacts ==
  ASSUME Stream, NEW w, Fresh(w), Record(w), w.lane \in Lanes, w.status \in Statuses
  PROVE  \E n, new : Recorded(w, n, new)
<1> DEFINE es == [e \in Ids |-> EndedBy(w, event[e])]
           n == Len(event) + 1
           root == IF w.lane = "canary" /\ w.root = 0 THEN n ELSE w.root
           new == [lane |-> w.lane, status |-> w.status, reason |-> w.reason,
                   version |-> w.version, at |-> w.at, root |-> root]
<1>1. event \in Seq(EventSet) /\ Len(event) \in Nat
  BY DEF Stream
<1>2. \A e \in Ids : event[e] \in EventSet
  BY <1>1 DEF Ids
<1>3. es \in Seq(EventSet) /\ Len(es) = Len(event) /\ \A e \in Ids : es[e] = EndedBy(w, event[e])
  <2>1. \A e \in Ids : EndedBy(w, event[e]) \in EventSet
    BY <1>2, EndedByCases
  <2>2. es \in [1..Len(event) -> EventSet]
    BY <2>1 DEF Ids
  <2>3. es \in Seq(EventSet) /\ Len(es) = Len(event)
    <3> HIDE DEF es
    <3> QED
      BY <1>1, <2>2
  <2> QED
    BY <2>3
<1>4. event' = Append(es, new)
  BY <1>3 DEF Record, Inserted
<1>5. new \in EventSet
  BY <1>1 DEF Fresh, EventSet
<1>6. /\ new.lane = w.lane /\ new.status = w.status /\ new.version = w.version /\ new.at = w.at
      /\ new.root = root
  OBVIOUS
<1>7. event' \in Seq(EventSet) /\ Len(event') = n /\ event'[n] = new /\ \A e \in Ids : event'[e] = es[e]
  <2> HIDE DEF es, new
  <2> QED
    BY <1>1, <1>3, <1>4, <1>5 DEF Ids
<1>8. Ids = 1..(n - 1) /\ Ids' = 1..n /\ n \in Nat \ {0}
  BY <1>1, <1>7 DEF Ids
<1>9. Recorded(w, n, new)
  <2> HIDE DEF es, new
  <2> QED
    BY <1>1, <1>2, <1>3, <1>5, <1>6, <1>7, <1>8 DEF Recorded
<1> QED
  BY <1>9

-----------------------------------------------------------------------------
(* What the pointers and the status of the line become.                     *)

LEMMA StreamFacts ==
  ASSUME Stream
  PROVE  /\ event \in Seq(EventSet) /\ Len(event) \in Nat /\ Ids = 1..Len(event) /\ InOrder(event)
         /\ \A e \in Ids : event[e] \in EventSet /\ e \in Nat \ {0}
<1>1. event \in Seq(EventSet) /\ Len(event) \in Nat /\ InOrder(event)
  BY DEF Stream
<1>2. Ids = 1..Len(event)
  BY DEF Ids
<1> QED
  BY <1>1, <1>2

LEMMA SlotsShow ==
  ASSUME Stream
  PROVE  /\ Topmost(InLane("production"), Slot(event, "production"))
         /\ Topmost(InLane("canary"), Slot(event, "canary"))
<1>1. \A lane : Topmost(InLane(lane), Slot(event, lane))
  <2> TAKE lane
  <2>1. event \in Seq(EventSet) /\ InOrder(event) /\ Ids = 1..Len(event)
    BY StreamFacts
  <2>2. Topmost({e \in 1..Len(event) : event[e].lane = lane /\ event[e].status \in Visible},
                Slot(event, lane))
    BY <2>1, SlotIsTopmost
  <2>3. InLane(lane) = {e \in 1..Len(event) : event[e].lane = lane /\ event[e].status \in Visible}
    BY <2>1 DEF InLane
  <2> QED
    BY <2>2, <2>3
<1> QED
  BY <1>1

LEMMA InLaneFacts ==
  ASSUME Stream, NEW lane
  PROVE  /\ InLane(lane) \subseteq Ids /\ InLane(lane) \subseteq Int
         /\ \A e \in InLane(lane) : event[e].lane = lane /\ event[e].status \in Visible
BY StreamFacts DEF InLane

\* An event that runs is the one its slot shows.
LEMMA RunningIsShown ==
  ASSUME Stream, Shows, NEW e \in Ids, event[e].status = "running", NEW x,
         Topmost(InLane(event[e].lane), x)
  PROVE  x = e
<1> DEFINE S == InLane(event[e].lane)
<1>1. S \subseteq Int /\ e \in S
  BY StreamFacts DEF InLane, Visible
<1>2. \A f \in S : f \in Ids /\ f <= e
  BY StreamFacts DEF Shows, InLane
<1>3. Topmost(S, e)
  BY <1>1, <1>2 DEF Topmost
<1> HIDE DEF S
<1> QED
  BY <1>1, <1>3, TopmostIsOne DEF S

\* The same of the next state.
StreamSays ==
    /\ event \in Seq(EventSet) /\ Len(event) \in Nat /\ Ids = 1..Len(event) /\ InOrder(event)
    /\ \A e \in Ids : event[e] \in EventSet /\ e \in Nat \ {0}
    /\ Topmost(InLane("production"), Slot(event, "production"))
    /\ Topmost(InLane("canary"), Slot(event, "canary"))
    /\ Shows => \A e \in Ids : event[e].status = "running" =>
                 \A lane, x : event[e].lane = lane /\ Topmost(InLane(lane), x) => x = e

LEMMA StreamSaysSo == Stream => StreamSays
BY StreamFacts, SlotsShow, RunningIsShown DEF StreamSays

LEMMA NextStreamSaysSo == Stream' => StreamSays'
<1>1. Stream => StreamSays
  BY StreamSaysSo
<1> QED
  BY <1>1, PTL

LEMMA PointedFacts ==
  ASSUME Stream', NEW operation, line' = Pointed(event', operation)
  PROVE  /\ Pointers'
         /\ line'.production = Slot(event', "production") /\ line'.canary = Slot(event', "canary")
         /\ line.status = "archived" /\ operation # "unarchive_line" => line'.status = "archived"
         /\ line.status # "archived" \/ operation = "unarchive_line" =>
              line'.status = IF \E p \in {line'.production, line'.canary} :
                                   p # 0 /\ event'[p].status = "running"
                             THEN "running" ELSE "stopped"
<1>1. Topmost(InLane("production")', Slot(event', "production"))
      /\ Topmost(InLane("canary")', Slot(event', "canary"))
  BY NextStreamSaysSo DEF StreamSays
<1> DEFINE p == Slot(event', "production")
           c == Slot(event', "canary")
           runs(e) == e # 0 /\ event'[e].status = "running"
<1>2. line' = [status |-> IF line.status = "archived" /\ operation # "unarchive_line" THEN "archived"
                          ELSE IF runs(p) \/ runs(c) THEN "running" ELSE "stopped",
               production |-> p, canary |-> c]
  BY DEF Pointed
<1>3. line'.production = p /\ line'.canary = c
  BY <1>2
<1>4. Pointers'
  BY <1>1, <1>3 DEF Pointers
<1> HIDE DEF p, c
<1> QED
  BY <1>2, <1>3, <1>4 DEF p, c

\* The line runs exactly if one of its events does.
LEMMA PointedIsLit ==
  ASSUME Stream', NEW operation, line' = Pointed(event', operation), Dark' \/ Shows',
         line.status = "archived" /\ operation # "unarchive_line" => Dark' \/ ~AnyRunning'
  PROVE  /\ Pointers' /\ Lit' /\ line'.status \in {"running", "stopped", "archived"}
         /\ line'.status = "archived" => line.status = "archived" /\ operation # "unarchive_line"
<1>1. /\ Pointers'
      /\ line.status = "archived" /\ operation # "unarchive_line" => line'.status = "archived"
      /\ line.status # "archived" \/ operation = "unarchive_line" =>
           line'.status = IF \E p \in {line'.production, line'.canary} :
                                p # 0 /\ event'[p].status = "running"
                          THEN "running" ELSE "stopped"
  BY PointedFacts
<1>2. ASSUME ~Dark', line.status # "archived" \/ operation = "unarchive_line"
      PROVE  line'.status = "running" <=> AnyRunning'
  <2>1. ASSUME NEW p \in {line'.production, line'.canary}, p # 0, event'[p].status = "running"
        PROVE  AnyRunning'
    <3>1. p \in InLane("production")' \/ p \in InLane("canary")'
      BY <1>1, <2>1 DEF Pointers, Topmost
    <3> QED
      BY <2>1, <3>1 DEF InLane, AnyRunning
  <2>2. ASSUME AnyRunning'
        PROVE  \E p \in {line'.production, line'.canary} : p # 0 /\ event'[p].status = "running"
    <3>1. PICK e \in Ids' : event'[e].status = "running"
      BY <2>2 DEF AnyRunning
    <3>2. event'[e].lane \in Lanes /\ e # 0
      <4>1. event'[e] \in EventSet /\ e \in Nat \ {0}
        BY <3>1, NextStreamSaysSo DEF StreamSays
      <4> QED
        BY <4>1 DEF EventSet
    <3>3. \A lane, x : event'[e].lane = lane /\ Topmost(InLane(lane)', x) => x = e
      BY <1>2, <3>1, NextStreamSaysSo DEF StreamSays
    <3> QED
      BY <1>1, <3>1, <3>2, <3>3 DEF Pointers, Lanes
  <2> QED
    BY <1>1, <1>2, <2>1, <2>2
<1> QED
  BY <1>1, <1>2 DEF Lit

-----------------------------------------------------------------------------
(* What a record keeps.                                                     *)

\* A record meets nothing that goes on running in its lane.
Alone(w) == \A e \in Ids : event[e].lane = w.lane => EndedBy(w, event[e]).status # "running"
Recordable(w) ==
    /\ Fresh(w) /\ w.status \in {"running", "stopped", "cancelled"}
    /\ w.lane = "canary" \/ (w.lane = "production" /\ w.status # "cancelled")
    /\ Dark \/ Alone(w)

LEMMA RecordableFacts ==
  ASSUME NEW w, Recordable(w)
  PROVE  w.lane \in Lanes /\ w.status \in Statuses /\ Fresh(w)
BY DEF Recordable, Lanes, Statuses

LEMMA RecordedStream ==
  ASSUME Stream, NEW w, Fresh(w), NEW n, NEW new, Recorded(w, n, new)
  PROVE  Stream'
<1>1. \A e \in Ids : /\ event'[e].lane = event[e].lane /\ event'[e].at = event[e].at
                     /\ event'[e].root = event[e].root
  BY EndedByCases DEF Recorded
<1>2. Ids = 1..(n - 1) /\ Ids' = 1..n /\ n \in Nat \ {0} /\ Len(event) = n - 1 /\ Len(event') = n
  BY StreamFacts DEF Recorded
<1>3. \A e \in Ids : e \in Nat /\ event[e].at \in Nat /\ event[e].at <= w.at /\ w.at \in Nat
  BY <1>2 DEF Fresh, Recorded, EventSet
<1>4. event'[n].at = w.at /\ event'[n].lane = w.lane
      /\ event'[n].root = IF w.lane = "canary" /\ w.root = 0 THEN n ELSE w.root
  BY DEF Recorded
<1>5. InOrder(event')
  <2>1. ASSUME NEW e \in 1..n, NEW f \in 1..n, e <= f PROVE event'[e].at <= event'[f].at
    <3>1. CASE f = n
      <4>1. CASE e = n
        BY <1>3, <1>4, <3>1, <4>1 DEF Fresh
      <4>2. CASE e # n
        BY <1>1, <1>2, <1>3, <1>4, <3>1, <4>2
      <4> QED
        BY <4>1, <4>2
    <3>2. CASE f # n
      <4>1. e \in Ids /\ f \in Ids
        BY <1>2, <2>1, <3>2
      <4>2. event[e].at <= event[f].at
        BY <1>2, <2>1, <4>1 DEF Stream, InOrder
      <4> QED
        BY <1>1, <4>1, <4>2
    <3> QED
      BY <3>1, <3>2
  <2> QED
    BY <1>2, <2>1 DEF InOrder
<1>6. \A e \in Ids' : RootOK(e)'
  <2>1. ASSUME NEW e \in Ids
        PROVE  event'[e].root <= e /\ (event'[e].lane = "canary" => event'[e].root # 0)
    BY <1>1 DEF Stream, RootOK
  <2>2. event'[n].root <= n /\ (event'[n].lane = "canary" => event'[n].root # 0)
    BY <1>2, <1>4 DEF Fresh
  <2>3. \A e \in Ids' : event'[e].root <= e /\ (event'[e].lane = "canary" => event'[e].root # 0)
    BY <1>2, <2>1, <2>2
  <2> QED
    BY <2>3 DEF RootOK
<1> QED
  BY <1>5, <1>6 DEF Stream, Recorded

LEMMA RecordedStatus ==
  ASSUME NEW w, NEW n, NEW new, Recorded(w, n, new), NEW e \in Ids
  PROVE  /\ event[e] \in EventSet /\ e \in Ids' /\ e < n
         /\ event'[e].lane = event[e].lane /\ event'[e].version = event[e].version
         /\ event'[e].root = event[e].root
         /\ event'[e].status = "running" => event[e].status = "running"
         /\ event'[e].status \in Visible => event[e].status \in Visible
         /\ event[e].lane = "production" =>
              (event'[e].status \in Visible <=> event[e].status \in Visible)
         /\ event'[e] = event[e] \/ event[e].status \in Occupied
         /\ event'[e].status \in Occupied => event[e].status \in Occupied
<1>1. event[e] \in EventSet /\ event'[e] = EndedBy(w, event[e])
  BY DEF Recorded
<1>2. e \in Ids' /\ e < n
  BY DEF Recorded
<1> DEFINE d == event[e]
<1> HIDE DEF d
<1>3. d \in EventSet /\ event[e] = d /\ event'[e] = EndedBy(w, d)
  BY <1>1 DEF d
<1> QED
  BY <1>2, <1>3, EndedByCases DEF Visible, Occupied

LEMMA RecordedShows ==
  ASSUME Base, NEW w, Recordable(w), NEW n, NEW new, Recorded(w, n, new), ~Dark
  PROVE  Shows'
<1>0. ASSUME \A e, f \in Ids' : event'[e].status = "running" /\ event'[f].lane = event'[e].lane
                /\ event'[f].status \in Visible => f <= e
      PROVE  Shows'
  <2>1. Shows' = \A e, f \in Ids' :
          event'[e].status = "running" /\ f \in Ids' /\ event'[f].lane = event'[e].lane
            /\ event'[f].status \in Visible => f <= e
    BY DEF Shows, InLane
  <2> QED
    BY <1>0, <2>1
<1> SUFFICES ASSUME NEW e \in Ids', NEW f \in Ids', event'[e].status = "running",
                    event'[f].lane = event'[e].lane, event'[f].status \in Visible
             PROVE  f <= e
  BY <1>0
<1>1. Ids' = Ids \cup {n} /\ n \notin Ids /\ n \in Nat /\ (\A x \in Ids : x \in Nat /\ x < n)
  BY DEF Recorded
<1>2. CASE e = n
  <2>1. f = n \/ (f \in Nat /\ f < n)
    BY <1>1
  <2> QED
    BY <1>1, <1>2, <2>1
<1>3. CASE e # n
  <2>1. e \in Ids /\ event[e].status = "running" /\ event'[e].lane = event[e].lane
    BY <1>1, <1>3, RecordedStatus
  <2>2. f # n
    <3> SUFFICES ASSUME f = n PROVE FALSE
      OBVIOUS
    <3>1. event'[f].lane = w.lane
      BY DEF Recorded
    <3>2. EndedBy(w, event[e]).status # "running"
      BY <2>1, <3>1 DEF Recordable, Alone
    <3> QED
      BY <2>1, <3>2 DEF Recorded
  <2>3. f \in Ids /\ event[f].status \in Visible /\ event[f].lane = event[e].lane
    BY <1>1, <2>1, <2>2, RecordedStatus
  <2> QED
    BY <2>1, <2>3 DEF Base, Shows, InLane
<1> QED
  BY <1>2, <1>3

LEMMA RecordWrites ==
  ASSUME NEW w, Record(w)
  PROVE  /\ line' = Pointed(event', w.operation)
         /\ Dark => Dark'
         /\ line.status = "archived" /\ w.status = "running" => Dark'
         /\ Dark' => Dark \/ (line.status = "archived" /\ w.status = "running")
         /\ online' = online
BY DEF Record, Dark

LEMMA RecordedRuns ==
  ASSUME NEW w, NEW n, NEW new, Recorded(w, n, new), ~AnyRunning, w.status # "running"
  PROVE  ~AnyRunning'
<1>1. \A e \in Ids' : e \in Ids \/ e = n
  BY DEF Recorded
<1>2. \A e \in Ids : event'[e].status # "running"
  BY RecordedStatus DEF AnyRunning
<1>3. event'[n].status # "running"
  BY DEF Recorded
<1> QED
  BY <1>1, <1>2, <1>3 DEF AnyRunning

\* A candidate cancelled on an archived line leaves its slots as they are.
LEMMA RecordedShelf ==
  ASSUME Stream, Stream', Pointers, Pointers', Shelved, NEW w, NEW n, NEW new, Recorded(w, n, new),
         w.lane = "canary", w.status = "cancelled"
  PROVE  Shelved'
<1>1. Ids' = Ids \cup {n} /\ n \notin Ids
  BY DEF Recorded
<1>2. event'[n].status \notin Visible
  BY DEF Recorded, Visible
<1>3. ~AnyRunning'
  BY RecordedRuns DEF Shelved
<1>4. \A e \in Ids : event[e].status = "archived" => event'[e] = event[e]
  BY RecordedStatus DEF Occupied
<1>5. ASSUME NEW lane, NEW x, Topmost(InLane(lane), x), x # 0 => event[x].status = "archived",
             NEW y, Topmost(InLane(lane)', y)
      PROVE  x = y /\ (y # 0 => event'[y].status = "archived")
  <2> DEFINE S == InLane(lane)
             T == InLane(lane)'
  <2>1. S \subseteq Ids /\ S \subseteq Int /\ T \subseteq Int
    BY StreamFacts, NextStreamSaysSo DEF InLane, StreamSays
  <2>2. T \subseteq S
    BY <1>1, <1>2, RecordedStatus DEF InLane
  <2>3. x # 0 => x \in S /\ x \in T
    BY <1>1, <1>4, <1>5 DEF InLane, Topmost
  <2>4. Topmost(T, x)
    <3> HIDE DEF S, T
    <3>1. CASE x = 0
      <4>1. 0 \notin S
        BY <2>1, StreamFacts
      <4>2. S = {}
        BY <1>5, <3>1, <4>1 DEF Topmost, S
      <4> QED
        BY <2>2, <3>1, <4>2 DEF Topmost
    <3>2. CASE x # 0
      BY <1>5, <2>2, <2>3, <3>2 DEF Topmost, S
    <3> QED
      BY <3>1, <3>2
  <2>5. x = y
    <3> HIDE DEF S, T
    <3> QED
      BY <1>5, <2>1, <2>4, TopmostIsOne DEF T
  <2> QED
    BY <1>4, <1>5, <2>1, <2>3, <2>5
<1>6. line'.production = line.production
      /\ (line'.production # 0 => event'[line'.production].status = "archived")
  BY <1>5 DEF Pointers, Shelved
<1>7. line'.canary = line.canary /\ (line'.canary # 0 => event'[line'.canary].status = "archived")
  BY <1>5 DEF Pointers, Shelved
<1> QED
  BY <1>3, <1>6, <1>7 DEF Shelved

LEMMA RecordBase ==
  ASSUME Base, Pointers, NEW w, Recordable(w), Record(w)
  PROVE  /\ Base' /\ Pointers' /\ Lit' /\ (Dark => Dark') /\ online' = online
         /\ Open => Open'
         /\ \E n, new : Recorded(w, n, new)
<1>1. PICK n, new : Recorded(w, n, new)
  BY RecordFacts, RecordableFacts DEF Base
<1>2. Stream'
  BY <1>1, RecordedStream, RecordableFacts DEF Base
<1>3. Dark' \/ Shows'
  BY <1>1, RecordedShows, RecordWrites
<1>4. line.status = "archived" /\ w.operation # "unarchive_line" => Dark' \/ ~AnyRunning'
  BY <1>1, RecordedRuns, RecordWrites DEF Base, Open, Shelved
<1>5. /\ Pointers' /\ Lit' /\ line'.status \in {"running", "stopped", "archived"}
      /\ line'.status = "archived" => line.status = "archived" /\ w.operation # "unarchive_line"
  BY <1>2, <1>3, <1>4, PointedIsLit, RecordWrites
<1>6. Open => Open'
  BY <1>5, RecordWrites DEF Open
<1>7. ~Open' => Shelved'
  <2> SUFFICES ASSUME ~Open' PROVE Shelved'
    OBVIOUS
  <2>1. ~Dark' /\ line'.status = "archived"
    BY DEF Open
  <2>2. ~Open /\ w.operation # "unarchive_line" /\ w.status # "running"
    BY <1>5, <2>1, RecordWrites DEF Open
  <2>3. w.status = "cancelled" /\ w.lane = "canary"
    BY <2>2 DEF Recordable, Fresh
  <2> QED
    BY <1>1, <1>2, <1>5, <2>2, <2>3, RecordedShelf DEF Base
<1>8. event' # <<>>
  <2>1. Len(event') = n /\ n \in Nat \ {0}
    BY <1>1 DEF Recorded
  <2>2. Len(<<>>) = 0
    OBVIOUS
  <2> QED
    BY <2>1, <2>2
<1>9. Base'
  BY <1>2, <1>3, <1>5, <1>7, <1>8 DEF Base
<1> QED
  BY <1>1, <1>5, <1>6, <1>9, RecordWrites

-----------------------------------------------------------------------------
(* What a record makes of the production that runs and of the candidates.   *)

LEMMA RecordedAt ==
  ASSUME NEW w, NEW n, NEW new, Recorded(w, n, new)
  PROVE  /\ Ids' = Ids \cup {n} /\ n \notin Ids /\ n \in Nat \ {0}
         /\ event'[n].lane = w.lane /\ event'[n].status = w.status /\ event'[n].version = w.version
         /\ event'[n].at = w.at
         /\ event'[n].root = IF w.lane = "canary" /\ w.root = 0 THEN n ELSE w.root
         /\ Len(event') = n /\ n = Len(event) + 1 /\ \A e \in Ids : e < n
BY DEF Recorded

\* A new production is the one that runs.
LEMMA ProductionRuns ==
  ASSUME NEW w, NEW n, NEW new, Recorded(w, n, new), w.lane = "production", w.status = "running"
  PROVE  Running("production")' = {n}
<1>1. \A e \in Ids : event[e].lane = "production" => event'[e].status # "running"
  BY EndedByRules DEF Recorded
<1>2. \A e \in Ids : event'[e].lane = event[e].lane
  BY RecordedStatus
<1> QED
  BY <1>1, <1>2, RecordedAt DEF Running, In

\* After a force stop none does.
LEMMA ProductionStops ==
  ASSUME NEW w, NEW n, NEW new, Recorded(w, n, new), w.operation = "force_stop", w.status # "running"
  PROVE  Running("production")' = {}
<1>1. \A e \in Ids : event[e].lane = "production" => event'[e].status # "running"
  BY EndedByRules DEF Recorded
<1>2. \A e \in Ids : event'[e].lane = event[e].lane
  BY RecordedStatus
<1> QED
  BY <1>1, <1>2, RecordedAt DEF Running, In

\* Any other record leaves the production as it is.
LEMMA ProductionStays ==
  ASSUME NEW w, NEW n, NEW new, Recorded(w, n, new), w.operation # "force_stop",
         w.lane # "production" \/ w.status # "running"
  PROVE  /\ Running("production")' = Running("production")
         /\ \A e \in Running("production") : event'[e] = event[e]
         /\ \A v : RightVersion(v) => RightVersion(v)'
<1>1. \A e \in Ids : event[e].lane = "production" => event'[e] = event[e]
  BY EndedByRules DEF Recorded
<1>2. \A e \in Ids : event'[e].lane = event[e].lane
  BY RecordedStatus
<1>3. Running("production")' = Running("production")
  BY <1>1, <1>2, RecordedAt DEF Running, In
<1>4. \A e \in Running("production") : event'[e] = event[e]
  BY <1>1 DEF Running, In
<1> QED
  BY <1>3, <1>4 DEF RightVersion

\* The candidates that occupy the slot afterwards.
LEMMA CandidatesAfter ==
  ASSUME NEW w, NEW n, NEW new, Recorded(w, n, new)
  PROVE  /\ w.lane = "canary" => Active' \subseteq {n}
         /\ w.lane = "canary" /\ w.status = "cancelled" => Active' = {}
         /\ w.lane # "canary" => Active' \subseteq Active
         /\ w.lane # "canary" /\ w.operation \in CancelsCanary => Active' = {}
<1>1. \A e \in Ids : event[e].lane = "canary" /\ (w.lane = "canary" \/ w.operation \in CancelsCanary)
                       => event'[e].status \notin Occupied
  BY EndedByRules DEF Recorded
<1>2. \A e \in Ids : /\ event'[e].lane = event[e].lane
                     /\ event'[e].status \in Occupied => event[e].status \in Occupied
  BY RecordedStatus
<1>3. Active = In("canary", Occupied) /\ Active' = In("canary", Occupied)'
  BY DEF Active, Occupied
<1> QED
  BY <1>1, <1>2, <1>3, RecordedAt DEF In, Occupied

\* A candidate goes on through a record that does not promote or cancel it.
LEMMA StillContinues ==
  ASSUME NEW w, NEW n, NEW new, Recorded(w, n, new), w.operation \notin CancelsCanary,
         NEW r \in Ids, Continues(r),
         w.lane = "production" => w.root # r \/ Promoted(r),
         w.lane = "canary" => w.status \in Occupied
  PROVE  Continues(r)'
<1>0. \A e \in Ids : /\ e \in Ids' /\ event'[e].lane = event[e].lane /\ event'[e].root = event[e].root
                     /\ event'[e] = event[e] \/ event[e].status \in Occupied
  BY RecordedStatus
<1>1. CASE \E e \in Of(r) : event[e].status = "archived"
  <2> PICK e \in Of(r) : event[e].status = "archived"
    BY <1>1
  <2>1. e \in Of(r)' /\ event'[e].status = "archived"
    BY <1>0 DEF Of, Occupied
  <2> QED
    BY <2>1 DEF Continues
<1>2. CASE ~Ended(r)
  <2>1. ASSUME Promoted(r)' PROVE FALSE
    <3> PICK e \in Ids' : event'[e].root = r /\ event'[e].lane = "production"
      BY <2>1 DEF Promoted
    <3>1. CASE e \in Ids
      BY <1>0, <1>2, <3>1 DEF Ended, Promoted
    <3>2. CASE e = n
      BY <1>2, <3>2, RecordedAt DEF Ended
    <3> QED
      BY <3>1, <3>2, RecordedAt
  <2>2. ASSUME NEW e \in Of(r)', event'[e].status \in {"completed", "cancelled"},
               event'[e].reason # "replaced"
        PROVE  FALSE
    <3>1. e \in Ids' /\ event'[e].root = r /\ event'[e].lane = "canary"
      BY DEF Of
    <3>2. CASE e \in Ids
      <4>1. event'[e] = event[e]
        BY <1>0, <2>2, <3>1, <3>2, EndedByRules DEF Recorded
      <4> QED
        BY <1>2, <2>2, <3>1, <3>2, <4>1 DEF Ended, Of
    <3>3. CASE e = n
      BY <2>2, <3>1, <3>3, RecordedAt DEF Occupied
    <3> QED
      BY <3>1, <3>2, <3>3, RecordedAt
  <2> QED
    BY <2>1, <2>2 DEF Continues, Ended
<1> QED
  BY <1>1, <1>2 DEF Continues

\* A new candidate has not ended.
LEMMA FirstContinues ==
  ASSUME Stream, NEW w, NEW n, NEW new, Recorded(w, n, new), w.lane = "canary", w.root = 0,
         w.status \in Occupied
  PROVE  Continues(n)'
<1>1. \A e \in Ids : event'[e].root = event[e].root /\ event[e].root <= e /\ e < n
                     /\ event[e].root \in Nat /\ n \in Nat /\ e \in Nat
  BY RecordedStatus, StreamFacts, RecordedAt DEF Stream, RootOK, EventSet
<1>2. \A e \in Ids : event'[e].root # n
  BY <1>1
<1>3. Of(n)' \subseteq {n} /\ ~Promoted(n)'
  BY <1>2, RecordedAt DEF Of, Promoted
<1>4. ~Ended(n)'
  BY <1>3, RecordedAt DEF Ended, Occupied
<1> QED
  BY <1>4 DEF Continues

-----------------------------------------------------------------------------
(* What the other writes keep.                                              *)

\* The candidate is completed by its id; nothing occupies the slot any more.
LEMMA CompletedFacts ==
  ASSUME Base, NEW w, Ends(w), NEW reason \in Reasons,
         event' = [event EXCEPT ![w.id] = Ending(@, "completed", reason)], Dark' <=> Dark
  PROVE  /\ Stream' /\ (Dark' \/ Shows') /\ (AnyRunning' => AnyRunning)
         /\ Active' = {} /\ (\A v : RightVersion(v) => RightVersion(v)')
         /\ event' # <<>> /\ Ids' = Ids
<1>1. event \in Seq(EventSet) /\ Len(event) \in Nat /\ Ids = 1..Len(event) /\ w.id \in Ids
      /\ event[w.id] \in EventSet
  BY StreamFacts DEF Base, Ends
<1> DEFINE new == Ending(event[w.id], "completed", reason)
<1>2. /\ new \in EventSet /\ new.status = "completed" /\ new.lane = event[w.id].lane
      /\ new.version = event[w.id].version /\ new.at = event[w.id].at /\ new.root = event[w.id].root
  BY <1>1 DEF Ending, EventSet, Statuses
<1>3. event' = [event EXCEPT ![w.id] = new]
  OBVIOUS
<1> HIDE DEF new
<1>4. event' \in Seq(EventSet) /\ Len(event') = Len(event)
      /\ \A e \in Ids : event'[e] = IF e = w.id THEN new ELSE event[e]
  BY <1>1, <1>2, <1>3
<1>5. Ids' = Ids
  BY <1>1, <1>4 DEF Ids
<1>6. \A e \in Ids : /\ event'[e].lane = event[e].lane /\ event'[e].version = event[e].version
                     /\ event'[e].at = event[e].at /\ event'[e].root = event[e].root
                     /\ IF e = w.id THEN event'[e].status = "completed" ELSE event'[e] = event[e]
  BY <1>2, <1>4
<1>7. Stream'
  <2>1. InOrder(event')
    BY <1>1, <1>4, <1>6 DEF InOrder, Base, Stream
  <2>2. \A e \in Ids' : RootOK(e)'
    BY <1>5, <1>6 DEF Base, Stream, RootOK
  <2> QED
    BY <1>4, <2>1, <2>2 DEF Stream
<1>8. Dark' \/ Shows'
  <2> SUFFICES ASSUME ~Dark PROVE Shows'
    OBVIOUS
  <2>1. \A e, f \in Ids : event[e].status = "running" /\ event[f].lane = event[e].lane
                            /\ event[f].status \in Visible => f <= e
    BY DEF Base, Shows, InLane
  <2>2. \A e, f \in Ids : event'[e].status = "running" /\ event'[f].lane = event'[e].lane
                            /\ event'[f].status \in Visible => f <= e
    BY <1>6, <2>1 DEF Visible
  <2>3. Shows' = \A e, f \in Ids' :
          event'[e].status = "running" /\ f \in Ids' /\ event'[f].lane = event'[e].lane
            /\ event'[f].status \in Visible => f <= e
    BY DEF Shows, InLane
  <2> QED
    BY <1>5, <2>2, <2>3
<1>9. AnyRunning' => AnyRunning
  BY <1>5, <1>6 DEF AnyRunning
<1>10. Active' = {}
  BY <1>5, <1>6 DEF Active, In, Ends
<1>11. Running("production")' = Running("production")
       /\ \A e \in Running("production") : event'[e] = event[e]
  BY <1>5, <1>6 DEF Running, In, Ends
<1>12. \A v : RightVersion(v) => RightVersion(v)'
  BY <1>11 DEF RightVersion
<1>13. event' # <<>>
  <2>1. Len(event') # 0
    BY <1>1, <1>4
  <2> QED
    BY <2>1
<1> QED
  BY <1>5, <1>7, <1>8, <1>9, <1>10, <1>12, <1>13

LEMMA CompleteSettles ==
  ASSUME Base, RightVersion(online), NEW w, Completes(w), Complete(w)
  PROVE  Base' /\ Pointers' /\ Lit' /\ RightVersion(online)' /\ Continuing'
<1>1. /\ event' = [event EXCEPT ![w.id] = Ending(@, "completed", "promoted")]
      /\ line' = Pointed(event', "none") /\ online' = online /\ (Dark' <=> Dark)
  BY DEF Complete, Dark
<1>2. Ends(w) /\ "promoted" \in Reasons
  BY DEF Completes, Reasons
<1>3. /\ Stream' /\ (Dark' \/ Shows') /\ (AnyRunning' => AnyRunning)
      /\ Active' = {} /\ (\A v : RightVersion(v) => RightVersion(v)') /\ event' # <<>>
  BY <1>1, <1>2, CompletedFacts
<1>4. Open
  BY <1>2 DEF Ends
<1>5. /\ Pointers' /\ Lit' /\ line'.status \in {"running", "stopped", "archived"}
      /\ line'.status = "archived" => line.status = "archived"
  BY <1>1, <1>3, <1>4, PointedIsLit DEF Open
<1>6. Base'
  BY <1>1, <1>3, <1>4, <1>5 DEF Base, Open
<1>7. RightVersion(online)'
  <2>1. RightVersion(online) => RightVersion(online)'
    BY <1>1, <1>3 DEF RightVersion
  <2> QED
    BY <2>1
<1> QED
  BY <1>3, <1>5, <1>6, <1>7 DEF Continuing

LEMMA TransitionKeeps ==
  ASSUME Base, RightVersion(online), NEW w, Transits(w), Transition(w)
  PROVE  /\ Base' /\ RightVersion(online)' /\ Continuing'
         /\ line'.status # "archived" /\ event' # <<>>
<1>1. /\ event' = [event EXCEPT ![w.id] = Ending(@, "completed", "none")]
      /\ line' = line /\ online' = online /\ (Dark' <=> Dark)
  BY DEF Transition, Dark
<1>2. Ends(w) /\ "none" \in Reasons /\ line.status # "archived"
  BY DEF Transits, Reasons
<1>3. /\ Stream' /\ (Dark' \/ Shows') /\ Active' = {} /\ event' # <<>>
      /\ (\A v : RightVersion(v) => RightVersion(v)')
  BY <1>1, <1>2, CompletedFacts
<1>4. Base'
  BY <1>1, <1>2, <1>3 DEF Base, Open
<1>5. RightVersion(online)'
  <2>1. RightVersion(online) => RightVersion(online)'
    BY <1>1, <1>3 DEF RightVersion
  <2> QED
    BY <2>1
<1> QED
  BY <1>1, <1>2, <1>3, <1>4, <1>5 DEF Continuing

\* A step that leaves the stream alone.
LEMMA StreamAlone ==
  ASSUME event' = event, Dark' <=> Dark
  PROVE  /\ Stream => Stream'
         /\ Shows => Shows'
         /\ AnyRunning' <=> AnyRunning
         /\ Continuing => Continuing'
         /\ \A v : RightVersion(v) => RightVersion(v)'
         /\ \A lane : InLane(lane)' = InLane(lane)
         /\ Ids' = Ids /\ Running("production")' = Running("production")
         /\ \A r : (Promoted(r) => Promoted(r)') /\ (Continues(r) => Continues(r)')
<1>1. Ids' = Ids
  BY DEF Ids
<1>2. Stream => Stream'
  BY <1>1 DEF Stream, RootOK
<1>3. AnyRunning' <=> AnyRunning
  BY <1>1 DEF AnyRunning
<1>4. \A lane : InLane(lane)' = InLane(lane)
  BY <1>1 DEF InLane
<1>5. Shows => Shows'
  BY <1>1 DEF Shows, InLane
<1>6. Running("production")' = Running("production") /\ Active' = Active
  BY <1>1 DEF Running, Active, In
<1>7. \A v : RightVersion(v) => RightVersion(v)'
  BY <1>6 DEF RightVersion
<1>8. \A r : (Promoted(r) <=> Promoted(r)') /\ Of(r)' = Of(r)
  BY <1>1 DEF Promoted, Of
<1>9. \A r : Continues(r) => Continues(r)'
  BY <1>8 DEF Continues, Ended
<1>10. Continuing => Continuing'
  BY <1>6, <1>9 DEF Continuing
<1> QED
  BY <1>1, <1>2, <1>3, <1>4, <1>5, <1>6, <1>7, <1>8, <1>9, <1>10

LEMMA RefreshSettles ==
  ASSUME Base, RightVersion(online), Continuing, NEW w, Refreshes(w), Refresh(w)
  PROVE  Base' /\ Pointers' /\ Lit' /\ RightVersion(online)' /\ Continuing'
<1>1. /\ event' = event /\ line' = Pointed(event', "none") /\ online' = online /\ (Dark' <=> Dark)
  BY DEF Refresh, Dark
<1>2. Stream' /\ (Dark' \/ Shows') /\ Continuing' /\ \A v : RightVersion(v) => RightVersion(v)'
  BY <1>1, StreamAlone DEF Base
<1>3. line.status # "archived" /\ event' # <<>>
  BY <1>1 DEF Refreshes
<1>4. /\ Pointers' /\ Lit' /\ line'.status \in {"running", "stopped", "archived"}
      /\ line'.status = "archived" => line.status = "archived"
  BY <1>1, <1>2, <1>3, PointedIsLit
<1>5. Base'
  BY <1>2, <1>3, <1>4 DEF Base, Open
<1>6. RightVersion(online)'
  BY <1>1, <1>2 DEF RightVersion
<1> QED
  BY <1>2, <1>4, <1>5, <1>6

LEMMA StateAlone ==
  ASSUME event' = event, line' = line, Dark' <=> Dark
  PROVE  /\ Base => Base'
         /\ Pointers => Pointers'
         /\ Lit => Lit'
         /\ Open => Open'
<1>1. Ids' = Ids
  BY DEF Ids
<1>2. Shelved => Shelved'
  BY StreamAlone DEF Shelved
<1>3. Base => Base'
  BY <1>2, StreamAlone DEF Base, Open
<1>4. Pointers => Pointers'
  BY StreamAlone DEF Pointers
<1>5. Lit => Lit'
  BY StreamAlone DEF Lit
<1> QED
  BY <1>3, <1>4, <1>5 DEF Open

LEMMA SetOnlineSettles ==
  ASSUME Base, Pointers, Lit, Continuing, NEW w, Onlines(w), SetOnline(w)
  PROVE  Base' /\ Pointers' /\ Lit' /\ RightVersion(online)' /\ Continuing'
<1>1. event' = event /\ line' = line /\ online' = w.version /\ (Dark' <=> Dark)
  BY DEF SetOnline, Dark
<1>2. RightVersion(online)'
  <2>1. RightVersion(w.version) /\ Running("production")' = Running("production")
    BY <1>1, StreamAlone DEF Onlines
  <2> QED
    BY <1>1, <2>1 DEF RightVersion
<1> QED
  BY <1>1, <1>2, StreamAlone, StateAlone

-----------------------------------------------------------------------------
(* A line is archived with what it shows.                                   *)

Appended(w, n, k) ==
    /\ n \in Nat /\ n = Len(event) /\ k \in Nat \ {0} /\ k = Len(w.events) /\ DOMAIN w.events = 1..k
    /\ Ids = 1..n /\ Ids' = 1..(n + k) /\ Len(event') = n + k
    /\ event \in Seq(EventSet) /\ event' \in Seq(EventSet)
    /\ \A e \in Ids : event[e] \in EventSet /\ event'[e] = event[e]
    /\ \A i \in 1..k : w.events[i] \in EventSet /\ event'[n + i] = w.events[i]

LEMMA AppendedFacts ==
  ASSUME Stream, NEW w, Archives(w), Archive(w)
  PROVE  \E n, k : Appended(w, n, k)
<1> DEFINE t == w.events
           n == Len(event)
           k == Len(t)
<1>1. event \in Seq(EventSet) /\ t \in Seq(EventSet) /\ t # <<>> /\ event' = event \o t
  BY StreamFacts DEF Archives, Archive
<1> HIDE DEF t
<1>2. k \in Nat \ {0} /\ n \in Nat /\ DOMAIN t = 1..k
  BY <1>1
<1>3. event' \in Seq(EventSet) /\ Len(event') = n + k
      /\ \A i \in 1..(n + k) : event'[i] = IF i <= n THEN event[i] ELSE t[i - n]
  BY <1>1, ConcatProperties
<1>4. \A e \in 1..n : event'[e] = event[e]
  BY <1>2, <1>3
<1>5. \A i \in 1..k : event'[n + i] = t[i]
  <2> TAKE i \in 1..k
  <2>1. n + i \in 1..(n + k) /\ ~(n + i <= n) /\ (n + i) - n = i
    BY <1>2
  <2>2. event'[n + i] = t[(n + i) - n]
    BY <1>3, <2>1
  <2> QED
    BY <2>1, <2>2
<1>6. (\A e \in 1..n : event[e] \in EventSet) /\ (\A i \in 1..k : t[i] \in EventSet)
  BY <1>1, <1>2
<1>7. Ids = 1..n /\ Ids' = 1..(n + k)
  BY <1>3 DEF Ids
<1> QED
  BY <1>1, <1>2, <1>3, <1>4, <1>5, <1>6, <1>7 DEF Appended, t

LEMMA AppendedIds ==
  ASSUME NEW w, NEW n, NEW k, Appended(w, n, k)
  PROVE  /\ Ids \subseteq Ids'
         /\ \A e \in Ids : event'[e] = event[e] /\ e \in 1..n
         /\ \A i \in 1..k : n + i \in Ids' /\ n + i \notin Ids
         /\ \A e \in Ids' : e \in Ids \/ \E i \in 1..k : e = n + i
<1>1. \A e \in 1..(n + k) : e \in 1..n \/ \E i \in 1..k : e = n + i
  <2> TAKE e \in 1..(n + k)
  <2>1. e \in 1..n \/ (e - n \in 1..k /\ e = n + (e - n))
    BY DEF Appended
  <2> QED
    BY <2>1
<1> QED
  BY <1>1 DEF Appended

LEMMA AppendedStream ==
  ASSUME Stream, NEW w, Archives(w), NEW n, NEW k, Appended(w, n, k)
  PROVE  Stream'
<1>1. \A e \in Ids : event[e].at \in Nat /\ event'[e] = event[e] /\ e \in 1..n
  BY DEF Appended, EventSet
<1>2. \A i \in 1..k : /\ Copy(w.events[i]) /\ w.events[i].at \in Nat
                      /\ event'[n + i] = w.events[i]
  BY DEF Appended, Archives, EventSet
<1>3. InOrder(event')
  <2>1. ASSUME NEW e \in Ids', NEW f \in Ids', e <= f PROVE event'[e].at <= event'[f].at
    <3>1. CASE f \in Ids
      <4>1. e \in Ids
        BY <2>1, <3>1 DEF Appended
      <4> QED
        BY <1>1, <2>1, <3>1, <4>1 DEF Stream, InOrder, Ids
    <3>2. CASE f \notin Ids
      <4> PICK j \in 1..k : f = n + j
        BY <3>2, AppendedIds
      <4>1. CASE e \in Ids
        BY <1>1, <1>2, <4>1 DEF Copy
      <4>2. CASE e \notin Ids
        <5> PICK i \in 1..k : e = n + i
          BY <4>2, AppendedIds
        <5>1. w.events[i].at = w.events[j].at
          BY DEF Archives, Appended
        <5> QED
          BY <1>2, <5>1
      <4> QED
        BY <4>1, <4>2
    <3> QED
      BY <3>1, <3>2
  <2> QED
    BY <2>1 DEF InOrder, Appended
<1>4. \A e \in Ids' : event'[e].root <= e /\ (event'[e].lane = "canary" => event'[e].root # 0)
  <2> TAKE e \in Ids'
  <2>1. CASE e \in Ids
    BY <1>1, <2>1 DEF Stream, RootOK
  <2>2. CASE e \notin Ids
    <3> PICK i \in 1..k : e = n + i
      BY <2>2, AppendedIds
    <3>1. w.events[i].root <= n /\ w.events[i].root \in Nat /\ n \in Nat
      BY <1>2 DEF Copy, Appended, EventSet
    <3> QED
      BY <1>2, <3>1 DEF Copy
  <2> QED
    BY <2>1, <2>2
<1> QED
  BY <1>3, <1>4 DEF Stream, RootOK, Appended

\* The pointers go to the copies, or stay where nothing was copied.
LEMMA AppendedPointer ==
  ASSUME Stream, NEW w, Archives(w), NEW n, NEW k, Appended(w, n, k), NEW lane, NEW p,
         Topmost(InLane(lane), p)
  PROVE  /\ Topmost(InLane(lane)', Max(Copies(w, lane) \cup {p}))
         /\ Max(Copies(w, lane) \cup {p}) \in Copies(w, lane)
            \/ (Copies(w, lane) = {} /\ Max(Copies(w, lane) \cup {p}) = p)
<1> DEFINE C == Copies(w, lane)
           T == C \cup {p}
           m == Max(T)
           S == InLane(lane)
           S2 == InLane(lane)'
<1>1. C = {n + i : i \in {i \in 1..k : w.events[i].lane = lane}}
  BY DEF Copies, Appended
<1>2. \A x \in C : x \in Int /\ x > n /\ x <= n + k
  BY <1>1 DEF Appended
<1>3. S \subseteq 1..n
  BY DEF InLane, Appended
<1>4. S2 = S \cup C
  <2>1. \A i \in 1..k : event'[n + i] = w.events[i] /\ w.events[i].status \in Visible /\ n + i \in Ids'
    <3> TAKE i \in 1..k
    <3>1. w.events[i].status = "archived"
      BY DEF Archives, Copy, Appended
    <3>2. n + i \in Ids' /\ event'[n + i] = w.events[i]
      BY AppendedIds DEF Appended
    <3> QED
      BY <3>1, <3>2 DEF Visible
  <2>2. \A e \in S2 : e \in S \cup C
    <3> TAKE e \in S2
    <3>1. e \in Ids' /\ event'[e].lane = lane /\ event'[e].status \in Visible
      BY DEF InLane
    <3>2. CASE e \in Ids
      BY <3>1, <3>2, AppendedIds DEF InLane
    <3>3. CASE e \notin Ids
      <4> PICK i \in 1..k : e = n + i
        BY <3>1, <3>3, AppendedIds
      <4> QED
        BY <1>1, <2>1, <3>1
    <3> QED
      BY <3>2, <3>3
  <2>3. \A e \in S : e \in S2
    BY AppendedIds DEF InLane
  <2>4. \A e \in C : e \in S2
    BY <1>1, <2>1 DEF InLane
  <2> QED
    BY <2>2, <2>3, <2>4
<1>5. n \in Nat /\ k \in Nat
  BY DEF Appended
<1> HIDE DEF C, S, S2
<1>6. p \in 0..n /\ (p = 0 => S = {}) /\ (p # 0 => p \in S) /\ \A f \in S : f <= p
  BY <1>3, <1>5 DEF Topmost, S
<1>7. m \in T /\ \A x \in T : x <= m
  <2>1. T \subseteq 0..(n + k) /\ T # {} /\ n + k \in Nat
    BY <1>2, <1>5, <1>6
  <2>2. PICK h \in T : \A x \in T : x <= h
    <3> HIDE DEF T
    <3> QED
      BY <2>1, HighestFound
  <2>3. \A x \in T : h >= x
    BY <2>1, <2>2
  <2>4. m \in T /\ \A y \in T : m >= y
    <3> HIDE DEF T
    <3> QED
      BY <2>3 DEF Max
  <2> QED
    BY <2>1, <2>4
<1> HIDE DEF m
<1>8. m \in C \/ (C = {} /\ m = p)
  <2>1. CASE C = {}
    BY <1>7, <2>1
  <2>2. CASE C # {}
    <3> PICK c \in C : TRUE
      BY <2>2
    <3>1. c <= m /\ c > n /\ c \in Int
      BY <1>2, <1>7
    <3>2. m # p
      BY <1>5, <1>6, <3>1
    <3> QED
      BY <1>7, <3>2
  <2> QED
    BY <2>1, <2>2
<1>9. Topmost(S2, m)
  <2>1. CASE C = {}
    BY <1>4, <1>6, <1>8, <2>1 DEF Topmost
  <2>2. CASE C # {}
    <3>1. m \in C /\ m > n /\ m \in Int
      BY <1>2, <1>8, <2>2
    <3>2. \A f \in S2 : f <= m
      BY <1>3, <1>4, <1>5, <1>7, <3>1
    <3> QED
      BY <1>4, <3>1, <3>2 DEF Topmost
  <2> QED
    BY <2>1, <2>2
<1> QED
  BY <1>8, <1>9 DEF C, S2, m

LEMMA CopiesAre ==
  ASSUME NEW w, Archives(w), NEW n, NEW k, Appended(w, n, k)
  PROVE  /\ \A e \in Ids' : e \in Ids \/
              (event'[e].status = "archived"
                 /\ (event'[e].lane = "production" => Known(event'[e].root)))
         /\ \A lane : \A e \in Copies(w, lane) :
              /\ e \in Ids' /\ e # 0 /\ event'[e].status = "archived" /\ event'[e].lane = lane
         /\ \A i \in 1..k : n + i \in Copies(w, w.events[i].lane)
<1>1. \A i \in 1..k : /\ event'[n + i] = w.events[i] /\ w.events[i].status = "archived"
                      /\ w.events[i].lane = "production" => Known(w.events[i].root)
                      /\ n + i \in Ids' /\ n + i # 0
  <2> TAKE i \in 1..k
  <2>1. Copy(w.events[i])
    BY DEF Archives, Appended
  <2>2. event'[n + i] = w.events[i]
    BY DEF Appended
  <2>3. n \in Nat /\ k \in Nat
    BY DEF Appended
  <2>4. n + i # 0
    BY <2>3
  <2>5. n + i \in Ids'
    BY AppendedIds
  <2> QED
    BY <2>1, <2>2, <2>4, <2>5 DEF Copy
<1>2. \A lane : Copies(w, lane) = {n + i : i \in {i \in 1..k : w.events[i].lane = lane}}
  BY DEF Copies, Appended
<1> QED
  BY <1>1, <1>2, AppendedIds

\* Nobody's promotion or end changes by the copies.
LEMMA CopiesContinue ==
  ASSUME NEW w, Archives(w), NEW n, NEW k, Appended(w, n, k), NEW r, r # 0, Continues(r)
  PROVE  Continues(r)'
<1>1. \A e \in Of(r) : e \in Of(r)' /\ event'[e] = event[e]
  BY AppendedIds DEF Of
<1>2. CASE \E e \in Of(r) : event[e].status = "archived"
  BY <1>1, <1>2 DEF Continues
<1>3. CASE ~Ended(r)
  <2>1. ~Promoted(r)'
    <3> SUFFICES ASSUME NEW e \in Ids', event'[e].root = r, event'[e].lane = "production"
                 PROVE  FALSE
      BY DEF Promoted
    <3>1. CASE e \in Ids
      BY <1>3, <3>1, AppendedIds DEF Ended, Promoted
    <3>2. CASE e \notin Ids
      <4>1. Known(r)
        BY <3>2, CopiesAre
      <4> QED
        BY <1>3, <4>1 DEF Known, Ended
    <3> QED
      BY <3>1, <3>2
  <2>2. \A e \in Of(r)' : event'[e].status \in {"completed", "cancelled"}
                            => e \in Of(r) /\ event'[e] = event[e]
    <3> TAKE e \in Of(r)'
    <3>1. CASE e \in Ids
      BY <3>1, AppendedIds DEF Of
    <3>2. CASE e \notin Ids
      BY <3>2, CopiesAre DEF Of
    <3> QED
      BY <3>1, <3>2
  <2> QED
    BY <1>3, <2>1, <2>2 DEF Continues, Ended
<1> QED
  BY <1>2, <1>3 DEF Continues

LEMMA ArchivedPointer ==
  ASSUME Stream, NEW w, Archives(w), NEW n, NEW k, Appended(w, n, k), NEW lane, NEW p, NEW q,
         Topmost(InLane(lane), p), q = Max(Copies(w, lane) \cup {p}),
         p # 0 => \E i \in DOMAIN w.events : w.events[i].lane = lane
  PROVE  /\ Topmost(InLane(lane)', q)
         /\ q = 0 \/ q \in Copies(w, lane)
         /\ \A i \in 1..k : w.events[i].lane = lane => q # 0
<1>1. /\ Topmost(InLane(lane)', q)
      /\ q \in Copies(w, lane) \/ (Copies(w, lane) = {} /\ q = p)
  BY AppendedPointer
<1>2. \A i \in 1..k : w.events[i].lane = lane => n + i \in Copies(w, lane)
  BY CopiesAre
<1>3. \A e \in Copies(w, lane) : e # 0
  BY CopiesAre
<1>4. q = 0 \/ q \in Copies(w, lane)
  <2> SUFFICES ASSUME p # 0, Copies(w, lane) = {} PROVE FALSE
    BY <1>1
  <2>1. PICK i \in 1..k : w.events[i].lane = lane
    BY DEF Appended
  <2> QED
    BY <1>2, <2>1
<1>5. \A i \in 1..k : w.events[i].lane = lane => q # 0
  BY <1>1, <1>2, <1>3
<1> QED
  BY <1>1, <1>4, <1>5

LEMMA ArchiveSettles ==
  ASSUME Base, Pointers, RightVersion(online), Continuing, NEW w, Archives(w), Archive(w)
  PROVE  Base' /\ Pointers' /\ Lit' /\ RightVersion(online)' /\ Continuing'
<1>1. PICK n, k : Appended(w, n, k)
  BY AppendedFacts DEF Base
<1>2. /\ line'.status = "archived" /\ online' = online /\ (Dark' <=> Dark)
      /\ line'.production = Max(Copies(w, "production") \cup {line.production})
      /\ line'.canary = Max(Copies(w, "canary") \cup {line.canary})
  BY DEF Archive, Archives, Dark
<1>3. Stream'
  BY <1>1, AppendedStream DEF Base
<1>4. /\ Topmost(InLane("production")', line'.production)
      /\ line'.production # 0 => event'[line'.production].status = "archived"
      /\ \A i \in 1..k : w.events[i].lane = "production" => line'.production # 0
  <2> PICK p, q : p = line.production /\ q = line'.production
    OBVIOUS
  <2>1. /\ Stream /\ Topmost(InLane("production"), p) /\ q = Max(Copies(w, "production") \cup {p})
        /\ p # 0 => \E i \in DOMAIN w.events : w.events[i].lane = "production"
    BY <1>2 DEF Base, Pointers, Archives
  <2>2. /\ Topmost(InLane("production")', q) /\ (q = 0 \/ q \in Copies(w, "production"))
        /\ \A i \in 1..k : w.events[i].lane = "production" => q # 0
    BY <1>1, <2>1, ArchivedPointer
  <2>3. \A e \in Copies(w, "production") : event'[e].status = "archived"
    BY <1>1, CopiesAre
  <2> QED
    BY <2>2, <2>3
<1>5. /\ Topmost(InLane("canary")', line'.canary)
      /\ line'.canary # 0 => event'[line'.canary].status = "archived"
      /\ \A i \in 1..k : w.events[i].lane = "canary" => line'.canary # 0
  <2> PICK p, q : p = line.canary /\ q = line'.canary
    OBVIOUS
  <2>1. /\ Stream /\ Topmost(InLane("canary"), p) /\ q = Max(Copies(w, "canary") \cup {p})
        /\ p # 0 => \E i \in DOMAIN w.events : w.events[i].lane = "canary"
    BY <1>2 DEF Base, Pointers, Archives
  <2>2. /\ Topmost(InLane("canary")', q) /\ (q = 0 \/ q \in Copies(w, "canary"))
        /\ \A i \in 1..k : w.events[i].lane = "canary" => q # 0
    BY <1>1, <2>1, ArchivedPointer
  <2>3. \A e \in Copies(w, "canary") : event'[e].status = "archived"
    BY <1>1, CopiesAre
  <2> QED
    BY <2>2, <2>3
<1>6. Pointers'
  BY <1>4, <1>5 DEF Pointers
<1>7. \A e \in Ids' : event'[e].status \in {"running", "stopped"} =>
        e \in Ids /\ event'[e] = event[e]
  BY <1>1, CopiesAre, AppendedIds
<1>8. ~Dark => ~AnyRunning'
  BY <1>7 DEF Archives, AnyRunning
<1>9. ~Dark => Shows'
  BY <1>8 DEF Shows, AnyRunning
<1>10. ~Dark => Shelved'
  <2>1. line'.production # 0 \/ line'.canary # 0
    <3>1. 1 \in 1..k /\ w.events[1].lane \in Lanes
      <4>1. 1 \in 1..k /\ w.events[1] \in EventSet
        BY <1>1 DEF Appended
      <4> QED
        BY <4>1 DEF EventSet
    <3> QED
      BY <1>4, <1>5, <3>1 DEF Lanes
  <2> QED
    BY <1>4, <1>5, <1>8, <2>1 DEF Shelved
<1>11. event' # <<>>
  <2>1. Len(event') # 0
    BY <1>1 DEF Appended
  <2> QED
    BY <2>1
<1>12. Base'
  BY <1>2, <1>3, <1>9, <1>10, <1>11 DEF Base, Open
<1>13. Lit'
  BY <1>2, <1>8 DEF Lit
<1>14. Ids \subseteq Ids' /\ \A e \in Ids : event'[e] = event[e]
  BY <1>1, AppendedIds
<1>15. RightVersion(online)'
  <2>1. Running("production")' = Running("production")
    BY <1>7, <1>14 DEF Running, In
  <2>2. \A e \in Running("production") : event'[e] = event[e]
    BY <1>14 DEF Running, In
  <2> QED
    BY <1>2, <2>1, <2>2 DEF RightVersion
<1>16. Continuing'
  <2>1. ASSUME ~Dark, NEW e \in Active' PROVE \A r : event'[e].root = r => Continues(r)'
    <3>1. e \in Active /\ event'[e] = event[e]
      BY <1>7, <2>1 DEF Active, In
    <3> TAKE r
    <3> HAVE event'[e].root = r
    <3>2. Continues(r) /\ r # 0
      BY <2>1, <3>1 DEF Continuing, Base, Stream, RootOK, Active, In
    <3> QED
      BY <1>1, <3>2, CopiesContinue
  <2> QED
    BY <1>2, <2>1 DEF Continuing
<1> QED
  BY <1>6, <1>12, <1>13, <1>15, <1>16

-----------------------------------------------------------------------------
(* What a record leaves to be put right.                                    *)

Settled == Base /\ Pointers /\ Lit /\ RightVersion(online) /\ Continuing

\* What holds after a record, the online version and the candidates apart.
Repointed == Base' /\ Pointers' /\ Lit' /\ online' = online /\ (Dark => Dark') /\ (Open => Open')

LEMMA RecordRepoints ==
  ASSUME Settled, NEW w, Record(w),
         \/ Production(w, "running") \/ Stops(w) \/ Resting(w) \/ Candidate(w)
  PROVE  Repointed /\ \E n, new : Recorded(w, n, new)
<1>1. \A e \in Ids : event[e] \in EventSet
  BY StreamFacts DEF Settled, Base
<1>2. Dark \/ Alone(w)
  <2>1. CASE Production(w, "running") \/ Stops(w) \/ Candidate(w)
    BY <1>1, <2>1, EndedByRules DEF Production, Stops, Candidate, Alone, Occupied
  <2>2. CASE Resting(w)
    <3> SUFFICES ASSUME ~Dark, NEW e \in Ids, event[e].lane = "production"
                 PROVE  EndedBy(w, event[e]).status # "running"
      BY <2>2 DEF Resting, Production, Alone
    <3>1. event[e].status # "running"
      BY <2>2 DEF Resting, Running, In
    <3>2. EndedBy(w, event[e]) = event[e] \/ EndedBy(w, event[e]).status # "running"
      BY <1>1, EndedByCases
    <3> QED
      BY <3>1, <3>2
  <2> QED
    BY <2>1, <2>2
<1>3. Recordable(w)
  BY <1>2 DEF Recordable, Production, Stops, Resting, Candidate
<1> QED
  BY <1>3, RecordBase DEF Settled, Repointed

\* The root of a candidate is an event of the stream.
LEMMA RootIsAnEvent ==
  ASSUME Stream, NEW e \in Active
  PROVE  event[e].root \in Ids /\ event[e].root # 0 /\ e \in Ids /\ event[e].lane = "canary"
<1>1. e \in Ids /\ event[e].lane = "canary" /\ event[e] \in EventSet /\ Ids = 1..Len(event)
  BY StreamFacts DEF Active, In
<1>2. event[e].root <= e /\ event[e].root # 0 /\ event[e].root \in Nat
  BY <1>1 DEF Stream, RootOK, EventSet
<1>3. Len(event) \in Nat /\ e \in 1..Len(event)
  BY <1>1, StreamFacts
<1> QED
  BY <1>1, <1>2, <1>3

\* The candidates go on after a record of the other lane ...
LEMMA ProductionContinues ==
  ASSUME Settled, NEW w, Known(w.root), w.lane = "production", NEW n, NEW new, Recorded(w, n, new),
         Dark => Dark'
  PROVE  /\ Continuing'
         /\ w.operation \notin CancelsCanary =>
              \A r \in Ids : r # 0 /\ Continues(r) => Continues(r)'
<1>1. ASSUME w.operation \notin CancelsCanary, NEW r \in Ids, r # 0, Continues(r)
      PROVE  Continues(r)'
  BY <1>1, StillContinues DEF Known
<1>2. CASE w.operation \in CancelsCanary
  <2>1. Active' = {}
    BY <1>2, CandidatesAfter
  <2> QED
    BY <1>2, <2>1 DEF Continuing
<1>3. CASE w.operation \notin CancelsCanary
  <2>1. ASSUME ~Dark', NEW e \in Active' PROVE \A r : event'[e].root = r => Continues(r)'
    <3>1. e \in Active
      BY CandidatesAfter
    <3>2. event'[e].root = event[e].root /\ event[e].root \in Ids /\ event[e].root # 0
      BY <3>1, RootIsAnEvent, RecordedStatus DEF Settled, Base
    <3>3. Continues(event[e].root)
      BY <2>1, <3>1 DEF Settled, Continuing
    <3> QED
      BY <1>1, <1>3, <3>2, <3>3
  <2> QED
    BY <1>1, <1>3, <2>1 DEF Continuing
<1> QED
  BY <1>2, <1>3

\* ... and a candidate that is still to be written may be.
LEMMA CandidateWaits ==
  ASSUME Settled, NEW w, w.lane = "production", Known(w.root), w.operation \notin CancelsCanary,
         NEW n, NEW new, Recorded(w, n, new), Repointed, NEW x, Candidate(x), x.at = w.at
  PROVE  Candidate(x)'
<1>1. \A e \in Ids' : event'[e].at <= x.at
  <2>1. \A e \in Ids : event'[e].at = event[e].at /\ event[e].at <= x.at
    BY EndedByCases DEF Recorded, Candidate, Fresh
  <2>2. event'[n].at = x.at /\ x.at \in Nat
    BY RecordedAt DEF Candidate, Fresh
  <2> QED
    BY <2>1, <2>2, RecordedAt
<1>2. x.root <= Len(event')
  <2>1. Len(event') = Len(event) + 1 /\ Len(event) \in Nat /\ x.root \in Nat /\ x.root <= Len(event)
    BY RecordedAt, StreamFacts DEF Settled, Base, Candidate, Fresh
  <2> QED
    BY <2>1
<1>3. Fresh(x)'
  BY <1>1, <1>2 DEF Candidate, Fresh, Repointed
<1>4. ~Dark' /\ x.status # "cancelled" /\ x.root # 0 => Continues(x.root)'
  <2> SUFFICES ASSUME ~Dark', x.status # "cancelled", x.root # 0 PROVE Continues(x.root)'
    OBVIOUS
  <2>1. Continues(x.root)
    BY DEF Candidate, Repointed
  <2>2. x.root \in Ids
    BY StreamFacts DEF Settled, Base, Candidate, Fresh
  <2> QED
    BY <2>1, <2>2, ProductionContinues DEF Repointed
<1> QED
  BY <1>3, <1>4 DEF Candidate

LEMMA RestingSettles ==
  ASSUME Settled, NEW w, Resting(w), Record(w)
  PROVE  /\ Settled'
         /\ \A x : w.operation \notin CancelsCanary /\ Candidate(x) /\ x.at = w.at => Candidate(x)'
<1>1. w.lane = "production" /\ w.status = "stopped" /\ Known(w.root) /\ w.operation # "force_stop"
  BY DEF Resting, Production
<1>2. Repointed
  BY RecordRepoints
<1> PICK n, new : Recorded(w, n, new)
  BY RecordRepoints
<1>3. Continuing'
  BY <1>1, <1>2, ProductionContinues DEF Repointed
<1>4. RightVersion(online)'
  <2>1. \A v : RightVersion(v) => RightVersion(v)'
    BY <1>1, ProductionStays
  <2> QED
    BY <1>2, <2>1 DEF Settled, Repointed, RightVersion
<1>5. \A x : w.operation \notin CancelsCanary /\ Candidate(x) /\ x.at = w.at => Candidate(x)'
  BY <1>1, <1>2, CandidateWaits
<1> QED
  BY <1>2, <1>3, <1>4, <1>5 DEF Settled, Repointed

LEMMA ReleasedLeaves ==
  ASSUME Settled, NEW w, Released(w), Record(w)
  PROVE  /\ Repointed /\ Continuing' /\ RightVersion(w.version)'
         /\ w.root # 0 => \A v : RightVersion(v)'
         /\ \A x : w.operation \notin CancelsCanary /\ Candidate(x) /\ x.at = w.at => Candidate(x)'
<1>1. w.lane = "production" /\ w.status = "running" /\ Known(w.root)
  BY DEF Released, Production
<1>2. Repointed
  BY RecordRepoints DEF Released
<1> PICK n, new : Recorded(w, n, new)
  BY RecordRepoints DEF Released
<1>3. Continuing'
  BY <1>1, <1>2, ProductionContinues DEF Repointed
<1>4. Running("production")' = {n} /\ event'[n].version = w.version /\ event'[n].root = w.root
  BY <1>1, ProductionRuns, RecordedAt
<1>5. RightVersion(w.version)' /\ (w.root # 0 => \A v : RightVersion(v)')
  BY <1>4 DEF RightVersion
<1>6. \A x : w.operation \notin CancelsCanary /\ Candidate(x) /\ x.at = w.at => Candidate(x)'
  BY <1>1, <1>2, CandidateWaits
<1> QED
  BY <1>2, <1>3, <1>5, <1>6

LEMMA KeptSettles ==
  ASSUME Settled, NEW w, Kept(w), Record(w)
  PROVE  Settled'
<1>1. /\ Repointed /\ Continuing' /\ RightVersion(w.version)'
      /\ w.root # 0 => \A v : RightVersion(v)'
  BY ReleasedLeaves DEF Kept
<1>2. RightVersion(online)'
  BY <1>1 DEF Kept, Repointed, RightVersion
<1> QED
  BY <1>1, <1>2 DEF Settled, Repointed

LEMMA StopsLeaves ==
  ASSUME Settled, NEW w, Stops(w), Record(w)
  PROVE  Repointed /\ Continuing' /\ RightVersion(None)'
<1>1. w.lane = "production" /\ w.status = "stopped" /\ Known(w.root) /\ w.operation = "force_stop"
  BY DEF Stops, Production
<1>2. Repointed
  BY RecordRepoints
<1> PICK n, new : Recorded(w, n, new)
  BY RecordRepoints
<1>3. Continuing'
  BY <1>1, <1>2, ProductionContinues DEF Repointed
<1>4. Running("production")' = {}
  BY <1>1, ProductionStops
<1> QED
  BY <1>2, <1>3, <1>4 DEF RightVersion

LEMMA PromotesLeaves ==
  ASSUME Settled, NEW w, NEW x, Promotes(w, x), Record(w)
  PROVE  Repointed /\ RightVersion(online)' /\ Completes(x)'
<1>1. /\ w.lane = "production" /\ w.status = "running" /\ w.root # 0
      /\ Production(w, "running") /\ Ends(x) /\ x.do = "complete"
  BY DEF Promotes, Production, Completes
<1>2. Repointed
  BY <1>1, RecordRepoints
<1> PICK n, new : Recorded(w, n, new)
  BY <1>1, RecordRepoints
<1>3. Running("production")' = {n} /\ event'[n].root = w.root
  BY <1>1, ProductionRuns, RecordedAt
<1>4. RightVersion(online)'
  BY <1>1, <1>3 DEF RightVersion
<1>5. Active' \subseteq Active /\ x.id \in Ids' /\ event'[x.id].lane = "canary"
  BY <1>1, CandidatesAfter, RecordedStatus DEF Ends
<1>6. Completes(x)'
  BY <1>1, <1>2, <1>5 DEF Completes, Ends, Repointed
<1> QED
  BY <1>2, <1>4, <1>6

LEMMA CandidateSettles ==
  ASSUME Settled, NEW w, Candidate(w), Record(w)
  PROVE  Settled'
<1>1. w.lane = "canary" /\ w.status \in {"running", "stopped", "cancelled"}
      /\ w.operation \notin CancelsCanary
  BY DEF Candidate
<1>2. Repointed
  BY RecordRepoints
<1> PICK n, new : Recorded(w, n, new)
  BY RecordRepoints
<1>3. RightVersion(online)'
  <2>1. \A v : RightVersion(v) => RightVersion(v)'
    BY <1>1, ProductionStays DEF CancelsCanary
  <2> QED
    BY <1>2, <2>1 DEF Settled, Repointed, RightVersion
<1>4. Continuing'
  <2>1. CASE w.status = "cancelled"
    <3>1. Active' = {}
      BY <1>1, <2>1, CandidatesAfter
    <3> QED
      BY <3>1 DEF Continuing
  <2>2. CASE w.status # "cancelled"
    <3>1. ASSUME ~Dark' PROVE \A r : event'[n].root = r => Continues(r)'
      <4>1. ~Dark /\ w.status \in Occupied
        BY <1>1, <1>2, <2>2, <3>1 DEF Repointed, Occupied
      <4>2. CASE w.root = 0
        <5>1. event'[n].root = n
          BY <1>1, <4>2, RecordedAt
        <5> QED
          BY <1>1, <4>1, <4>2, <5>1, FirstContinues DEF Settled, Base
      <4>3. CASE w.root # 0
        <5>1. event'[n].root = w.root /\ w.root \in Ids /\ Continues(w.root)
          BY <2>2, <4>1, <4>3, RecordedAt, StreamFacts DEF Candidate, Fresh, Settled, Base
        <5> QED
          BY <1>1, <4>1, <5>1, StillContinues
      <4> QED
        BY <4>2, <4>3
    <3>2. Active' \subseteq {n}
      BY <1>1, CandidatesAfter
    <3> QED
      BY <3>1, <3>2 DEF Continuing
  <2> QED
    BY <2>1, <2>2
<1> QED
  BY <1>2, <1>3, <1>4 DEF Settled, Repointed

-----------------------------------------------------------------------------
(* A write of a request in order.                                           *)

Writes(w) ==
    Record(w) \/ Complete(w) \/ SetOnline(w) \/ Archive(w) \/ Transition(w) \/ Refresh(w)

LEMMA WritesByDo ==
  ASSUME NEW w, Writes(w)
  PROVE  /\ w.do = "record" => Record(w)
         /\ w.do = "complete" => Complete(w)
         /\ w.do = "online" => SetOnline(w)
         /\ w.do = "archive" => Archive(w)
         /\ w.do = "transition" => Transition(w)
         /\ w.do = "refresh" => Refresh(w)
BY DEF Writes, Record, Complete, SetOnline, Archive, Transition, Refresh

\* What a line that waits for a write is allowed to have wrong.
Almost(do) ==
    /\ Base
    /\ do = "refresh" \/ (Pointers /\ Lit)
    /\ do = "online" \/ RightVersion(online)
    /\ do = "complete" \/ Continuing

LEMMA OneSettles ==
  ASSUME NEW w, Almost(w.do), OneLeft(w), Writes(w)
  PROVE  Settled'
<1>1. CASE Resting(w) \/ Kept(w) \/ Candidate(w)
  <2>1. w.do = "record"
    BY <1>1 DEF Resting, Kept, Candidate, Released, Production, Fresh
  <2>2. Settled /\ Record(w)
    BY <2>1, WritesByDo DEF Almost, Settled
  <2> QED
    BY <1>1, <2>2, RestingSettles, KeptSettles, CandidateSettles
<1>2. CASE Completes(w)
  <2>1. w.do = "complete"
    BY <1>2 DEF Completes
  <2> QED
    BY <1>2, <2>1, WritesByDo, CompleteSettles DEF Almost, Settled
<1>3. CASE Onlines(w)
  <2>1. w.do = "online"
    BY <1>3 DEF Onlines
  <2> QED
    BY <1>3, <2>1, WritesByDo, SetOnlineSettles DEF Almost, Settled
<1>4. CASE Archives(w)
  <2>1. w.do = "archive"
    BY <1>4 DEF Archives
  <2> QED
    BY <1>4, <2>1, WritesByDo, ArchiveSettles DEF Almost, Settled
<1>5. CASE Refreshes(w)
  <2>1. w.do = "refresh"
    BY <1>5 DEF Refreshes
  <2> QED
    BY <1>5, <2>1, WritesByDo, RefreshSettles DEF Almost, Settled
<1> QED
  BY <1>1, <1>2, <1>3, <1>4, <1>5 DEF OneLeft

LEMMA TwoSettle ==
  ASSUME NEW v, NEW w, Almost(v.do), TwoLeft(v, w), Writes(v)
  PROVE  Almost(w.do)' /\ OneLeft(w)'
<1>1. CASE Released(v) /\ Brings(w, v.version)
  <2>1. Settled /\ Record(v) /\ w.do = "online"
    BY <1>1, WritesByDo DEF Almost, Settled, Released, Production, Fresh, Brings
  <2>2. Repointed /\ Continuing' /\ RightVersion(v.version)'
    BY <1>1, <2>1, ReleasedLeaves
  <2>3. Onlines(w)'
    BY <1>1, <2>2 DEF Onlines, Brings, RightVersion
  <2> QED
    BY <2>1, <2>2, <2>3 DEF Almost, OneLeft, Repointed
<1>2. CASE Stops(v) /\ Brings(w, None)
  <2>1. Settled /\ Record(v) /\ w.do = "online"
    BY <1>2, WritesByDo DEF Almost, Settled, Stops, Production, Fresh, Brings
  <2>2. Repointed /\ Continuing' /\ RightVersion(None)'
    BY <1>2, <2>1, StopsLeaves
  <2>3. Onlines(w)'
    BY <1>2, <2>2 DEF Onlines, Brings, RightVersion
  <2> QED
    BY <2>1, <2>2, <2>3 DEF Almost, OneLeft, Repointed
<1>3. CASE Promotes(v, w)
  <2>1. Settled /\ Record(v) /\ w.do = "complete"
    BY <1>3, WritesByDo DEF Almost, Settled, Promotes, Production, Fresh, Completes
  <2>2. Repointed /\ RightVersion(online)' /\ Completes(w)'
    BY <1>3, <2>1, PromotesLeaves
  <2> QED
    BY <2>1, <2>2 DEF Almost, OneLeft, Repointed
<1>4. CASE Resting(v) /\ v.operation \notin CancelsCanary /\ Candidate(w) /\ w.at = v.at
  <2>1. Settled /\ Record(v)
    BY <1>4, WritesByDo DEF Almost, Settled, Resting, Production, Fresh
  <2>2. Settled' /\ Candidate(w)'
    BY <1>4, <2>1, RestingSettles
  <2> QED
    BY <2>2 DEF Almost, OneLeft, Settled
<1>5. CASE Onlines(v) /\ Candidate(w)
  <2>1. SetOnline(v) /\ Base /\ Pointers /\ Lit /\ Continuing
    BY <1>5, WritesByDo DEF Almost, Onlines
  <2>2. Settled'
    BY <1>5, <2>1, SetOnlineSettles DEF Settled
  <2>3. event' = event /\ line' = line /\ (Dark' <=> Dark) /\ Ids' = Ids
    BY <2>1 DEF SetOnline, Dark, Ids
  <2>4. Candidate(w)'
    BY <1>5, <2>3, StreamAlone DEF Candidate, Fresh, Open
  <2> QED
    BY <2>2, <2>4 DEF Almost, OneLeft, Settled
<1>6. CASE Transits(v) /\ Refreshes(w)
  <2>1. Transition(v) /\ Base /\ RightVersion(online) /\ w.do = "refresh"
    BY <1>6, WritesByDo DEF Almost, Transits, Refreshes
  <2>2. Base' /\ RightVersion(online)' /\ Continuing' /\ line'.status # "archived" /\ event' # <<>>
    BY <1>6, <2>1, TransitionKeeps
  <2> QED
    BY <2>1, <2>2 DEF Almost, OneLeft, Refreshes
<1> QED
  BY <1>1, <1>2, <1>3, <1>4, <1>5, <1>6 DEF TwoLeft

LEMMA ThreeSettle ==
  ASSUME NEW u, NEW v, NEW w, Almost(u.do), ThreeLeft(u, v, w), Writes(u)
  PROVE  Almost(v.do)' /\ TwoLeft(v, w)'
<1>1. Settled /\ Record(u) /\ v.do = "online"
  BY WritesByDo DEF ThreeLeft, Almost, Settled, Released, Production, Fresh, Brings
<1>2. Repointed /\ Continuing' /\ RightVersion(u.version)' /\ Candidate(w)'
  BY <1>1, ReleasedLeaves DEF ThreeLeft
<1>3. Onlines(v)'
  BY <1>1, <1>2 DEF ThreeLeft, Onlines, Brings, RightVersion
<1> QED
  BY <1>1, <1>2, <1>3 DEF Almost, TwoLeft, Repointed

-----------------------------------------------------------------------------
(* What a request that comes alone decides to write.                        *)

LEMMA NowIsLatest ==
  ASSUME Stream, ~Busy
  PROVE  Now \in Nat /\ \A e \in Ids : event[e].at <= Now
<1> DEFINE A == {event[e].at : e \in Ids}
           U == UNION {{req[a].todo[i].at : i \in DOMAIN req[a].todo} : a \in Actors}
           S == {0} \cup A \cup U
<1>1. \A a \in Actors : req[a].todo = <<>>
  BY DEF Busy, Idle
<1>2. U = {}
  <2>1. \A a \in Actors : DOMAIN req[a].todo = {}
    BY <1>1
  <2> QED
    BY <2>1
<1> HIDE DEF U
<1>3. \A e \in Ids : event[e].at \in Nat
  BY StreamFacts DEF EventSet
<1>4. \E m \in S : \A x \in S : m >= x /\ x \in Nat
  <2>1. CASE Ids = {}
    <3>1. S = {0}
      BY <1>2, <2>1
    <3> QED
      BY <3>1
  <2>2. CASE Ids # {}
    <3> DEFINE n == Len(event)
    <3>1. n \in Ids /\ \A e \in Ids : e <= n
      BY <2>2, StreamFacts
    <3>2. \A e \in Ids : event[e].at <= event[n].at
      BY <3>1, StreamFacts DEF InOrder
    <3>3. event[n].at \in S /\ event[n].at \in Nat
      BY <1>3, <3>1
    <3>4. \A x \in S : event[n].at >= x /\ x \in Nat
      BY <1>2, <1>3, <3>2, <3>3
    <3> QED
      BY <3>3, <3>4
  <2> QED
    BY <2>1, <2>2
<1>5. Max(S) \in S /\ (\A x \in S : Max(S) >= x) /\ \A x \in S : x \in Nat
  <2> HIDE DEF S
  <2> QED
    BY <1>4 DEF Max
<1>6. Now = 1 + Max(S)
  BY DEF Now, U
<1>7. \A e \in Ids : event[e].at \in S
  OBVIOUS
<1> HIDE DEF S
<1> QED
  BY <1>3, <1>5, <1>6, <1>7

Written(w, lane, operation, status, version, root) ==
    /\ w.do = "record" /\ w.lane = lane /\ w.operation = operation /\ w.status = status
    /\ w.version = version /\ w.root = root /\ w.at = Now /\ w.reason \in Reasons

LEMMA NewIs ==
  ASSUME NEW lane, NEW operation, NEW status, NEW version
  PROVE  Written(New(lane, operation, status, version), lane, operation, status, version, 0)
BY DEF Written, New, NoWrite, Reasons

LEMMA AgainIs ==
  ASSUME NEW e, NEW operation, NEW status
  PROVE  /\ Written(Again(e, operation, status),
                    event[e].lane, operation, status, event[e].version, event[e].root)
         /\ \A reason \in Reasons :
              Written([Again(e, operation, status) EXCEPT !.reason = reason],
                      event[e].lane, operation, status, event[e].version, event[e].root)
         /\ \A lane :
              Written([Again(e, operation, status) EXCEPT !.lane = lane],
                      lane, operation, status, event[e].version, event[e].root)
BY DEF Written, Again, New, NoWrite, Reasons

LEMMA WrittenIsFresh ==
  ASSUME Stream, ~Busy, NEW w, NEW lane, NEW operation, NEW status, NEW version \in Versions,
         NEW root \in Nat, Written(w, lane, operation, status, version, root), root <= Len(event),
         Open \/ operation = "unarchive_line" \/ status \in {"running", "cancelled"}
  PROVE  Fresh(w)
BY NowIsLatest DEF Written, Fresh

\* What an event gives to the record that repeats it.
LEMMA EventFacts ==
  ASSUME Stream, NEW e \in Ids
  PROVE  /\ event[e].version \in Versions /\ event[e].root \in Nat /\ event[e].root <= Len(event)
         /\ event[e].lane \in Lanes /\ event[e].status \in Statuses /\ event \in Seq(EventSet)
         /\ event[e].lane = "canary" => event[e].root # 0
         /\ event[e].lane = "production" => Known(event[e].root)
<1>1. event[e] \in EventSet /\ event[e].root <= e /\ e <= Len(event) /\ e \in Nat /\ Len(event) \in Nat
      /\ (event[e].lane = "canary" => event[e].root # 0)
  BY StreamFacts DEF Stream, RootOK
<1>2. event[e].version \in Versions /\ event[e].root \in Nat
      /\ event[e].lane \in Lanes /\ event[e].status \in Statuses
  BY <1>1 DEF EventSet
<1>3. event[e].lane = "production" => Known(event[e].root)
  BY DEF Known, Promoted
<1> QED
  BY <1>1, <1>2, <1>3 DEF Stream

\* The request starts from a settled line and has it to itself.
Quietly == Settled /\ NoTwo /\ ~Busy

LEMMA WrittenCandidate ==
  ASSUME Quietly, NEW e \in Ids, event[e].lane = "canary", NEW operation, NEW status, NEW w,
         Written(w, "canary", operation, status, event[e].version, event[e].root),
         operation \notin CancelsCanary, status \in {"running", "stopped", "cancelled"},
         Open \/ operation = "unarchive_line" \/ status \in {"running", "cancelled"},
         Dark \/ status = "cancelled" \/ e \in Active \/ event[e].status = "archived"
  PROVE  Candidate(w)
<1>1. Fresh(w)
  BY WrittenIsFresh, EventFacts DEF Quietly, Settled, Base
<1>2. e \in Active /\ ~Dark => Continues(event[e].root)
  BY DEF Quietly, Settled, Continuing
<1>3. event[e].status = "archived" => Continues(event[e].root)
  BY DEF Continues, Of
<1> QED
  BY <1>1, <1>2, <1>3 DEF Candidate, Written

LEMMA WrittenProduction ==
  ASSUME Quietly, NEW e \in Ids, NEW operation, NEW status, NEW w,
         Written(w, "production", operation, status, event[e].version, event[e].root),
         Open \/ operation = "unarchive_line" \/ status \in {"running", "cancelled"}
  PROVE  Production(w, status) /\ (event[e].lane = "production" => Known(w.root))
<1>1. Fresh(w)
  BY WrittenIsFresh, EventFacts DEF Quietly, Settled, Base
<1>2. event[e].lane = "production" => Known(event[e].root)
  BY EventFacts DEF Quietly, Settled, Base
<1> QED
  BY <1>1, <1>2 DEF Production, Written

LEMMA WrittenNew ==
  ASSUME Quietly, NEW lane, NEW operation, NEW status, NEW version \in Versions, NEW w,
         Written(w, lane, operation, status, version, 0), Open \/ status = "running"
  PROVE  Fresh(w) /\ Known(w.root)
<1>1. 0 <= Len(event)
  BY StreamFacts DEF Quietly, Settled, Base
<1>2. Fresh(w)
  BY <1>1, WrittenIsFresh DEF Quietly, Settled, Base
<1> QED
  BY <1>2 DEF Known, Written

LEMMA RunningIsOpen ==
  ASSUME Quietly, NEW e \in Ids, event[e].status = "running"
  PROVE  Open
BY DEF Quietly, Settled, Base, Shelved, AnyRunning

\* What it writes fits the line.
Good(todo) == IsSeq(todo) /\ todo # <<>> /\ TodoOK(todo)

LEMMA OneGood == ASSUME NEW w, OneLeft(w) PROVE Good(<<w>>)
<1>1. Len(<<w>>) = 1 /\ <<w>>[1] = w /\ IsSeq(<<w>>) /\ <<w>> # <<>>
  BY DEF IsSeq
<1> QED
  BY <1>1 DEF Good, TodoOK

LEMMA TwoGood == ASSUME NEW v, NEW w, TwoLeft(v, w) PROVE Good(<<v, w>>)
<1>1. Len(<<v, w>>) = 2 /\ <<v, w>>[1] = v /\ <<v, w>>[2] = w /\ IsSeq(<<v, w>>) /\ <<v, w>> # <<>>
  BY DEF IsSeq
<1> QED
  BY <1>1 DEF Good, TodoOK

-----------------------------------------------------------------------------
(* The requests.                                                            *)

GoodStart == \E a \in Actors : \E operation, todo : Begin(a, operation, todo) /\ Good(todo)

LEMMA ReleasesAreGood ==
  ASSUME Quietly, NEW c \in Clients,
         CreateProduction(c) \/ Rollback(c) \/ ForceStop(c) \/ Promote(c)
  PROVE  GoodStart
<1>0. c \in Actors /\ Stream
  BY DEF Actors, Quietly, Settled, Base
<1>1. CASE CreateProduction(c)
  <2> PICK v \in Versions :
        Begin(c, "production", <<New("production", "create_production", "running", v), Online(v)>>)
    BY <1>1 DEF CreateProduction, Request
  <2> DEFINE w == New("production", "create_production", "running", v)
             x == Online(v)
  <2>1. Written(w, "production", "create_production", "running", v, 0) /\ x.do = "online" /\ x.version = v
    BY NewIs DEF Online, NoWrite
  <2>2. Begin(c, "production", <<w, x>>)
    OBVIOUS
  <2> HIDE DEF w, x
  <2>3. Released(w) /\ Brings(x, w.version)
    BY <2>1, WrittenNew DEF Released, Production, Brings, Written
  <2> QED
    BY <1>0, <2>2, <2>3, TwoGood DEF GoodStart, TwoLeft
<1>2. CASE Rollback(c)
  <2> PICK e \in Ids :
        Begin(c, "rollback", <<New("production", "rollback", "running", event[e].version),
                               Online(event[e].version)>>)
    BY <1>2 DEF Rollback, Request
  <2> PICK v \in Versions : v = event[e].version
    BY <1>0, EventFacts
  <2> DEFINE w == New("production", "rollback", "running", v)
             x == Online(v)
  <2>1. Written(w, "production", "rollback", "running", v, 0) /\ x.do = "online" /\ x.version = v
    BY NewIs DEF Online, NoWrite
  <2>2. Begin(c, "rollback", <<w, x>>)
    OBVIOUS
  <2> HIDE DEF w, x
  <2>3. Released(w) /\ Brings(x, w.version)
    BY <2>1, WrittenNew DEF Released, Production, Brings, Written
  <2> QED
    BY <1>0, <2>2, <2>3, TwoGood DEF GoodStart, TwoLeft
<1>3. CASE ForceStop(c)
  <2> PICK e \in Running("production") :
        Begin(c, "forceStop", <<[Again(e, "force_stop", "stopped") EXCEPT !.reason = "force_stopped"],
                                Online(None)>>)
    BY <1>3 DEF ForceStop, Request
  <2> DEFINE w == [Again(e, "force_stop", "stopped") EXCEPT !.reason = "force_stopped"]
             x == Online(None)
  <2>1. e \in Ids /\ event[e].lane = "production" /\ event[e].status = "running"
    BY DEF Running, In
  <2>2. /\ Written(w, "production", "force_stop", "stopped", event[e].version, event[e].root)
        /\ x.do = "online" /\ x.version = None
    BY <2>1, AgainIs DEF Online, NoWrite, Reasons
  <2>3. Begin(c, "forceStop", <<w, x>>)
    OBVIOUS
  <2> HIDE DEF w, x
  <2>4. Production(w, "stopped") /\ Known(w.root)
    BY <2>1, <2>2, RunningIsOpen, WrittenProduction
  <2>5. Stops(w) /\ Brings(x, None)
    BY <2>2, <2>4 DEF Stops, Brings, Written
  <2> QED
    BY <1>0, <2>3, <2>5, TwoGood DEF GoodStart, TwoLeft
<1>4. CASE Promote(c)
  <2> DEFINE e == line.canary
             w == [Again(e, "promote_canary", "running") EXCEPT !.lane = "production"]
             x == [NoWrite EXCEPT !.do = "complete", !.id = e]
  <2>1. e \in Ids /\ event[e].lane = "canary" /\ event[e].status = "running" /\ e \in Active
    BY <1>4 DEF Promote, Running, Active, In
  <2>2. /\ Written(w, "production", "promote_canary", "running", event[e].version, event[e].root)
        /\ x.do = "complete" /\ x.id = e
    BY AgainIs DEF NoWrite
  <2>3. Begin(c, "promote", <<w, x>>)
    BY <1>4 DEF Promote, Request
  <2> HIDE DEF w, x
  <2>4. Production(w, "running") /\ w.root # 0 /\ w.operation \notin CancelsCanary
    BY <1>0, <2>1, <2>2, WrittenProduction, EventFacts DEF Written, CancelsCanary
  <2>5. Completes(x)
    BY <2>1, <2>2, RunningIsOpen DEF Completes, Ends, Quietly, NoTwo
  <2> QED
    BY <1>0, <2>3, <2>4, <2>5, TwoGood DEF GoodStart, TwoLeft, Promotes
<1> QED
  BY <1>1, <1>2, <1>3, <1>4

LEMMA CandidatesAreGood ==
  ASSUME Quietly, NEW c \in Clients,
         CreateCanary(c) \/ StartCanary(c) \/ StopCanary(c) \/ CancelCanary(c)
  PROVE  GoodStart
<1>0. c \in Actors
  BY DEF Actors
<1>1. CASE CreateCanary(c)
  <2> PICK v \in Versions : Begin(c, "canary", <<New("canary", "create_canary", "running", v)>>)
    BY <1>1 DEF CreateCanary, Request
  <2> DEFINE w == New("canary", "create_canary", "running", v)
  <2>1. Written(w, "canary", "create_canary", "running", v, 0)
    BY NewIs
  <2>2. Begin(c, "canary", <<w>>)
    OBVIOUS
  <2> HIDE DEF w
  <2>3. Candidate(w)
    BY <2>1, WrittenNew DEF Candidate, Written, CancelsCanary
  <2> QED
    BY <2>2, <2>3, OneGood DEF GoodStart, OneLeft, Actors
<1>2. CASE StartCanary(c)
  <2> PICK e \in In("canary", {"stopped"}) : Begin(c, "startCanary", <<Again(e, "resume_lane", "running")>>)
    BY <1>2 DEF StartCanary, Request
  <2>1. e \in Ids /\ event[e].lane = "canary" /\ e \in Active
    BY DEF In, Active
  <2> DEFINE w == Again(e, "resume_lane", "running")
  <2>2. /\ Written(w, "canary", "resume_lane", "running", event[e].version, event[e].root)
        /\ "resume_lane" \notin CancelsCanary
    BY <2>1, AgainIs DEF CancelsCanary
  <2>3. Begin(c, "startCanary", <<w>>)
    OBVIOUS
  <2> HIDE DEF w
  <2>4. Candidate(w)
    BY <2>1, <2>2, WrittenCandidate
  <2> QED
    BY <1>0, <2>3, <2>4, OneGood DEF GoodStart, OneLeft
<1>3. CASE StopCanary(c)
  <2> PICK e \in Running("canary") : Begin(c, "stopCanary", <<Again(e, "stop_lane", "stopped")>>)
    BY <1>3 DEF StopCanary, Request
  <2>1. e \in Ids /\ event[e].lane = "canary" /\ e \in Active /\ Open
    BY RunningIsOpen DEF Running, In, Active
  <2> DEFINE w == Again(e, "stop_lane", "stopped")
  <2>2. /\ Written(w, "canary", "stop_lane", "stopped", event[e].version, event[e].root)
        /\ "stop_lane" \notin CancelsCanary
    BY <2>1, AgainIs DEF CancelsCanary
  <2>3. Begin(c, "stopCanary", <<w>>)
    OBVIOUS
  <2> HIDE DEF w
  <2>4. Candidate(w)
    BY <2>1, <2>2, WrittenCandidate
  <2> QED
    BY <1>0, <2>3, <2>4, OneGood DEF GoodStart, OneLeft
<1>4. CASE CancelCanary(c)
  <2> PICK e \in Active :
        Begin(c, "cancelCanary", <<[Again(e, "cancel_canary", "cancelled") EXCEPT !.reason = "cancelled"]>>)
    BY <1>4 DEF CancelCanary, Request
  <2> DEFINE w == [Again(e, "cancel_canary", "cancelled") EXCEPT !.reason = "cancelled"]
  <2>1. e \in Ids /\ event[e].lane = "canary"
    BY DEF In, Active
  <2>2. /\ Written(w, "canary", "cancel_canary", "cancelled", event[e].version, event[e].root)
        /\ "cancel_canary" \notin CancelsCanary
    BY <2>1, AgainIs DEF Reasons, CancelsCanary
  <2>3. Begin(c, "cancelCanary", <<w>>)
    OBVIOUS
  <2> HIDE DEF w
  <2>4. Candidate(w)
    BY <2>1, <2>2, WrittenCandidate
  <2> QED
    BY <1>0, <2>3, <2>4, OneGood DEF GoodStart, OneLeft
<1> QED
  BY <1>1, <1>2, <1>3, <1>4

\* Both pointers are of their lane.
LEMMA PointersShow ==
  ASSUME Quietly
  PROVE  /\ line.production # 0 => line.production \in InLane("production")
         /\ line.canary # 0 => line.canary \in InLane("canary")
         /\ \A e \in {line.production, line.canary} : e # 0 => e \in Ids
         /\ ~Dark => Running("production") \subseteq {line.production}
         /\ ~Dark => Running("canary") \subseteq {line.canary}
<1>1. line.production # 0 => line.production \in InLane("production")
  BY DEF Quietly, Settled, Pointers, Topmost
<1>2. line.canary # 0 => line.canary \in InLane("canary")
  BY DEF Quietly, Settled, Pointers, Topmost
<1>3. \A lane, x : ~Dark /\ Topmost(InLane(lane), x) => Running(lane) \subseteq {x}
  <2> SUFFICES ASSUME NEW lane, NEW x, ~Dark, Topmost(InLane(lane), x), NEW e \in Running(lane)
               PROVE  x = e
    OBVIOUS
  <2>1. Stream /\ Shows
    BY DEF Quietly, Settled, Base
  <2>2. e \in Ids /\ event[e].status = "running" /\ event[e].lane = lane
    BY DEF Running, In
  <2> QED
    BY <2>1, <2>2, RunningIsShown
<1>4. Topmost(InLane("production"), line.production) /\ Topmost(InLane("canary"), line.canary)
  BY DEF Quietly, Settled, Pointers
<1> QED
  BY <1>1, <1>2, <1>3, <1>4 DEF InLane

LEMMA EditsAreGood ==
  ASSUME Quietly, NEW c \in Clients, Adjust(c) \/ RestoreHistory(c)
  PROVE  GoodStart
<1>0. c \in Actors /\ Stream
  BY DEF Actors, Quietly, Settled, Base
<1>1. CASE Adjust(c)
  <2> PICK e \in {line.production, line.canary} \cap Ids :
        /\ event[e].status \in {"running", "stopped"}
        /\ Begin(c, "adjust", <<Again(e, "config_changed", event[e].status)>>)
    BY <1>1 DEF Adjust, Request
  <2>1. e \in Ids /\ e # 0 /\ Open
    BY <1>0, StreamFacts DEF Quietly, Settled, Base, Shelved
  <2> PICK status \in {"running", "stopped"} : status = event[e].status
    OBVIOUS
  <2> DEFINE w == Again(e, "config_changed", status)
  <2>2. Written(w, event[e].lane, "config_changed", status, event[e].version, event[e].root)
    BY AgainIs
  <2>3. Begin(c, "adjust", <<w>>)
    OBVIOUS
  <2> HIDE DEF w
  <2>4. CASE event[e].lane = "canary"
    <3>1. e \in Active
      BY <2>1, <2>4 DEF Active, In
    <3>2. "config_changed" \notin CancelsCanary /\ status \in {"running", "stopped", "cancelled"}
      BY DEF CancelsCanary
    <3>3. Candidate(w)
      BY <2>1, <2>2, <2>4, <3>1, <3>2, WrittenCandidate
    <3> QED
      BY <1>0, <2>3, <3>3, OneGood DEF GoodStart, OneLeft
  <2>5. CASE event[e].lane = "production"
    <3>1. Production(w, status) /\ Known(w.root)
      BY <2>1, <2>2, <2>5, WrittenProduction
    <3>2. CASE status = "running"
      <4>1. e \in Running("production")
        BY <2>1, <2>5, <3>2 DEF Running, In
      <4>2. w.root # 0 \/ online = w.version
        BY <2>2, <4>1 DEF Quietly, Settled, RightVersion, Written
      <4>3. Kept(w)
        BY <2>2, <3>1, <3>2, <4>2 DEF Kept, Released, Written, CancelsCanary
      <4> QED
        BY <1>0, <2>3, <4>3, OneGood DEF GoodStart, OneLeft
    <3>3. CASE status = "stopped"
      <4>1. e = line.production
        BY <2>1, <2>5, PointersShow DEF InLane
      <4>2. ~Dark => Running("production") = {}
        BY <3>3, <4>1, PointersShow DEF Running, In
      <4>3. Resting(w)
        BY <2>2, <3>1, <3>3, <4>2 DEF Resting, Written
      <4> QED
        BY <1>0, <2>3, <4>3, OneGood DEF GoodStart, OneLeft
    <3> QED
      BY <3>2, <3>3
  <2> QED
    BY <1>0, <2>4, <2>5, EventFacts DEF Lanes
<1>2. CASE RestoreHistory(c)
  <2>1. line.status \in {"running", "stopped"} /\ Open
    BY <1>2 DEF RestoreHistory, Quietly, Settled, Base, Open
  <2> DEFINE restored(e, lane) ==
               New(lane, IF lane = "production" THEN "restore_to_production" ELSE "restore_to_canary",
                   line.status, event[e].version)
  <2>2. PICK e \in Ids, lane \in Lanes :
          Begin(c, "restore", IF lane = "production" /\ line.status = "running"
                              THEN <<restored(e, lane), Online(event[e].version)>>
                              ELSE <<restored(e, lane)>>)
    BY <1>2 DEF RestoreHistory, Request
  <2> PICK v \in Versions : v = event[e].version
    BY <1>0, EventFacts
  <2> DEFINE w == restored(e, lane)
             x == Online(v)
  <2>3. /\ Written(w, lane, IF lane = "production" THEN "restore_to_production" ELSE "restore_to_canary",
                   line.status, v, 0)
        /\ x.do = "online" /\ x.version = v
    BY NewIs DEF Online, NoWrite
  <2>4. Begin(c, "restore", IF lane = "production" /\ line.status = "running" THEN <<w, x>> ELSE <<w>>)
    BY <2>2
  <2> HIDE DEF restored, w, x
  <2>5. Fresh(w) /\ Known(w.root)
    BY <2>1, <2>3, WrittenNew
  <2>6. CASE lane = "canary"
    <3>1. Candidate(w)
      BY <2>1, <2>3, <2>5, <2>6 DEF Candidate, Written, CancelsCanary
    <3> QED
      BY <1>0, <2>4, <2>6, <3>1, OneGood DEF GoodStart, OneLeft
  <2>7. CASE lane = "production" /\ line.status = "running"
    <3>1. Released(w) /\ Brings(x, w.version)
      BY <2>3, <2>5, <2>7 DEF Released, Production, Brings, Written
    <3> QED
      BY <1>0, <2>4, <2>7, <3>1, TwoGood DEF GoodStart, TwoLeft
  <2>8. CASE lane = "production" /\ line.status = "stopped"
    <3>1. ~Dark => Running("production") = {}
      BY <2>8 DEF Quietly, Settled, Lit, AnyRunning, Running, In
    <3>2. Resting(w)
      BY <2>3, <2>5, <2>8, <3>1 DEF Resting, Production, Written
    <3> QED
      BY <1>0, <2>4, <2>8, <3>2, OneGood DEF GoodStart, OneLeft
  <2> QED
    BY <2>1, <2>6, <2>7, <2>8 DEF Lanes
<1> QED
  BY <1>1, <1>2

LEMMA ScanIsGood == ASSUME Quietly, Scan PROVE GoodStart
<1> DEFINE v == [NoWrite EXCEPT !.do = "transition", !.id = line.canary]
           w == [NoWrite EXCEPT !.do = "refresh"]
<1>1. Begin(Runner, "scan", <<v, w>>) /\ Runner \in Actors /\ line.status # "archived"
  BY DEF Scan, Actors
<1>2. v.do = "transition" /\ v.id = line.canary /\ w.do = "refresh"
  BY DEF NoWrite
<1> HIDE DEF v, w
<1>3. v.id \in Active /\ v.id \in Ids /\ event[v.id].lane = "canary"
  BY <1>2 DEF Scan, Running, Active, In
<1>4. event # <<>>
  <2>1. Len(event) # 0
    BY <1>3, StreamFacts DEF Quietly, Settled, Base
  <2> QED
    BY <2>1
<1>5. Transits(v) /\ Refreshes(w)
  BY <1>1, <1>2, <1>3, <1>4 DEF Transits, Refreshes, Ends, Open, Quietly, NoTwo
<1> QED
  BY <1>1, <1>5, TwoGood DEF GoodStart, TwoLeft

-----------------------------------------------------------------------------
(* The requests that go by what the slots show.                             *)

LEMMA ShownCases ==
  ASSUME NEW S, NEW p, NEW c, p = line.production, c = line.canary
  PROVE  LET in(e) == e # 0 /\ event[e].status \in S IN
         \/ ~in(p) /\ ~in(c) /\ Shown(S) = <<>>
         \/ in(p) /\ ~in(c) /\ Shown(S) = <<p>>
         \/ ~in(p) /\ in(c) /\ Shown(S) = <<c>>
         \/ in(p) /\ in(c) /\ Shown(S) = <<p, c>>
<1> DEFINE in(e) == e # 0 /\ event[e].status \in S
<1>1. \A e : ShownIn(e, S) = IF in(e) THEN <<e>> ELSE <<>>
  BY DEF ShownIn
<1>2. Shown(S) = ShownIn(p, S) \o ShownIn(c, S)
  BY DEF Shown
<1>3. /\ <<>> \o <<>> = <<>> /\ <<p>> \o <<>> = <<p>> /\ <<>> \o <<c>> = <<c>>
      /\ <<p>> \o <<c>> = <<p, c>>
  <2>1. <<p>> \in Seq({p, c}) /\ <<c>> \in Seq({p, c}) /\ <<p, c>> \in Seq({p, c})
        /\ <<>> \in Seq({p, c})
    OBVIOUS
  <2>2. /\ <<p>> \o <<c>> \in Seq({p, c}) /\ Len(<<p>> \o <<c>>) = 2
        /\ (<<p>> \o <<c>>)[1] = p /\ (<<p>> \o <<c>>)[2] = c
    OBVIOUS
  <2>3. <<p>> \o <<c>> = <<p, c>>
    <3> DEFINE s == <<p>> \o <<c>>
               t == <<p, c>>
    <3>1. s \in Seq({p, c}) /\ t \in Seq({p, c}) /\ Len(s) = 2 /\ Len(t) = 2
          /\ s[1] = p /\ s[2] = c /\ t[1] = p /\ t[2] = c
      BY <2>1, <2>2
    <3> HIDE DEF s, t
    <3>2. \A i \in 1..Len(s) : s[i] = t[i]
      BY <3>1
    <3>3. s = t
      BY <3>1, <3>2, SeqEqual
    <3> QED
      BY <3>3 DEF s, t
  <2> QED
    BY <2>1, <2>3, ConcatEmptySeq
<1> QED
  BY <1>1, <1>2, <1>3

LEMMA LatestIsAnEvent ==
  ASSUME Stream, event # <<>>
  PROVE  LatestEvent \in Ids
<1>1. Ids # {}
  <2>1. Len(event) # 0
    BY StreamFacts
  <2> QED
    BY <2>1, StreamFacts
<1>2. Topmost(Ids, LatestEvent)
  <2>1. Len(event) \in Nat /\ InOrder(event) /\ \A e \in 1..Len(event) : event[e].at \in Nat
    BY StreamFacts DEF EventSet
  <2>2. Ids \subseteq 1..Len(event)
    BY StreamFacts
  <2> QED
    BY <2>1, <2>2, NewestIsTopmost DEF LatestEvent
<1> QED
  BY <1>1, <1>2 DEF Topmost

\* A stopped event starts again: a production with its version, a candidate
\* alone.
LEMMA ResumedIs ==
  ASSUME Quietly, NEW e \in Ids, event[e].status = "stopped"
  PROVE  \/ event[e].lane = "production" /\ \E w, x :
               /\ Resumed(e) = <<w, x>> /\ Released(w) /\ Brings(x, w.version)
               /\ w.operation \notin CancelsCanary /\ w.at = Now
         \/ event[e].lane = "canary" /\ \E w :
               Resumed(e) = <<w>> /\ Candidate(w) /\ w.at = Now
<1> DEFINE w == Again(e, "resume_lane", "running")
           x == Online(event[e].version)
<1>1. /\ Written(w, event[e].lane, "resume_lane", "running", event[e].version, event[e].root)
      /\ x.do = "online" /\ x.version = event[e].version /\ "resume_lane" \notin CancelsCanary
  BY AgainIs DEF Online, NoWrite, CancelsCanary
<1>2. Resumed(e) = IF event[e].lane = "production" THEN <<w, x>> ELSE <<w>>
  BY DEF Resumed
<1> HIDE DEF w, x
<1>3. CASE event[e].lane = "production"
  <2>1. Production(w, "running") /\ Known(w.root)
    BY <1>1, <1>3, WrittenProduction
  <2> QED
    BY <1>1, <1>2, <1>3, <2>1 DEF Released, Brings, Written
<1>4. CASE event[e].lane = "canary"
  <2>1. e \in Active
    BY <1>4 DEF Active, In
  <2>2. Candidate(w)
    BY <1>1, <1>4, <2>1, WrittenCandidate
  <2> QED
    BY <1>1, <1>2, <1>4, <2>2 DEF Written
<1>5. event[e].lane \in Lanes
  BY EventFacts DEF Quietly, Settled, Base
<1> QED
  BY <1>3, <1>4, <1>5 DEF Lanes

LEMMA StartLineIsGood ==
  ASSUME Quietly, NEW c \in Clients, StartLine(c)
  PROVE  GoodStart
<1>0. c \in Actors /\ Stream /\ line.status = "stopped" /\ event # <<>>
  BY DEF Actors, Quietly, Settled, Base, StartLine
<1>1. Begin(c, "startLine", IF Len(Resumable) = 1 THEN Resumed(Resumable[1])
                            ELSE Resumed(Resumable[1]) \o Resumed(Resumable[2]))
  BY DEF StartLine, Request
<1> PICK p, k : p = line.production /\ k = line.canary
  OBVIOUS
<1>2. \/ \E e \in Ids : Resumable = <<e>> /\ event[e].status = "stopped"
      \/ /\ Resumable = <<p, k>> /\ p \in Ids /\ k \in Ids
         /\ event[p].status = "stopped" /\ event[p].lane = "production"
         /\ event[k].status = "stopped" /\ event[k].lane = "canary"
  <2>1. /\ p # 0 => p \in Ids /\ event[p].lane = "production"
        /\ k # 0 => k \in Ids /\ event[k].lane = "canary"
    BY PointersShow DEF InLane
  <2>2. CASE Shown({"stopped"}) # <<>>
    BY <2>1, <2>2, ShownCases DEF Resumable
  <2>3. CASE Shown({"stopped"}) = <<>>
    <3>1. Resumable = <<LatestEvent>> /\ event[LatestEvent].status = "stopped"
      BY <2>3 DEF Resumable, StartLine
    <3> QED
      BY <1>0, <3>1, LatestIsAnEvent
  <2> QED
    BY <2>2, <2>3
<1>3. CASE \E e \in Ids : Resumable = <<e>> /\ event[e].status = "stopped"
  <2> PICK e \in Ids : Resumable = <<e>> /\ event[e].status = "stopped"
    BY <1>3
  <2>1. Begin(c, "startLine", Resumed(e))
    BY <1>1
  <2>2. CASE \E w, x : Resumed(e) = <<w, x>> /\ Released(w) /\ Brings(x, w.version)
    BY <1>0, <2>1, <2>2, TwoGood DEF GoodStart, TwoLeft
  <2>3. CASE \E w : Resumed(e) = <<w>> /\ Candidate(w)
    BY <1>0, <2>1, <2>3, OneGood DEF GoodStart, OneLeft
  <2> QED
    BY <2>2, <2>3, ResumedIs
<1>4. CASE /\ Resumable = <<p, k>> /\ p \in Ids /\ k \in Ids
           /\ event[p].status = "stopped" /\ event[p].lane = "production"
           /\ event[k].status = "stopped" /\ event[k].lane = "canary"
  <2>1. Begin(c, "startLine", Resumed(p) \o Resumed(k))
    BY <1>1, <1>4
  <2> PICK w, x : /\ Resumed(p) = <<w, x>> /\ Released(w) /\ Brings(x, w.version)
                  /\ w.operation \notin CancelsCanary /\ w.at = Now
    BY <1>4, ResumedIs
  <2> PICK y : Resumed(k) = <<y>> /\ Candidate(y) /\ y.at = Now
    BY <1>4, ResumedIs
  <2> DEFINE s == <<w, x>> \o <<y>>
  <2>2. Begin(c, "startLine", s)
    BY <2>1
  <2>3. /\ s \in Seq({w, x, y}) /\ Len(s) = 3 /\ s[1] = w /\ s[2] = x /\ s[3] = y
    OBVIOUS
  <2>4. ThreeLeft(w, x, y)
    BY DEF ThreeLeft
  <2> HIDE DEF s
  <2>5. Good(s)
    <3>1. IsSeq(s)
      BY <2>3, SeqIsSeq
    <3>2. s # <<>>
      <4>1. Len(s) # Len(<<>>)
        BY <2>3
      <4> QED
        BY <4>1
    <3> QED
      BY <2>3, <2>4, <3>1, <3>2 DEF Good, TodoOK
  <2> QED
    BY <1>0, <2>2, <2>5 DEF GoodStart
<1> QED
  BY <1>2, <1>3, <1>4

\* What is shown is some events of the stream, the pointers among them.
LEMMA ShownAre ==
  ASSUME Quietly, event # <<>>, NEW S
  PROVE  \E s :
           /\ s = ShownOrLatest(S) /\ IsSeq(s) /\ Len(s) \in {1, 2} /\ DOMAIN s = 1..Len(s)
           /\ \A i \in DOMAIN s : s[i] \in Ids
           /\ \A p \in {line.production, line.canary} :
                p # 0 /\ event[p].status \in S => \E i \in DOMAIN s : s[i] = p
           /\ Len(s) = 2 => /\ event[s[1]].lane = "production" /\ event[s[2]].lane = "canary"
                            /\ event[s[1]].status \in S /\ event[s[2]].status \in S
           /\ Len(s) = 1 => /\ event[s[1]].lane \in Lanes
                            /\ event[s[1]].status \in S
                               \/ \A p \in {line.production, line.canary} :
                                    p = 0 \/ event[p].status \notin S
<1> PICK p, k : p = line.production /\ k = line.canary
  OBVIOUS
<1>0. Stream /\ \A e \in Ids : event[e].lane \in Lanes
  BY EventFacts DEF Quietly, Settled, Base
<1>1. /\ p # 0 => p \in Ids /\ event[p].lane = "production"
      /\ k # 0 => k \in Ids /\ event[k].lane = "canary"
  BY PointersShow DEF InLane
<1> DEFINE in(e) == e # 0 /\ event[e].status \in S
           s == ShownOrLatest(S)
<1>2. ASSUME NEW e
      PROVE  Len(<<e>>) = 1 /\ DOMAIN <<e>> = 1..1 /\ <<e>>[1] = e
  OBVIOUS
<1>3. Len(<<p, k>>) = 2 /\ DOMAIN <<p, k>> = 1..2 /\ <<p, k>>[1] = p /\ <<p, k>>[2] = k
  OBVIOUS
<1>4. IsSeq(s)
  BY ShownIsSeq
<1>5. \/ ~in(p) /\ ~in(k) /\ s = <<LatestEvent>>
      \/ in(p) /\ ~in(k) /\ s = <<p>>
      \/ ~in(p) /\ in(k) /\ s = <<k>>
      \/ in(p) /\ in(k) /\ s = <<p, k>>
  BY ShownCases DEF ShownOrLatest
<1> HIDE DEF s
<1>6. CASE in(p) /\ in(k) /\ s = <<p, k>>
  <2>1. Len(s) = 2 /\ DOMAIN s = 1..Len(s) /\ s[1] = p /\ s[2] = k
    BY <1>3, <1>6
  <2>2. \A i \in DOMAIN s : s[i] \in Ids
    BY <1>1, <1>6, <2>1
  <2>3. \A x \in {p, k} : \E i \in DOMAIN s : s[i] = x
    <3>1. 1 \in DOMAIN s /\ 2 \in DOMAIN s
      BY <2>1
    <3> QED
      BY <2>1, <3>1
  <2> QED
    BY <1>1, <1>4, <1>6, <2>1, <2>2, <2>3 DEF s
<1>7. ASSUME NEW e \in Ids, s = <<e>>,
             in(e) \/ (~in(p) /\ ~in(k)), in(p) => e = p, in(k) => e = k
      PROVE  /\ Len(s) = 1 /\ DOMAIN s = 1..Len(s) /\ \A i \in DOMAIN s : s[i] \in Ids
             /\ \A x \in {p, k} : in(x) => \E i \in DOMAIN s : s[i] = x
             /\ event[s[1]].lane \in Lanes
             /\ event[s[1]].status \in S \/ (~in(p) /\ ~in(k))
  BY <1>0, <1>2, <1>7
<1>8. CASE ~in(p) /\ ~in(k) /\ s = <<LatestEvent>>
  BY <1>0, <1>4, <1>7, <1>8, LatestIsAnEvent DEF s
<1>9. CASE in(p) /\ ~in(k) /\ s = <<p>>
  BY <1>1, <1>4, <1>7, <1>9 DEF s
<1>10. CASE ~in(p) /\ in(k) /\ s = <<k>>
  BY <1>1, <1>4, <1>7, <1>10 DEF s
<1> QED
  BY <1>5, <1>6, <1>8, <1>9, <1>10

LEMMA ArchiveLineIsGood ==
  ASSUME Quietly, NEW c \in Clients, ArchiveLine(c)
  PROVE  GoodStart
<1>0. c \in Actors /\ Stream /\ event # <<>>
  BY DEF Actors, Quietly, Settled, Base, ArchiveLine
<1> PICK shown :
      /\ shown = ShownOrLatest(Statuses) /\ IsSeq(shown) /\ Len(shown) \in {1, 2}
      /\ DOMAIN shown = 1..Len(shown) /\ \A i \in DOMAIN shown : shown[i] \in Ids
      /\ \A p \in {line.production, line.canary} :
           p # 0 /\ event[p].status \in Statuses => \E i \in DOMAIN shown : shown[i] = p
  BY <1>0, ShownAre
<1> DEFINE copies == [i \in DOMAIN shown |-> Archived(shown[i])]
           w == [NoWrite EXCEPT !.do = "archive", !.at = Now, !.events = copies,
                                !.production = line.production, !.canary = line.canary]
<1>1. Begin(c, "archive", <<w>>)
  BY DEF ArchiveLine, Request
<1>2. /\ w.do = "archive" /\ w.events = copies
      /\ w.production = line.production /\ w.canary = line.canary
  BY DEF NoWrite
<1>3. \A e \in Ids : /\ Copy(Archived(e)) /\ Archived(e).at = Now /\ Archived(e) \in EventSet
                     /\ Archived(e).lane = event[e].lane
  <2> TAKE e \in Ids
  <2>1. /\ event[e].version \in Versions /\ event[e].root \in Nat /\ event[e].root <= Len(event)
        /\ event[e].lane \in Lanes /\ (event[e].lane = "canary" => event[e].root # 0)
        /\ (event[e].lane = "production" => Known(event[e].root))
    BY <1>0, EventFacts
  <2>2. Now \in Nat /\ \A f \in Ids : event[f].at <= Now
    BY <1>0, NowIsLatest DEF Quietly
  <2>3. Archived(e) \in EventSet
    BY <2>1, <2>2 DEF Archived, EventSet, Statuses, Reasons
  <2> QED
    BY <2>1, <2>2, <2>3 DEF Copy, Archived
<1>4. \A i \in DOMAIN shown : copies[i] = Archived(shown[i])
  OBVIOUS
<1>5. copies \in Seq(EventSet) /\ Len(copies) = Len(shown) /\ DOMAIN copies = DOMAIN shown
  <2>1. copies \in [1..Len(shown) -> EventSet]
    BY <1>3
  <2> HIDE DEF copies
  <2>2. Len(shown) \in Nat
    OBVIOUS
  <2> QED
    BY <2>1, <2>2
<1> HIDE DEF copies, w
<1>6. copies # <<>>
  <2>1. Len(copies) # Len(<<>>)
    BY <1>5
  <2> QED
    BY <2>1
<1>7. ~Dark => ~AnyRunning
  <2>1. Shown({"running"}) = <<>>
    BY DEF ArchiveLine
  <2>2. \A p \in {line.production, line.canary} : p = 0 \/ event[p].status # "running"
    <3> PICK p, k : p = line.production /\ k = line.canary
      OBVIOUS
    <3>1. <<p>> # <<>> /\ <<k>> # <<>> /\ <<p, k>> # <<>>
      OBVIOUS
    <3> DEFINE in(e) == e # 0 /\ event[e].status \in {"running"}
    <3>2. \/ ~in(p) /\ ~in(k) /\ Shown({"running"}) = <<>>
          \/ in(p) /\ ~in(k) /\ Shown({"running"}) = <<p>>
          \/ ~in(p) /\ in(k) /\ Shown({"running"}) = <<k>>
          \/ in(p) /\ in(k) /\ Shown({"running"}) = <<p, k>>
      BY ShownCases
    <3> HIDE DEF in
    <3>3. ~in(p) /\ ~in(k)
      BY <2>1, <3>1, <3>2
    <3> QED
      BY <3>3 DEF in
  <2>3. ASSUME ~Dark, NEW e \in Ids, event[e].status = "running" PROVE FALSE
    <3>1. event[e].lane \in Lanes /\ e # 0
      BY <1>0, EventFacts, StreamFacts
    <3>2. e \in Running("production") \/ e \in Running("canary")
      BY <2>3, <3>1 DEF Running, In, Lanes
    <3> QED
      BY <2>2, <2>3, <3>1, <3>2, PointersShow
  <2> QED
    BY <2>3 DEF AnyRunning
<1>8. ASSUME NEW p \in {line.production, line.canary}, p # 0
      PROVE  \E i \in DOMAIN copies : copies[i].lane = event[p].lane
  <2>1. p \in Ids /\ event[p].status \in Statuses
    BY <1>0, <1>8, PointersShow, EventFacts
  <2> QED
    BY <1>3, <1>4, <1>5, <1>8, <2>1
<1>9. /\ line.production # 0 => event[line.production].lane = "production"
      /\ line.canary # 0 => event[line.canary].lane = "canary"
  BY PointersShow DEF InLane
<1>10. \A i, j \in DOMAIN copies : Copy(copies[i]) /\ copies[i].at = copies[j].at
  BY <1>3, <1>4, <1>5
<1>11. Archives(w)
  BY <1>0, <1>2, <1>5, <1>6, <1>7, <1>8, <1>9, <1>10 DEF Archives
<1> QED
  BY <1>0, <1>1, <1>11, OneGood DEF GoodStart, OneLeft

\* An event comes back stopped, whichever lane it is of.
LEMMA UnarchivedIs ==
  ASSUME Quietly, line.status = "archived", NEW e \in Ids, Dark \/ event[e].status = "archived"
  PROVE  /\ event[e].lane = "production" =>
              Resting(Unarchived(e)) /\ Unarchived(e).operation \notin CancelsCanary
         /\ event[e].lane = "canary" => Candidate(Unarchived(e))
         /\ Unarchived(e).at = Now
<1> DEFINE w == Unarchived(e)
<1>1. /\ Written(w, event[e].lane, "unarchive_line", "stopped", event[e].version, event[e].root)
      /\ "unarchive_line" \notin CancelsCanary
  BY AgainIs DEF Unarchived, CancelsCanary
<1> HIDE DEF w
<1>2. CASE event[e].lane = "production"
  <2>1. Production(w, "stopped") /\ Known(w.root)
    BY <1>1, <1>2, WrittenProduction
  <2>2. ~Dark => Running("production") = {}
    BY DEF Quietly, Settled, Base, Open, Shelved, AnyRunning, Running, In
  <2> QED
    BY <1>1, <1>2, <2>1, <2>2 DEF Resting, Written, w
<1>3. CASE event[e].lane = "canary"
  <2>1. Candidate(w)
    BY <1>1, <1>3, WrittenCandidate
  <2> QED
    BY <1>1, <1>3, <2>1 DEF Written, w
<1>4. event[e].lane \in Lanes
  BY EventFacts DEF Quietly, Settled, Base
<1> QED
  BY <1>2, <1>3, <1>4 DEF Lanes

LEMMA UnarchiveLineIsGood ==
  ASSUME Quietly, NEW c \in Clients, UnarchiveLine(c)
  PROVE  GoodStart
<1>0. c \in Actors /\ Stream /\ event # <<>> /\ line.status = "archived"
  BY DEF Actors, Quietly, Settled, Base, UnarchiveLine
<1> PICK shown :
      /\ shown = ShownOrLatest({"archived"}) /\ IsSeq(shown) /\ Len(shown) \in {1, 2}
      /\ DOMAIN shown = 1..Len(shown) /\ \A i \in DOMAIN shown : shown[i] \in Ids
      /\ Len(shown) = 2 =>
           /\ event[shown[1]].lane = "production" /\ event[shown[2]].lane = "canary"
           /\ event[shown[1]].status \in {"archived"} /\ event[shown[2]].status \in {"archived"}
      /\ Len(shown) = 1 =>
           /\ event[shown[1]].lane \in Lanes
           /\ event[shown[1]].status \in {"archived"}
              \/ \A p \in {line.production, line.canary} : p = 0 \/ event[p].status \notin {"archived"}
  BY <1>0, ShownAre
<1> DEFINE todo == [i \in DOMAIN shown |-> Unarchived(shown[i])]
<1>1. Begin(c, "unarchive", todo)
  BY DEF UnarchiveLine, Request
<1>2. todo = [i \in DOMAIN shown |-> todo[i]] /\ \A i \in DOMAIN shown : todo[i] = Unarchived(shown[i])
  OBVIOUS
<1> HIDE DEF todo
<1>3. IsSeq(todo) /\ Len(todo) = Len(shown) /\ Len(shown) > 0
  BY <1>2, MappedIsSeq
<1>4. todo # <<>>
  <2>1. Len(todo) # Len(<<>>)
    BY <1>3
  <2> QED
    BY <2>1
<1>5. CASE Len(shown) = 1
  <2>1. shown[1] \in Ids /\ event[shown[1]].lane \in Lanes /\ todo[1] = Unarchived(shown[1])
    BY <1>2, <1>5
  <2>2. Dark \/ event[shown[1]].status = "archived"
    BY <1>0, <1>5 DEF Quietly, Settled, Base, Open, Shelved
  <2>3. OneLeft(todo[1])
    BY <1>0, <2>1, <2>2, UnarchivedIs DEF OneLeft, Lanes
  <2> QED
    BY <1>1, <1>0, <1>3, <1>4, <1>5, <2>3 DEF GoodStart, Good, TodoOK
<1>6. CASE Len(shown) = 2
  <2> 1 \in DOMAIN shown /\ 2 \in DOMAIN shown
    BY <1>6
  <2>1. /\ shown[1] \in Ids /\ todo[1] = Unarchived(shown[1])
        /\ shown[2] \in Ids /\ todo[2] = Unarchived(shown[2])
    BY <1>2
  <2>2. /\ event[shown[1]].lane = "production" /\ event[shown[1]].status = "archived"
        /\ event[shown[2]].lane = "canary" /\ event[shown[2]].status = "archived"
    BY <1>6
  <2>3. TwoLeft(todo[1], todo[2])
    BY <1>0, <2>1, <2>2, UnarchivedIs DEF TwoLeft
  <2> QED
    BY <1>1, <1>0, <1>3, <1>4, <1>6, <2>3 DEF GoodStart, Good, TodoOK
<1> QED
  BY <1>5, <1>6

-----------------------------------------------------------------------------
(* What a request starts, and what a write leaves.                          *)

\* A line that does not change keeps what its requests have left to write.
LEMMA SameLine ==
  ASSUME event' = event, line' = line, online' = online, happened' = happened
  PROVE  /\ Settled => Settled'
         /\ \A w : OneLeft(w) => OneLeft(w)'
         /\ \A v, w : TwoLeft(v, w) => TwoLeft(v, w)'
         /\ \A u, v, w : ThreeLeft(u, v, w) => ThreeLeft(u, v, w)'
<1>1. Ids' = Ids /\ (Dark' <=> Dark) /\ Active' = Active /\ (Open' <=> Open)
  BY DEF Ids, Dark, Active, In, Open
<1>2. /\ Base => Base'
      /\ Pointers => Pointers'
      /\ Lit => Lit'
      /\ Continuing => Continuing'
      /\ \A v : RightVersion(v) => RightVersion(v)'
      /\ AnyRunning' <=> AnyRunning
      /\ Running("production")' = Running("production")
      /\ \A r : (Promoted(r) => Promoted(r)') /\ (Continues(r) => Continues(r)')
  BY <1>1, StreamAlone, StateAlone
<1>3. Settled => Settled'
  BY <1>2 DEF Settled
<1>4. \A r : Known(r) => Known(r)'
  BY <1>2 DEF Known
<1>5. \A w : Fresh(w) => Fresh(w)'
  BY <1>1 DEF Fresh
<1>6. \A w : Candidate(w) => Candidate(w)'
  BY <1>1, <1>2, <1>5 DEF Candidate
<1>7. \A w, status : Production(w, status) => Production(w, status)'
  BY <1>5 DEF Production
<1>8. \A w : /\ Released(w) => Released(w)'
             /\ Kept(w) => Kept(w)'
             /\ Stops(w) => Stops(w)'
             /\ Resting(w) => Resting(w)'
  BY <1>1, <1>2, <1>4, <1>7 DEF Released, Kept, Stops, Resting
<1>9. \A w : /\ Completes(w) => Completes(w)'
             /\ Transits(w) => Transits(w)'
             /\ Refreshes(w) => Refreshes(w)'
             /\ Onlines(w) => Onlines(w)'
             /\ \A v : Brings(w, v) => Brings(w, v)'
  BY <1>1, <1>2 DEF Completes, Transits, Refreshes, Onlines, Brings, Ends
<1>10. \A w : Archives(w) => Archives(w)'
  <2>1. \A e : Copy(e) => Copy(e)'
    BY <1>1, <1>4 DEF Copy
  <2> QED
    BY <1>1, <1>2, <2>1 DEF Archives
<1>11. \A v, w : Promotes(v, w) => Promotes(v, w)'
  BY <1>7, <1>9 DEF Promotes
<1>12. \A w : OneLeft(w) => OneLeft(w)'
  BY <1>6, <1>8, <1>9, <1>10 DEF OneLeft
<1>13. \A v, w : TwoLeft(v, w) => TwoLeft(v, w)'
  BY <1>6, <1>8, <1>9, <1>11 DEF TwoLeft
<1>14. \A u, v, w : ThreeLeft(u, v, w) => ThreeLeft(u, v, w)'
  BY <1>6, <1>8, <1>9 DEF ThreeLeft
<1> QED
  BY <1>3, <1>12, <1>13, <1>14

LEMMA SettledIsSound == ASSUME Settled, NEW todo, Good(todo) PROVE Sound(todo)
BY DEF Settled, Good, Sound

LEMMA SameSound ==
  ASSUME event' = event, line' = line, online' = online, happened' = happened, NEW todo
  PROVE  Sound(todo) => Sound(todo)'
<1>1. TodoOK(todo) => TodoOK(todo)'
  BY SameLine DEF TodoOK
<1>2. Ids' = Ids /\ (Dark' <=> Dark)
  BY DEF Ids, Dark
<1>3. /\ Base => Base'
      /\ Pointers => Pointers'
      /\ Lit => Lit'
      /\ Continuing => Continuing'
      /\ RightVersion(online) => RightVersion(online)'
  <2>1. \A v : RightVersion(v) => RightVersion(v)'
    BY <1>2, StreamAlone
  <2>2. RightVersion(online) => RightVersion(online)'
    BY <1>2 DEF RightVersion, Running, In
  <2> QED
    BY <1>2, <2>2, StreamAlone, StateAlone
<1> QED
  BY <1>1, <1>3 DEF Sound

\* A line on which nobody is at work is settled, and one that is settled is
\* sound for every request that may begin.
LEMMA QuietIsSettled ==
  ASSUME LineInv, Orderly, ~Busy
  PROVE  Settled
<1> PICK todo : Left(todo) /\ Sound(todo)
  BY DEF LineInv
<1>1. todo = <<>>
  <2>1. ASSUME NEW a \in Actors, req[a].todo = todo, todo # <<>> PROVE FALSE
    <3>1. req[a] = Idle
      BY DEF Busy
    <3> QED
      BY <2>1, <3>1 DEF Idle
  <2> QED
    BY <2>1 DEF Left
<1> QED
  BY <1>1 DEF Sound, Awaits, Settled

LEMMA BeginSound ==
  ASSUME IInv, Settled, ~Busy, NEW a \in Actors, NEW operation, NEW todo,
         Begin(a, operation, todo), Good(todo)
  PROVE  LineInv'
<1> DEFINE r == [op |-> operation, saw |-> line.status = "running" \/ AnyRunning, todo |-> todo]
<1>1. /\ event' = event /\ line' = line /\ online' = online /\ happened' = happened
      /\ req' = [req EXCEPT ![a] = r]
  BY DEF Begin
<1>2. r.todo = todo
  OBVIOUS
<1> HIDE DEF r
<1>3. req'[a] = r /\ \A b \in Actors \ {a} : req'[b] = Idle
  BY <1>1 DEF IInv, RequestsOK, Busy
<1>4. Sound(todo)'
  BY <1>1, SettledIsSound, SameSound
<1>5. Left(todo)'
  BY <1>2, <1>3 DEF Left, Good
<1>6. todo \in {req'[b].todo : b \in Actors}
  BY <1>2, <1>3
<1> QED
  BY <1>4, <1>5, <1>6 DEF LineInv

\* A request that begins while another one is at work is a race.
LEMMA BusyBegin ==
  ASSUME Busy, NEW a, NEW operation, NEW todo, Begin(a, operation, todo)
  PROVE  ~Orderly'
BY DEF Begin, Fault, Orderly, FaultKinds

LEMMA CrashIsNone == ASSUME Crash PROVE ~Orderly'
BY DEF Crash, Fault, Orderly, FaultKinds

LEMMA ZeroLen == ASSUME NEW s, IsSeq(s), Len(s) = 0 PROVE s = <<>>
BY EmptySeq DEF IsSeq

\* One write of the request that is at work.
LEMMA WriteSound ==
  ASSUME NEW todo, Sound(todo), todo # <<>>, Writes(todo[1])
  PROVE  Sound(Tail(todo))'
<1> DEFINE rest == Tail(todo)
<1>1. /\ IsSeq(rest) /\ Len(todo) \in Nat /\ Len(rest) = Len(todo) - 1
      /\ \A i \in 1..Len(rest) : rest[i] = todo[i + 1]
  BY TailIsSeq, SeqLen DEF Sound
<1>2. Almost(todo[1].do)
  BY DEF Sound, Awaits, Almost
<1> HIDE DEF rest
<1>3. CASE Len(todo) = 1
  <2>1. OneLeft(todo[1])
    BY <1>3 DEF Sound, TodoOK
  <2>2. Settled'
    BY <1>2, <2>1, OneSettles
  <2>3. rest = <<>>
    BY <1>1, <1>3, ZeroLen
  <2> QED
    BY <1>1, <2>2, <2>3 DEF Sound, TodoOK, Settled, rest
<1>4. CASE Len(todo) = 2
  <2>1. TwoLeft(todo[1], todo[2])
    BY <1>4 DEF Sound, TodoOK
  <2>2. Almost(todo[2].do)' /\ OneLeft(todo[2])'
    BY <1>2, <2>1, TwoSettle
  <2>3. Len(rest) = 1 /\ rest[1] = todo[2]
    BY <1>1, <1>4
  <2>4. rest # <<>>
    <3>1. Len(rest) # Len(<<>>)
      BY <2>3
    <3> QED
      BY <3>1
  <2>5. Sound(rest)'
    BY <1>1, <2>2, <2>3, <2>4 DEF Sound, TodoOK, Almost, Awaits
  <2> QED
    BY <2>5 DEF rest
<1>5. CASE Len(todo) = 3
  <2>1. ThreeLeft(todo[1], todo[2], todo[3])
    BY <1>5 DEF Sound, TodoOK
  <2>2. Almost(todo[2].do)' /\ TwoLeft(todo[2], todo[3])'
    BY <1>2, <2>1, ThreeSettle
  <2>3. Len(rest) = 2 /\ rest[1] = todo[2] /\ rest[2] = todo[3]
    BY <1>1, <1>5
  <2>4. rest # <<>>
    <3>1. Len(rest) # Len(<<>>)
      BY <2>3
    <3> QED
      BY <3>1
  <2>5. Sound(rest)'
    BY <1>1, <2>2, <2>3, <2>4 DEF Sound, TodoOK, Almost, Awaits
  <2> QED
    BY <2>5 DEF rest
<1> QED
  BY <1>3, <1>4, <1>5 DEF Sound, TodoOK

LEMMA WriteKeepsLine ==
  ASSUME IInv, LineInv, NEW a \in Actors, Write(a)
  PROVE  LineInv'
<1> SUFFICES ASSUME Orderly' PROVE LineInv'
  BY DEF LineInv
<1>1. Writes(Head(req[a].todo)) /\ req[a].todo # <<>>
  BY DEF Write, Writes
<1>2. happened' = happened \/ happened' = happened \cup {"dark"}
  BY <1>1 DEF Writes, Record, Complete, SetOnline, Archive, Transition, Refresh
<1>3. Orderly
  BY <1>2 DEF Orderly, FaultKinds
<1> PICK todo : Left(todo) /\ Sound(todo)
  BY <1>3 DEF LineInv
<1>4. Busy /\ req[a] # Idle
  BY <1>1 DEF Busy, Idle
<1>5. todo # <<>> /\ todo = req[a].todo /\ \A b \in Actors \ {a} : req[b] = Idle
  BY <1>4 DEF Left
<1>6. todo[1] = Head(todo) /\ IsSeq(Tail(todo)) /\ Len(Tail(todo)) = Len(todo) - 1 /\ Len(todo) \in Nat
  BY <1>5, TailIsSeq, SeqLen DEF Sound
<1>7. Sound(Tail(todo))'
  BY <1>1, <1>5, <1>6, WriteSound
<1> DEFINE r == IF Len(todo) = 1 THEN Idle ELSE [req[a] EXCEPT !.todo = Tail(todo)]
<1>8. req' = [req EXCEPT ![a] = r]
  BY <1>5 DEF Write
<1>9. {"op", "saw", "todo"} \subseteq DOMAIN req[a]
  BY DEF IInv, RequestsOK, RequestOK
<1>10. r.todo = Tail(todo) /\ (Tail(todo) = <<>> => r = Idle)
  <2>1. CASE Len(todo) = 1
    <3>1. Len(Tail(todo)) = 0
      BY <1>6, <2>1
    <3>2. Tail(todo) = <<>>
      BY <1>6, <3>1, ZeroLen
    <3> QED
      BY <2>1, <3>2 DEF Idle
  <2>2. CASE Len(todo) # 1
    <3>1. Tail(todo) # <<>>
      <4>1. Len(Tail(todo)) # Len(<<>>)
        BY <1>6, <2>2
      <4> QED
        BY <4>1
    <3> QED
      BY <1>9, <2>2, <3>1
  <2> QED
    BY <2>1, <2>2
<1> HIDE DEF r
<1>11. req'[a] = r /\ \A b \in Actors \ {a} : req'[b] = Idle
  BY <1>5, <1>8 DEF IInv, RequestsOK
<1>12. Left(Tail(todo))'
  <2>1. CASE Tail(todo) = <<>>
    BY <1>10, <1>11, <2>1 DEF Left, Busy
  <2>2. CASE Tail(todo) # <<>>
    BY <1>10, <1>11, <2>2 DEF Left
  <2> QED
    BY <2>1, <2>2
<1>13. Tail(todo) \in {req'[b].todo : b \in Actors}
  BY <1>10, <1>11
<1> QED
  BY <1>7, <1>12, <1>13 DEF LineInv

LEMMA LineAtFirst == Init => LineInv
<1> SUFFICES ASSUME Init PROVE LineInv
  OBVIOUS
<1>1. /\ event = <<>> /\ Ids = {} /\ Len(event) = 0
      /\ line = [status |-> "none", production |-> 0, canary |-> 0] /\ online = None
      /\ ~Busy /\ ~Dark
  BY DEF Init, Ids, Busy, Dark
<1>2. /\ \A lane, statuses : In(lane, statuses) = {}
      /\ \A lane : InLane(lane) = {}
  BY <1>1 DEF In, InLane
<1>3. Stream
  BY <1>1 DEF Stream, InOrder
<1>4. Base /\ Pointers /\ Lit
  BY <1>1, <1>2, <1>3 DEF Base, Shows, Open, Pointers, Topmost, Lit, AnyRunning
<1>5. RightVersion(online) /\ Continuing
  BY <1>1, <1>2 DEF RightVersion, Running, Continuing, Active
<1>6. IsSeq(<<>>)
  BY DEF IsSeq
<1>7. Left(<<>>) /\ Sound(<<>>)
  BY <1>1, <1>4, <1>5, <1>6 DEF Left, Sound, TodoOK
<1> QED
  BY <1>7 DEF LineInv

\* What a request does whose line nobody else is at work on.
LEMMA RequestKeepsLine ==
  ASSUME IInv, LineInv, \E a \in Actors : \E operation, todo : Begin(a, operation, todo),
         Quietly => GoodStart
  PROVE  LineInv'
<1>1. CASE Busy
  BY <1>1, BusyBegin DEF LineInv
<1>2. CASE ~Busy /\ ~Orderly
  <2>1. happened' = happened
    BY <1>2 DEF Begin
  <2> QED
    BY <1>2, <2>1 DEF LineInv, Orderly
<1>3. CASE ~Busy /\ Orderly
  <2>1. Quietly
    BY <1>3, QuietIsSettled DEF Quietly, IInv
  <2> QED
    BY <1>3, <2>1, BeginSound DEF GoodStart, Quietly
<1> QED
  BY <1>1, <1>2, <1>3

LEMMA RequestsBegin ==
  ASSUME NEW c \in Clients,
         \/ CreateProduction(c) \/ Rollback(c) \/ ForceStop(c)
         \/ CreateCanary(c) \/ StartCanary(c) \/ StopCanary(c) \/ CancelCanary(c)
         \/ Promote(c) \/ Adjust(c) \/ StartLine(c)
         \/ ArchiveLine(c) \/ UnarchiveLine(c) \/ RestoreHistory(c)
  PROVE  \E a \in Actors : \E operation, todo : Begin(a, operation, todo)
<1>0. c \in Actors
  BY DEF Actors
<1>1. \E operation, todo : Request(c, operation, todo)
  <2>1. CASE CreateProduction(c) BY <2>1 DEF CreateProduction
  <2>2. CASE Rollback(c) BY <2>2 DEF Rollback
  <2>3. CASE ForceStop(c) BY <2>3 DEF ForceStop
  <2>4. CASE CreateCanary(c) BY <2>4 DEF CreateCanary
  <2>5. CASE StartCanary(c) BY <2>5 DEF StartCanary
  <2>6. CASE StopCanary(c) BY <2>6 DEF StopCanary
  <2>7. CASE CancelCanary(c) BY <2>7 DEF CancelCanary
  <2>8. CASE Promote(c) BY <2>8 DEF Promote
  <2>9. CASE Adjust(c) BY <2>9 DEF Adjust
  <2>10. CASE StartLine(c) BY <2>10 DEF StartLine
  <2>11. CASE ArchiveLine(c) BY <2>11 DEF ArchiveLine
  <2>12. CASE UnarchiveLine(c) BY <2>12 DEF UnarchiveLine
  <2>13. CASE RestoreHistory(c) BY <2>13 DEF RestoreHistory
  <2> QED
    BY <2>1, <2>2, <2>3, <2>4, <2>5, <2>6, <2>7, <2>8, <2>9, <2>10, <2>11, <2>12, <2>13
<1> QED
  BY <1>0, <1>1 DEF Request

LEMMA LineStep ==
  ASSUME IInv, LineInv, [Next]_vars
  PROVE  LineInv'
<1>1. ASSUME NEW c \in Clients,
             \/ CreateProduction(c) \/ Rollback(c) \/ ForceStop(c)
             \/ CreateCanary(c) \/ StartCanary(c) \/ StopCanary(c) \/ CancelCanary(c)
             \/ Promote(c) \/ Adjust(c) \/ StartLine(c)
             \/ ArchiveLine(c) \/ UnarchiveLine(c) \/ RestoreHistory(c)
      PROVE  LineInv'
  <2>1. Quietly => GoodStart
    BY <1>1, ReleasesAreGood, CandidatesAreGood, EditsAreGood, StartLineIsGood, ArchiveLineIsGood,
       UnarchiveLineIsGood
  <2> QED
    BY <1>1, <2>1, RequestsBegin, RequestKeepsLine
<1>2. ASSUME Scan PROVE LineInv'
  <2>1. \E a \in Actors : \E operation, todo : Begin(a, operation, todo)
    BY <1>2 DEF Scan, Actors
  <2> QED
    BY <1>2, <2>1, ScanIsGood, RequestKeepsLine
<1>3. ASSUME NEW a \in Actors, Write(a) PROVE LineInv'
  BY <1>3, WriteKeepsLine
<1>4. ASSUME Crash PROVE LineInv'
  BY <1>4, CrashIsNone DEF LineInv
<1>5. ASSUME UNCHANGED vars PROVE LineInv'
  <2>1. event' = event /\ line' = line /\ online' = online /\ happened' = happened /\ req' = req
    BY <1>5 DEF vars
  <2>2. \A todo : (Left(todo) => Left(todo)') /\ (Sound(todo) => Sound(todo)')
    BY <2>1, SameSound DEF Left, Busy
  <2> QED
    BY <2>1, <2>2 DEF LineInv, Orderly
<1> QED
  BY <1>1, <1>2, <1>3, <1>4, <1>5 DEF Next

-----------------------------------------------------------------------------
(* The theorems.                                                            *)

\* Nothing a line shows is younger than what runs on it.
LEMMA SettledTells ==
  ASSUME Settled, NoTwo
  PROVE  /\ line.production = Slot(event, "production") /\ line.canary = Slot(event, "canary")
         /\ "dark" \notin happened =>
              /\ (line.status = "running") = AnyRunning
              /\ Running("production") \cup Running("canary") \subseteq {line.production, line.canary}
         /\ Running("production") = {} => online = None
         /\ \A e \in Running("production") : event[e].root = 0 => online = event[e].version
<1>1. Stream /\ (~Dark => Shows)
  BY DEF Settled, Base
<1>2. line.production = Slot(event, "production")
  BY <1>1, SlotsShow, InLaneFacts, TopmostIsOne DEF Settled, Pointers
<1>3. line.canary = Slot(event, "canary")
  BY <1>1, SlotsShow, InLaneFacts, TopmostIsOne DEF Settled, Pointers
<1>4. ASSUME "dark" \notin happened
      PROVE  /\ (line.status = "running") = AnyRunning
             /\ Running("production") \cup Running("canary") \subseteq {line.production, line.canary}
  <2>1. ~Dark
    BY <1>4 DEF Dark
  <2>2. line.status = "running" <=> AnyRunning
    BY <2>1 DEF Settled, Lit
  <2>3. AnyRunning \in BOOLEAN
    BY DEF AnyRunning
  <2>4. ASSUME NEW e \in Running("production") \cup Running("canary")
        PROVE  e = line.production \/ e = line.canary
    <3>1. e \in Ids /\ event[e].status = "running" /\ event[e].lane \in {"production", "canary"}
      BY <2>4 DEF Running, In
    <3> QED
      BY <1>1, <2>1, <3>1, RunningIsShown DEF Settled, Pointers
  <2> QED
    BY <2>2, <2>3, <2>4
<1>5. RightVersion(online)
  BY DEF Settled
<1> QED
  BY <1>2, <1>3, <1>4, <1>5 DEF RightVersion

\* While requests come one after the other and no server stops, a line at rest
\* tells the truth: its pointers show the latest event of each lane, it runs
\* exactly if one of its events does, and the prompt's online version is that
\* of the production that runs.
THEOREM LineIsTruthful == Spec => []LineTellsTheTruth
<1>1. IInv /\ LineInv => LineTellsTheTruth
  BY QuietIsSettled, SettledTells DEF LineTellsTheTruth, Quiet, IInv
<1>2. IInv /\ LineInv /\ [Next]_vars => IInv' /\ LineInv'
  BY Step, LineStep
<1> QED
  BY <1>1, <1>2, Initially, LineAtFirst, PTL DEF Spec

\* While requests come one after the other and no server stops, a candidate
\* that was promoted, cancelled or completed does not come back to the canary
\* slot, unless the line was archived with it or lived on in the dark.
THEOREM EndedCandidatesStay == Spec => []EndedStaysEnded
<1>1. IInv /\ LineInv => EndedStaysEnded
  <2> SUFFICES ASSUME IInv, LineInv, Quiet, Orderly, "dark" \notin happened,
                      NEW r \in Candidates, Ended(r), \A e \in Of(r) : event[e].status # "archived",
                      NEW e \in Of(r), e \in Active
               PROVE  FALSE
    BY DEF EndedStaysEnded
  <2>1. Continuing
    BY QuietIsSettled DEF Quiet, Settled
  <2>2. event[e].root = r
    BY DEF Of
  <2> QED
    BY <2>1, <2>2 DEF Continuing, Continues, Dark
<1>2. IInv /\ LineInv /\ [Next]_vars => IInv' /\ LineInv'
  BY Step, LineStep
<1> QED
  BY <1>1, <1>2, Initially, LineAtFirst, PTL DEF Spec

-----------------------------------------------------------------------------
(* ReleaseRunner: the shape of its state.                                   *)

TaskSet == [pc : {"idle", "read", "route", "enqueue", "ack", "wait"}, owns : BOOLEAN,
            aborted : BOOLEAN, batch : Seq(Messages), msg : 0..MaxMessage,
            todo : Seq(Events), call : Events \cup {0}, group : Groups]
ScanSet == [pc : {"idle", "attach", "count", "push", "stop"}, todo : Seq(Events),
            found : Seq(Messages), canary : 0..MaxEvent]

\* A consumer or a call with a message in hand; the batch goes on behind it.
Handles(t) == t.pc \in {"route", "enqueue", "ack", "wait"}
TaskSound(t) ==
    /\ t.pc = "idle" => t = NoTask
    /\ t.pc = "read" => t.batch = <<>> /\ t.msg = 0 /\ Queue
    /\ Handles(t) => t.msg # 0 /\ \A i \in 1..Len(t.batch) : t.batch[i] = t.msg + i
    /\ t.pc = "enqueue" => t.todo # <<>>
    /\ t.call # 0 => driver = "sync"
    /\ t.pc = "wait" => t.call # 0
    /\ ~Queue => t.batch = <<>>
ScanSound(q) ==
    /\ q.pc = "idle" => q = NoScan
    /\ q.pc \in {"count", "push"} => q.todo # <<>>

LineShape ==
    /\ driver \in Drivers /\ mode \in {"split", "dual_run"}
    /\ [driver |-> driver, mode |-> mode, laneOf |-> laneOf] \in Lines \cap LineKinds
    /\ lanes \in LanesInForce(laneOf)
    /\ lanes \in [production : Events \cup {0}, canary : Events \cup {0}]
TaskShape == task \in [Servers -> TaskSet] /\ \A s \in Servers : TaskSound(task[s])
ScanShape == scan \in [Servers -> ScanSet] /\ \A s \in Servers : ScanSound(scan[s])
BrokerShape == lock \in BOOLEAN /\ taken \in [Groups -> 0..MaxMessage] /\ assignee \subseteq Servers
ResultShape ==
    /\ job \in [Events -> [Messages -> {"none", "queued", "row"}]]
    /\ rows \in [Events -> Seq(Messages)]
    /\ total \in [Events -> Nat]
    /\ pushed \in [Events -> [Messages -> Nat]]
PastShape == occurred \subseteq FailureKinds \cup {"change", "bare", "stop"}
RunnerShape ==
    LineShape /\ TaskShape /\ ScanShape /\ BrokerShape /\ ResultShape /\ PastShape

LEMMA ShapeOfTypes == RunnerShape => RunnerTypeOK
<1> SUFFICES ASSUME RunnerShape PROVE RunnerTypeOK
  OBVIOUS
<1>1. ASSUME NEW s \in Servers
      PROVE  task[s] \in TaskSet /\ scan[s] \in ScanSet
  BY DEF RunnerShape, TaskShape, ScanShape
<1> QED
  BY <1>1 DEF RunnerShape, LineShape, BrokerShape, ResultShape, PastShape, RunnerTypeOK,
              Line, TaskSet, ScanSet

LEMMA Bounds ==
  /\ MaxMessage \in Nat /\ MaxEvent \in Nat \ {0} /\ Batch \in Nat \ {0}
  /\ 1 \in Events /\ Events \subseteq Nat \ {0} /\ Messages \subseteq Nat \ {0}
  /\ Messages \subseteq 0..MaxMessage /\ 0 \in 0..MaxMessage
  /\ 0 \in 0..MaxEvent /\ Events \cup {0} \subseteq 0..MaxEvent
  /\ "own" \in Groups /\ "dual" \in Groups /\ \A g \in Groups : From(g) \in 0..MaxMessage
<1>1. MaxMessage \in Nat /\ MaxEvent \in Nat \ {0} /\ Batch \in Nat \ {0} /\ DualFrom \in 0..MaxMessage
  BY RunnerAssumption
<1> QED
  BY <1>1 DEF Messages, Events, Groups, From

LEMMA NoTaskSound == NoTask \in TaskSet /\ TaskSound(NoTask)
<1>1. <<>> \in Seq(Messages) /\ <<>> \in Seq(Events) /\ 0 \in 0..MaxMessage /\ "own" \in Groups
  BY Bounds
<1> QED
  BY <1>1 DEF NoTask, TaskSet, TaskSound, Handles

LEMMA NoScanSound == NoScan \in ScanSet /\ ScanSound(NoScan)
<1>1. <<>> \in Seq(Messages) /\ <<>> \in Seq(Events) /\ 0 \in 0..MaxEvent
  BY Bounds
<1> QED
  BY <1>1 DEF NoScan, ScanSet, ScanSound

LEMMA OneTask ==
  ASSUME TaskShape, driver' = driver, NEW s \in Servers,
         NEW t \in TaskSet, TaskSound(t), task' = [task EXCEPT ![s] = t]
  PROVE  /\ TaskShape' /\ task'[s] = t
         /\ \A r \in Servers : r # s => task'[r] = task[r]
<1>1. task' \in [Servers -> TaskSet]
  BY DEF TaskShape
<1>2. task'[s] = t /\ \A r \in Servers : r # s => task'[r] = task[r]
  BY DEF TaskShape
<1>3. \A r \in Servers : TaskSound(task'[r])
  BY <1>2 DEF TaskShape
<1>4. \A r \in Servers : TaskSound(task[r])'
  BY <1>3 DEF TaskSound, Handles, Queue
<1> QED
  BY <1>1, <1>2, <1>4 DEF TaskShape

LEMMA OneScan ==
  ASSUME ScanShape, NEW s \in Servers,
         NEW q \in ScanSet, ScanSound(q), scan' = [scan EXCEPT ![s] = q]
  PROVE  /\ ScanShape' /\ scan'[s] = q
         /\ \A r \in Servers : r # s => scan'[r] = scan[r]
<1>1. scan' \in [Servers -> ScanSet]
  BY DEF ScanShape
<1>2. scan'[s] = q /\ \A r \in Servers : r # s => scan'[r] = scan[r]
  BY DEF ScanShape
<1>3. \A r \in Servers : ScanSound(scan'[r])
  BY <1>2 DEF ScanShape
<1> QED
  BY <1>1, <1>2, <1>3 DEF ScanShape

LEMMA SameTasks ==
  ASSUME TaskShape, driver' = driver, task' = task PROVE TaskShape'
BY DEF TaskShape, TaskSound, Handles, Queue

LEMMA SameScans == ASSUME ScanShape, scan' = scan PROVE ScanShape'
BY DEF ScanShape

\* The next message of a batch that goes on behind k.
LEMMA HandlingFits ==
  ASSUME NEW t \in TaskSet, NEW batch \in Seq(Messages), NEW k \in Nat,
         \A i \in 1..Len(batch) : batch[i] = k + i,
         Queue \/ batch = <<>> \/ (~t.aborted /\ Len(batch) = 1),
         t.call # 0 => driver = "sync"
  PROVE  /\ Handling(t, batch) \in TaskSet /\ TaskSound(Handling(t, batch))
         /\ \/ Handling(t, batch) = NoTask /\ ~Queue /\ batch = <<>>
            \/ /\ Handling(t, batch).pc = "read" /\ Queue /\ (t.aborted \/ batch = <<>>)
               /\ Handling(t, batch).owns = t.owns /\ Handling(t, batch).aborted = t.aborted
            \/ /\ Handling(t, batch).pc = "route" /\ Handling(t, batch).msg = k + 1
               /\ batch # <<>> /\ Handling(t, batch).batch = Tail(batch)
               /\ Handling(t, batch).owns = t.owns /\ Handling(t, batch).aborted = t.aborted
               /\ Handling(t, batch).group = t.group
<1> DEFINE h == Handling(t, batch)
<1>1. CASE batch = <<>> /\ ~Queue
  BY <1>1, NoTaskSound DEF Handling
<1>2. CASE ~(batch = <<>> /\ ~Queue) /\ (batch = <<>> \/ t.aborted)
  <2>1. h = [t EXCEPT !.pc = "read", !.batch = <<>>, !.msg = 0] /\ Queue
    BY <1>2 DEF Handling
  <2> HIDE DEF h
  <2>2. /\ h \in TaskSet /\ h.pc = "read" /\ h.batch = <<>> /\ h.msg = 0 /\ h.call = t.call
        /\ h.owns = t.owns /\ h.aborted = t.aborted
    <3>1. 0 \in 0..MaxMessage /\ <<>> \in Seq(Messages)
      BY Bounds
    <3> QED
      BY <2>1, <3>1 DEF TaskSet
  <2> QED
    BY <1>2, <2>1, <2>2 DEF TaskSound, Handles, h
<1>3. CASE batch # <<>> /\ ~t.aborted
  <2>1. h = [t EXCEPT !.pc = "route", !.msg = Head(batch), !.batch = Tail(batch)]
    BY <1>3 DEF Handling
  <2>2. /\ Head(batch) = k + 1 /\ Head(batch) \in Messages /\ Tail(batch) \in Seq(Messages)
        /\ Len(Tail(batch)) = Len(batch) - 1
        /\ \A i \in 1..Len(Tail(batch)) : Tail(batch)[i] = (k + 1) + i
    BY <1>3
  <2> HIDE DEF h
  <2>3. /\ h \in TaskSet /\ h.pc = "route" /\ h.batch = Tail(batch) /\ h.msg = k + 1
        /\ h.call = t.call /\ h.owns = t.owns /\ h.aborted = t.aborted /\ h.group = t.group
    <3> DEFINE m == Head(batch)
               b == Tail(batch)
    <3>1. h = [t EXCEPT !.pc = "route", !.msg = m, !.batch = b]
      BY <2>1
    <3>2. m = k + 1 /\ m \in 0..MaxMessage /\ b \in Seq(Messages)
      BY <2>2, Bounds
    <3> HIDE DEF m, b
    <3>3. /\ h \in TaskSet /\ h.pc = "route" /\ h.batch = b /\ h.msg = m
          /\ h.call = t.call /\ h.owns = t.owns /\ h.aborted = t.aborted /\ h.group = t.group
      BY <3>1, <3>2 DEF TaskSet
    <3> QED
      BY <3>2, <3>3 DEF b
  <2>4. ~Queue => h.batch = <<>>
    BY <1>3, <2>3
  <2>5. TaskSound(h)
    BY <2>2, <2>3, <2>4 DEF TaskSound, Handles
  <2> QED
    BY <1>3, <2>3, <2>5 DEF h
<1> QED
  BY <1>1, <1>2, <1>3

LEMMA SmallerOfTwo ==
  ASSUME NEW a \in Int, NEW b \in Int
  PROVE  Min({a, b}) = IF a <= b THEN a ELSE b
<1>1. \E x \in {a, b} : \A y \in {a, b} : x <= y
  <2>1. CASE a <= b
    BY <2>1
  <2>2. CASE b <= a
    BY <2>2
  <2> QED
    BY <2>1, <2>2
<1>2. Min({a, b}) \in {a, b} /\ \A y \in {a, b} : Min({a, b}) <= y
  BY <1>1 DEF Min
<1> QED
  BY <1>2

\* The messages a consumer reads: those behind the offset, up to the batch.
LEMMA ReadFits ==
  ASSUME NEW k \in 0..MaxMessage, k < MaxMessage
  PROVE  /\ ReadEnd(k) \in (k + 1)..MaxMessage
         /\ TakenByRead(k) \in 0..MaxMessage
         /\ [i \in 1..(ReadEnd(k) - k) |-> k + i] \in Seq(Messages)
         /\ Len([i \in 1..(ReadEnd(k) - k) |-> k + i]) = ReadEnd(k) - k
<1>2. ReadEnd(k) \in (k + 1)..MaxMessage
  BY Bounds, SmallerOfTwo, k + Batch \in Int, MaxMessage \in Int DEF ReadEnd
<1>3. TakenByRead(k) \in 0..MaxMessage
  BY <1>2, Bounds DEF TakenByRead
<1> DEFINE n == ReadEnd(k) - k
<1>4. n \in Nat /\ n >= 1
  BY <1>2
<1>5. \A i \in 1..n : k + i \in Messages
  BY <1>2, Bounds DEF Messages
<1> HIDE DEF n
<1>6. [i \in 1..n |-> k + i] \in Seq(Messages) /\ Len([i \in 1..n |-> k + i]) = n
  BY <1>4, <1>5
<1> QED
  BY <1>2, <1>3, <1>6 DEF n

LEMMA InForceFits ==
  ASSUME LineShape
  PROVE  /\ InForce \in Seq(Events)
         /\ \A m \in Messages : Selected(m) \in Seq(Events)
<1>1. \A e \in Events \cup {0} : OfLane(e) \in Seq(Events)
  BY DEF OfLane
<1>2. lanes.production \in Events \cup {0} /\ lanes.canary \in Events \cup {0}
  BY DEF LineShape
<1> QED
  BY <1>1, <1>2 DEF InForce, Selected

\* What the members of the group are never holds a stranger.
LEMMA MembersFit ==
  ASSUME NEW s \in Servers, assignee \subseteq Servers
  PROVE  /\ \A g \in Groups : \A a \in Joins(s, g) : a \subseteq Servers
         /\ \A a \in Leaves(s) : a \subseteq Servers
BY DEF Joins, Leaves, Members

LEMMA StepChangeLanes == RunnerShape /\ ChangeLanes => RunnerShape' /\ driver' = driver /\ mode' = mode
<1> SUFFICES ASSUME RunnerShape, ChangeLanes
             PROVE  RunnerShape' /\ driver' = driver /\ mode' = mode
  OBVIOUS
<1> USE DEF RunnerShape
<1>1. PICK l \in LanesInForce(laneOf) :
         /\ lanes' = l
         /\ occurred' = occurred \cup {"change"} \cup (IF l.production = 0 THEN {"bare"} ELSE {})
         /\ UNCHANGED <<driver, mode, laneOf, broker, task, scan, job, results>>
  BY DEF ChangeLanes
<1> USE DEF broker, results
<1>2. l \in [production : Events \cup {0}, canary : Events \cup {0}]
  BY DEF LanesInForce
<1>3. lanes' \in LanesInForce(laneOf')
  BY <1>1
<1>4. LineShape'
  BY <1>1, <1>2, <1>3 DEF LineShape
<1>5. TaskShape' /\ ScanShape'
  BY <1>1, SameTasks, SameScans
<1>6. BrokerShape' /\ ResultShape' /\ PastShape'
  BY <1>1 DEF BrokerShape, ResultShape, PastShape
<1> QED
  BY <1>1, <1>4, <1>5, <1>6

\* What an action that leaves a group of variables alone keeps of the shape.
LEMMA KeptShape ==
  ASSUME RunnerShape
  PROVE  /\ UNCHANGED lineVars => LineShape'
         /\ UNCHANGED <<driver, task>> => TaskShape'
         /\ UNCHANGED scan => ScanShape'
         /\ UNCHANGED broker => BrokerShape'
         /\ UNCHANGED <<job, results>> => ResultShape'
         /\ UNCHANGED occurred => PastShape'
<1> USE DEF RunnerShape
<1>1. UNCHANGED lineVars => LineShape'
  BY DEF lineVars, LineShape
<1>2. UNCHANGED <<driver, task>> => TaskShape'
  BY SameTasks
<1>3. UNCHANGED scan => ScanShape'
  BY SameScans
<1>4. UNCHANGED broker => BrokerShape'
  BY DEF broker, BrokerShape
<1>5. UNCHANGED <<job, results>> => ResultShape'
  BY DEF results, ResultShape
<1>6. UNCHANGED occurred => PastShape'
  BY DEF PastShape
<1> QED
  BY <1>1, <1>2, <1>3, <1>4, <1>5, <1>6

LEMMA FailureShape ==
  ASSUME RunnerShape, NEW kind, Failure(kind)
  PROVE  PastShape' /\ kind \in FailureKinds /\ occurred' = occurred \cup {kind}
<1>1. Line \in Lines
  BY DEF RunnerShape, LineShape, Line
<1>2. kind \in FailureKinds
  BY <1>1, RunnerAssumption DEF Failure, MayFail
<1> QED
  BY <1>2 DEF RunnerShape, PastShape, Failure

LEMMA NewTask ==
  ASSUME RunnerShape, UNCHANGED <<lineVars, scan>>, NEW s \in Servers,
         NEW t \in TaskSet, TaskSound(t), task' = [task EXCEPT ![s] = t],
         UNCHANGED <<job, results>> \/ ResultShape',
         UNCHANGED broker \/ BrokerShape', UNCHANGED occurred \/ PastShape'
  PROVE  RunnerShape'
<1>1. TaskShape'
  BY OneTask DEF RunnerShape, lineVars
<1> QED
  BY <1>1, KeptShape DEF RunnerShape

LEMMA NewScan ==
  ASSUME RunnerShape, UNCHANGED <<lineVars, task>>, NEW s \in Servers,
         NEW q \in ScanSet, ScanSound(q), scan' = [scan EXCEPT ![s] = q],
         UNCHANGED <<job, results>> \/ ResultShape',
         UNCHANGED broker \/ BrokerShape', UNCHANGED occurred \/ PastShape'
  PROVE  RunnerShape'
<1>1. ScanShape'
  BY OneScan DEF RunnerShape
<1>2. UNCHANGED driver
  BY DEF lineVars
<1> QED
  BY <1>1, <1>2, KeptShape DEF RunnerShape

\* What the scan finds uncounted, and the lane it goes on to.
LEMMA UncountedFits ==
  ASSUME RunnerShape, NEW e \in Events
  PROVE  /\ Uncounted(e) \in Seq(Messages)
         /\ Len(Uncounted(e)) = IF total[e] < Len(rows[e]) THEN Len(rows[e]) - total[e] ELSE 0
         /\ \A i \in 1..Len(Uncounted(e)) : Uncounted(e)[i] = rows[e][total[e] + i]
<1> DEFINE r == rows[e]
           n == total[e]
<1>1. r \in Seq(Messages) /\ n \in Nat /\ Len(r) \in Nat
  BY DEF RunnerShape, ResultShape
<1>2. Uncounted(e) = SubSeq(r, n + 1, Len(r))
  BY DEF Uncounted
<1> HIDE DEF r, n
<1>3. /\ SubSeq(r, n + 1, Len(r)) \in Seq(Messages)
      /\ Len(SubSeq(r, n + 1, Len(r))) = IF n < Len(r) THEN Len(r) - n ELSE 0
      /\ \A i \in 1..Len(SubSeq(r, n + 1, Len(r))) : SubSeq(r, n + 1, Len(r))[i] = r[n + i]
  <2>1. CASE n < Len(r)
    <3>1. n + 1 \in 1..(Len(r) + 1) /\ Len(r) \in ((n + 1) - 1)..Len(r)
      BY <1>1, <2>1
    <3>2. /\ SubSeq(r, n + 1, Len(r)) \in Seq(Messages)
          /\ Len(SubSeq(r, n + 1, Len(r))) = Len(r) - (n + 1) + 1
          /\ \A i \in 1..Len(r) - (n + 1) + 1 : SubSeq(r, n + 1, Len(r))[i] = r[(n + 1) + i - 1]
      BY <1>1, <2>1, <3>1, SubSeqProperties
    <3> QED
      BY <1>1, <2>1, <3>2
  <2>2. CASE n >= Len(r)
    <3>1. SubSeq(r, n + 1, Len(r)) = <<>>
      BY <1>1, <2>2
    <3> QED
      BY <1>1, <2>2, <3>1
  <2> QED
    BY <1>1, <2>1, <2>2
<1> QED
  BY <1>2, <1>3 DEF r, n

LEMMA CountedFits ==
  ASSUME NEW q \in ScanSet, q.todo # <<>>, NEW found \in Seq(Messages)
  PROVE  /\ NextLane(q) \in ScanSet /\ ScanSound(NextLane(q)) /\ NextLane(q).pc = "attach"
         /\ Counted(q, found) \in ScanSet /\ ScanSound(Counted(q, found))
         /\ NextLane(q).canary = q.canary /\ Counted(q, found).canary = q.canary
         /\ found = <<>> => Counted(q, found) = NextLane(q)
         /\ found # <<>> => /\ Counted(q, found).pc = "push" /\ Counted(q, found).found = found
                            /\ Counted(q, found).todo = q.todo
<1>1. Tail(q.todo) \in Seq(Events) /\ <<>> \in Seq(Messages)
  BY DEF ScanSet
<1> DEFINE rest == Tail(q.todo)
           none == <<>>
<1>2. NextLane(q) = [q EXCEPT !.pc = "attach", !.todo = rest, !.found = none]
  BY DEF NextLane
<1>3. rest \in Seq(Events) /\ none \in Seq(Messages)
  BY <1>1
<1> HIDE DEF rest, none
<1>4. /\ NextLane(q) \in ScanSet /\ ScanSound(NextLane(q)) /\ NextLane(q).pc = "attach"
      /\ NextLane(q).canary = q.canary
  BY <1>2, <1>3 DEF ScanSet, ScanSound
<1> DEFINE c == [q EXCEPT !.pc = "push", !.found = found]
<1>5. c \in ScanSet /\ ScanSound(c) /\ c.pc = "push" /\ c.found = found /\ c.todo = q.todo /\ c.canary = q.canary
  BY DEF ScanSet, ScanSound
<1>6. Counted(q, found) = IF found = <<>> THEN NextLane(q) ELSE c
  BY DEF Counted
<1> HIDE DEF c
<1> QED
  BY <1>4, <1>5, <1>6

LEMMA TaskOf == ASSUME RunnerShape, NEW s \in Servers PROVE task[s] \in TaskSet /\ TaskSound(task[s])
BY DEF RunnerShape, TaskShape

LEMMA ScanOf ==
  ASSUME RunnerShape, NEW s \in Servers
  PROVE  /\ scan[s] \in ScanSet /\ ScanSound(scan[s])
         /\ scan[s].todo # <<>> => Head(scan[s].todo) \in Events
<1>1. scan[s] \in ScanSet /\ ScanSound(scan[s])
  BY DEF RunnerShape, ScanShape
<1>2. scan[s].todo \in Seq(Events)
  BY <1>1 DEF ScanSet
<1> QED
  BY <1>1, <1>2

LEMMA StepBeginScan ==
  ASSUME RunnerShape, NEW s \in Servers, BeginScan(s) PROVE RunnerShape'
<1>1. UNCHANGED <<lineVars, broker, job, results, occurred>>
  BY DEF BeginScan
<1>2. CASE /\ scan' = [scan EXCEPT ![s] = [NoScan EXCEPT !.pc = "attach", !.todo = InForce,
                                                         !.canary = lanes.canary]]
           /\ UNCHANGED task
  <2> DEFINE n == NoScan
             es == InForce
             c == lanes.canary
             q == [n EXCEPT !.pc = "attach", !.todo = es, !.canary = c]
  <2>1. scan' = [scan EXCEPT ![s] = q]
    BY <1>2
  <2>2. n \in ScanSet /\ es \in Seq(Events) /\ c \in 0..MaxEvent
    BY NoScanSound, InForceFits, Bounds DEF RunnerShape, LineShape
  <2> HIDE DEF n, es, c
  <2>3. q \in ScanSet /\ ScanSound(q)
    BY <2>2 DEF ScanSet, ScanSound
  <2> HIDE DEF q
  <2> QED
    BY <1>1, <1>2, <2>1, <2>3, NewScan
<1>3. CASE /\ ~task[s].aborted /\ Engaged(s) /\ Queue
           /\ task' = [task EXCEPT ![s].aborted = TRUE] /\ UNCHANGED scan
  <2> DEFINE t == [task[s] EXCEPT !.aborted = TRUE]
  <2>1. task' = [task EXCEPT ![s] = t]
    BY <1>3
  <2>2. t \in TaskSet /\ TaskSound(t)
    BY <1>3, TaskOf DEF TaskSet, TaskSound, Handles, Engaged
  <2> HIDE DEF t
  <2> QED
    BY <1>1, <1>3, <2>1, <2>2, NewTask
<1> QED
  BY <1>2, <1>3 DEF BeginScan

LEMMA StepAttachResults ==
  ASSUME RunnerShape, NEW s \in Servers, AttachResults(s) PROVE RunnerShape'
<1> DEFINE e == Head(scan[s].todo)
           q == Counted(scan[s], Uncounted(e))
<1>1. /\ scan' = [scan EXCEPT ![s] = q] /\ scan[s].todo # <<>>
      /\ total' = [total EXCEPT ![e] = @ + Len(Uncounted(e))]
      /\ UNCHANGED <<lineVars, broker, task, job, rows, pushed, occurred>>
  BY DEF AttachResults, Attaches
<1>2. scan[s] \in ScanSet /\ e \in Events
  BY <1>1, ScanOf
<1>3. Uncounted(e) \in Seq(Messages) /\ Len(Uncounted(e)) \in Nat
  BY <1>2, UncountedFits
<1>4. q \in ScanSet /\ ScanSound(q)
  BY <1>1, <1>2, <1>3, CountedFits
<1>5. ResultShape'
  BY <1>1, <1>2, <1>3 DEF RunnerShape, ResultShape
<1> HIDE DEF q
<1> QED
  BY <1>1, <1>4, <1>5, NewScan

LEMMA StepReadUncounted ==
  ASSUME RunnerShape, NEW s \in Servers, ReadUncounted(s) PROVE RunnerShape'
<1> DEFINE f == Uncounted(Head(scan[s].todo))
           q == [scan[s] EXCEPT !.pc = "count", !.found = f]
<1>1. /\ scan' = [scan EXCEPT ![s] = q] /\ scan[s].todo # <<>>
      /\ UNCHANGED <<lineVars, broker, task, job, results, occurred>>
  BY DEF ReadUncounted, Attaches
<1>2. scan[s] \in ScanSet /\ f \in Seq(Messages)
  BY <1>1, ScanOf, UncountedFits
<1> HIDE DEF f
<1>3. q \in ScanSet /\ ScanSound(q)
  BY <1>1, <1>2 DEF ScanSet, ScanSound
<1> HIDE DEF q
<1> QED
  BY <1>1, <1>3, NewScan

LEMMA StepCountResults ==
  ASSUME RunnerShape, NEW s \in Servers, CountResults(s) PROVE RunnerShape'
<1> DEFINE e == Head(scan[s].todo)
           q == Counted(scan[s], scan[s].found)
<1>1. /\ scan' = [scan EXCEPT ![s] = q] /\ scan[s].pc = "count"
      /\ total' = [total EXCEPT ![e] = @ + Len(scan[s].found)]
      /\ UNCHANGED <<lineVars, broker, task, job, rows, pushed>>
      /\ occurred' = occurred \/ occurred' = occurred \cup {"overlap"}
  BY DEF CountResults, Scans
<1>2. scan[s] \in ScanSet /\ scan[s].todo # <<>> /\ e \in Events
  BY <1>1, ScanOf DEF ScanSound
<1>3. scan[s].found \in Seq(Messages) /\ Len(scan[s].found) \in Nat
  BY <1>2 DEF ScanSet
<1>4. q \in ScanSet /\ ScanSound(q)
  BY <1>2, <1>3, CountedFits
<1>5. ResultShape'
  BY <1>1, <1>2, <1>3 DEF RunnerShape, ResultShape
<1>6. PastShape'
  BY <1>1 DEF RunnerShape, PastShape, FailureKinds
<1> HIDE DEF q
<1> QED
  BY <1>1, <1>4, <1>5, <1>6, NewScan

LEMMA StepPushResults ==
  ASSUME RunnerShape, NEW s \in Servers, PushResults(s) PROVE RunnerShape'
<1> DEFINE e == Head(scan[s].todo)
           n(m) == Cardinality({i \in DOMAIN scan[s].found : scan[s].found[i] = m})
           q == NextLane(scan[s])
<1>1. /\ scan' = [scan EXCEPT ![s] = q] /\ scan[s].pc = "push"
      /\ pushed' = [pushed EXCEPT ![e] = [m \in Messages |-> pushed[e][m] + n(m)]]
      /\ UNCHANGED <<lineVars, broker, task, job, rows, total, occurred>>
  BY DEF PushResults, Scans
<1>2. scan[s] \in ScanSet /\ scan[s].todo # <<>> /\ e \in Events
  BY <1>1, ScanOf DEF ScanSound
<1>3. q \in ScanSet /\ ScanSound(q)
  BY <1>2, CountedFits, <<>> \in Seq(Messages)
<1>4. \A m \in Messages : n(m) \in Nat
  <2> TAKE m \in Messages
  <2>1. Len(scan[s].found) \in Nat /\ DOMAIN scan[s].found = 1..Len(scan[s].found)
    BY <1>2 DEF ScanSet
  <2> DEFINE I == {i \in DOMAIN scan[s].found : scan[s].found[i] = m}
  <2>2. IsFiniteSet(1..Len(scan[s].found)) /\ I \subseteq 1..Len(scan[s].found)
    BY <2>1, FS_Interval
  <2>3. IsFiniteSet(I)
    BY <2>2, FS_Subset
  <2> QED
    BY <2>3, FS_CardinalityType
<1>5. [m \in Messages |-> pushed[e][m] + n(m)] \in [Messages -> Nat]
  <2>1. \A m \in Messages : pushed[e][m] \in Nat
    BY <1>2 DEF RunnerShape, ResultShape
  <2> HIDE DEF n
  <2> QED
    BY <1>4, <2>1
<1>6. ResultShape'
  BY <1>1, <1>2, <1>5 DEF RunnerShape, ResultShape
<1> HIDE DEF q
<1> QED
  BY <1>1, <1>3, <1>6, NewScan

LEMMA StepPushFails ==
  ASSUME RunnerShape, NEW s \in Servers, PushFails(s) PROVE RunnerShape'
<1> DEFINE q == NextLane(scan[s])
<1>1. /\ scan' = [scan EXCEPT ![s] = q] /\ scan[s].pc = "push" /\ Failure("push")
      /\ UNCHANGED <<lineVars, broker, task, job, results>>
  BY DEF PushFails, Scans
<1>2. scan[s] \in ScanSet /\ scan[s].todo # <<>>
  BY <1>1, ScanOf DEF ScanSound
<1>3. q \in ScanSet /\ ScanSound(q)
  BY <1>2, CountedFits, <<>> \in Seq(Messages)
<1> HIDE DEF q
<1> QED
  BY <1>1, <1>3, NewScan, FailureShape

\* A canary that meets a stop condition is taken out of its lane.
LEMMA StepCompleteCanary ==
  ASSUME RunnerShape, NEW s \in Servers, CompleteCanary(s)
  PROVE  /\ RunnerShape' /\ UNCHANGED <<driver, mode, laneOf, broker, task, job, results>>
         /\ lanes'.production = lanes.production /\ occurred' = occurred \cup {"stop"}
         /\ scan' = [scan EXCEPT ![s] = scan'[s]] /\ scan'[s].pc = "stop" /\ scan[s].pc = "attach"
<1> DEFINE n == NoScan
           q == [n EXCEPT !.pc = "stop"]
           c == IF lanes.canary = scan[s].canary THEN 0 ELSE lanes.canary
<1>1. /\ lanes' = [lanes EXCEPT !.canary = c] /\ occurred' = occurred \cup {"stop"}
      /\ scan' = [scan EXCEPT ![s] = q] /\ scan[s].pc = "attach"
      /\ UNCHANGED <<driver, mode, laneOf, broker, task, job, results>>
  BY DEF CompleteCanary, Scans
<1>2. n \in ScanSet
  BY NoScanSound
<1> HIDE DEF n
<1>3. q \in ScanSet /\ ScanSound(q) /\ q.pc = "stop"
  BY <1>2 DEF ScanSet, ScanSound
<1> HIDE DEF q
<1>4. ScanShape' /\ scan'[s] = q
  BY <1>1, <1>3, OneScan DEF RunnerShape
<1>5. lanes \in LanesInForce(laneOf) /\ lanes \in [production : Events \cup {0}, canary : Events \cup {0}]
  BY DEF RunnerShape, LineShape
<1>6. c \in {0, lanes.canary}
  OBVIOUS
<1> HIDE DEF c
<1>7. /\ lanes' \in LanesInForce(laneOf) /\ lanes'.production = lanes.production
      /\ lanes' \in [production : Events \cup {0}, canary : Events \cup {0}]
  BY <1>1, <1>5, <1>6 DEF LanesInForce
<1>8. LineShape'
  BY <1>1, <1>7 DEF RunnerShape, LineShape
<1>9. TaskShape' /\ BrokerShape' /\ ResultShape'
  BY <1>1, KeptShape
<1>10. PastShape'
  BY <1>1 DEF RunnerShape, PastShape
<1> QED
  BY <1>1, <1>3, <1>4, <1>7, <1>8, <1>9, <1>10 DEF RunnerShape

\* A task that is aborted goes on otherwise as it was.
LEMMA AbortedFits ==
  ASSUME NEW t \in TaskSet, TaskSound(t), t.pc # "idle"
  PROVE  LET h == [t EXCEPT !.aborted = TRUE] IN
         /\ h \in TaskSet /\ TaskSound(h) /\ h.aborted
         /\ \A k \in {"pc", "owns", "batch", "msg", "todo", "call", "group"} : h[k] = t[k]
<1> DEFINE h == [t EXCEPT !.aborted = TRUE]
<1>1. /\ h \in TaskSet /\ h.aborted
      /\ \A k \in {"pc", "owns", "batch", "msg", "todo", "call", "group"} : h[k] = t[k]
  BY DEF TaskSet
<1> HIDE DEF h
<1>2. TaskSound(h)
  BY <1>1 DEF TaskSound, TaskSet, Handles
<1> QED
  BY <1>1, <1>2 DEF h

LEMMA StepStopConsumer ==
  ASSUME RunnerShape, NEW s \in Servers, StopConsumer(s)
  PROVE  /\ RunnerShape' /\ UNCHANGED <<lineVars, broker, job, results, occurred>>
         /\ scan' = [scan EXCEPT ![s] = NoScan] /\ scan[s].pc = "stop"
         /\ \/ task' = task
            \/ LET t == task'[s] IN
               /\ task' = [task EXCEPT ![s] = t] /\ t \in TaskSet
               /\ \A k \in {"pc", "owns", "batch", "msg", "todo", "call", "group"} : t[k] = task[s][k]
<1>1. /\ scan' = [scan EXCEPT ![s] = NoScan] /\ scan[s].pc = "stop"
      /\ UNCHANGED <<lineVars, broker, job, results, occurred>>
  BY DEF StopConsumer, Scans
<1>2. ScanShape' /\ LineShape' /\ BrokerShape' /\ ResultShape' /\ PastShape' /\ driver' = driver
  BY <1>1, OneScan, NoScanSound, KeptShape DEF RunnerShape, lineVars
<1>3. CASE task' = task
  BY <1>1, <1>2, <1>3, SameTasks DEF RunnerShape
<1>4. CASE task[s].pc # "idle" /\ task' = [task EXCEPT ![s].aborted = TRUE]
  <2> DEFINE h == [task[s] EXCEPT !.aborted = TRUE]
  <2>1. task' = [task EXCEPT ![s] = h]
    BY <1>4
  <2>2. /\ h \in TaskSet /\ TaskSound(h)
        /\ \A k \in {"pc", "owns", "batch", "msg", "todo", "call", "group"} : h[k] = task[s][k]
    BY <1>4, TaskOf, AbortedFits
  <2> HIDE DEF h
  <2>3. TaskShape' /\ task'[s] = h
    BY <1>2, <2>1, <2>2, OneTask DEF RunnerShape
  <2> QED
    BY <1>1, <1>2, <2>1, <2>2, <2>3 DEF RunnerShape
<1> QED
  BY <1>3, <1>4 DEF StopConsumer, Engaged

LEMMA StartHands ==
  ASSUME NEW s \in Servers, StartTask(s), Starts(s)
  PROVE  \E t : /\ task' = [task EXCEPT ![s] = t]
               /\ t.pc = "read" /\ t.owns /\ ~t.aborted
<1> DEFINE n == NoTask
           g == IF driver = "kafka" /\ mode = "dual_run" /\ scan[s].canary # 0 THEN "dual" ELSE "own"
           t == [n EXCEPT !.pc = "read", !.owns = TRUE, !.group = g]
<1>1. task' = [task EXCEPT ![s] = t]
  BY DEF StartTask
<1>2. n \in TaskSet /\ ~n.aborted
  BY NoTaskSound DEF NoTask
<1> HIDE DEF n, g
<1>3. t.pc = "read" /\ t.owns /\ ~t.aborted
  BY <1>2 DEF TaskSet
<1> HIDE DEF t
<1> QED
  BY <1>1, <1>3

LEMMA StepStartTask ==
  ASSUME RunnerShape, NEW s \in Servers, StartTask(s) PROVE RunnerShape'
<1>1. scan' = [scan EXCEPT ![s] = NoScan] /\ UNCHANGED <<lineVars, taken, job, results, occurred>>
  BY DEF StartTask
<1>2. ScanShape'
  BY <1>1, OneScan, NoScanSound DEF RunnerShape
<1>3. LineShape' /\ ResultShape' /\ PastShape' /\ driver' = driver
  BY <1>1, KeptShape DEF lineVars
<1>4. CASE Starts(s)
  <2> DEFINE n == NoTask
             g == IF driver = "kafka" /\ mode = "dual_run" /\ scan[s].canary # 0 THEN "dual" ELSE "own"
             t == [n EXCEPT !.pc = "read", !.owns = TRUE, !.group = g]
  <2>1. lock' = TRUE /\ task' = [task EXCEPT ![s] = t] /\ assignee' \in Joins(s, g) /\ Queue
    BY <1>4 DEF StartTask, Starts
  <2>0. g \in Groups
    BY DEF Groups
  <2> HIDE DEF g
  <2>2. n \in TaskSet /\ n.batch = <<>> /\ n.msg = 0 /\ n.call = 0
    BY NoTaskSound DEF NoTask
  <2> HIDE DEF n
  <2>3. t \in TaskSet /\ TaskSound(t)
    BY <2>0, <2>1, <2>2 DEF TaskSet, TaskSound, Handles
  <2>4. TaskShape'
    BY <1>3, <2>1, <2>3, OneTask DEF RunnerShape
  <2>5. BrokerShape'
    BY <1>1, <2>0, <2>1, MembersFit DEF RunnerShape, BrokerShape
  <2> QED
    BY <1>2, <1>3, <2>4, <2>5 DEF RunnerShape
<1>5. CASE ~Starts(s)
  <2>1. UNCHANGED <<lock, task, assignee>>
    BY <1>5 DEF StartTask
  <2>2. TaskShape' /\ BrokerShape'
    BY <1>1, <1>3, <2>1, KeptShape DEF broker
  <2> QED
    BY <1>2, <1>3, <2>2 DEF RunnerShape
<1> QED
  BY <1>4, <1>5

\* Behind the first message of what was read come the others.
LEMMA BatchGoesOn ==
  ASSUME NEW k \in Nat, NEW end \in (k + 1)..MaxMessage, MaxMessage \in Nat,
         NEW b \in Seq(Messages), Len(b) = end - k, \A i \in 1..Len(b) : b[i] = k + i
  PROVE  \A m \in (k + 1)..end : m = k + 1 \/ \E i \in 1..Len(Tail(b)) : Tail(b)[i] = m
<1> SUFFICES ASSUME NEW m \in (k + 1)..end, m # k + 1
             PROVE  \E i \in 1..Len(Tail(b)) : Tail(b)[i] = m
  OBVIOUS
<1>1. m - k - 1 \in 1..(Len(b) - 1)
  OBVIOUS
<1>2. Len(Tail(b)) = Len(b) - 1 /\ \A i \in 1..(Len(b) - 1) : Tail(b)[i] = b[i + 1]
  OBVIOUS
<1>3. Tail(b)[m - k - 1] = m
  BY <1>1, <1>2
<1> QED
  BY <1>1, <1>2, <1>3

\* What reading and receiving do to a task: it gets messages that follow
\* the offset, the first of them in hand.
LEMMA ReadHands ==
  ASSUME RunnerShape, NEW s \in Servers, Read(s), NEW n, n = taken[task[s].group]
  PROVE  LET t == task'[s] IN
         /\ t \in TaskSet /\ TaskSound(t) /\ task' = [task EXCEPT ![s] = t]
         /\ t.pc = "route" /\ t.msg = n + 1 /\ t.owns = task[s].owns /\ ~t.aborted
         /\ t.group = task[s].group /\ n \in 0..MaxMessage /\ n < MaxMessage
         /\ \A m \in (n + 1)..ReadEnd(n) : m = t.msg \/ \E i \in 1..Len(t.batch) : t.batch[i] = m
<1> DEFINE b == [i \in 1..(ReadEnd(n) - n) |-> n + i]
           h == Handling(task[s], b)
<1>1. task[s].pc = "read" /\ ~task[s].aborted /\ n < MaxMessage /\ task' = [task EXCEPT ![s] = h]
  BY DEF Read, At
<1>2. task[s] \in TaskSet /\ TaskSound(task[s])
  BY <1>1, TaskOf
<1>3. Queue /\ (task[s].call # 0 => driver = "sync")
  BY <1>1, <1>2 DEF TaskSound
<1>0. n \in 0..MaxMessage
  BY <1>2 DEF RunnerShape, BrokerShape, TaskSet
<1>4. n \in Nat /\ ReadEnd(n) \in (n + 1)..MaxMessage /\ MaxMessage \in Nat
  BY <1>0, <1>1, ReadFits, Bounds
<1>5. b \in Seq(Messages) /\ Len(b) = ReadEnd(n) - n /\ b # <<>>
      /\ \A i \in 1..Len(b) : b[i] = n + i
  <2>1. b \in Seq(Messages) /\ Len(b) = ReadEnd(n) - n
    BY <1>0, <1>1, ReadFits
  <2> QED
    BY <1>4, <2>1
<1> HIDE DEF b
<1>6. /\ h \in TaskSet /\ TaskSound(h) /\ h.pc = "route" /\ h.msg = n + 1 /\ h.batch = Tail(b)
      /\ h.owns = task[s].owns /\ h.aborted = task[s].aborted /\ h.group = task[s].group
  BY <1>1, <1>2, <1>3, <1>4, <1>5, HandlingFits
<1> HIDE DEF h
<1>7. task'[s] = h
  BY <1>1 DEF RunnerShape, TaskShape
<1>8. \A m \in (n + 1)..ReadEnd(n) : m = h.msg \/ \E i \in 1..Len(h.batch) : h.batch[i] = m
  <2>1. PICK end \in (n + 1)..MaxMessage : end = ReadEnd(n)
    BY <1>4
  <2>2. Len(b) = end - n /\ n \in Nat /\ MaxMessage \in Nat
    BY <1>4, <1>5, <2>1
  <2>3. \A m \in (n + 1)..end : m = n + 1 \/ \E i \in 1..Len(Tail(b)) : Tail(b)[i] = m
    BY <1>5, <2>2, BatchGoesOn
  <2> QED
    BY <1>6, <2>1, <2>3
<1>9. ~h.aborted /\ task' = [task EXCEPT ![s] = h]
  BY <1>1, <1>6
<1>10. n \in 0..MaxMessage /\ n < MaxMessage
  BY <1>0, <1>1
<1> QED
  BY <1>6, <1>7, <1>8, <1>9, <1>10

LEMMA StepRead ==
  ASSUME RunnerShape, NEW s \in Servers, Read(s) PROVE RunnerShape'
<1> DEFINE n == taken[task[s].group]
<1>1. /\ UNCHANGED <<lineVars, lock, assignee, scan, job, results, occurred>>
      /\ taken' = [taken EXCEPT ![task[s].group] = TakenByRead(n)] /\ n < MaxMessage
  BY DEF Read
<1>2. BrokerShape'
  <2>1. n \in 0..MaxMessage
    BY TaskOf DEF TaskSet, RunnerShape, BrokerShape
  <2>2. TakenByRead(n) \in 0..MaxMessage
    BY <1>1, <2>1, ReadFits
  <2> HIDE DEF n
  <2> QED
    BY <1>1, <2>2 DEF RunnerShape, BrokerShape
<1>3. PICK t \in TaskSet : TaskSound(t) /\ task' = [task EXCEPT ![s] = t]
  BY ReadHands
<1> QED
  BY <1>1, <1>2, <1>3, NewTask

LEMMA ReceiveHands ==
  ASSUME RunnerShape, NEW s \in Servers, Receive(s)
  PROVE  LET t == task'[s] IN
         /\ t \in TaskSet /\ TaskSound(t) /\ task' = [task EXCEPT ![s] = t]
         /\ t.pc = "route" /\ t.msg = taken["own"] + 1 /\ ~t.owns /\ ~t.aborted
<1> DEFINE n == taken["own"]
           b == <<n + 1>>
           h == Handling(task[s], b)
<1>1. task[s].pc = "idle" /\ n < MaxMessage /\ task' = [task EXCEPT ![s] = h] /\ ~Queue
  BY DEF Receive, At
<1>2. task[s] = NoTask /\ task[s] \in TaskSet
  BY <1>1, TaskOf DEF TaskSound
<1>3. ~task[s].aborted /\ task[s].call = 0 /\ ~task[s].owns
  BY <1>2 DEF NoTask
<1>4. n \in Nat /\ n + 1 \in Messages
  BY <1>1, Bounds DEF RunnerShape, BrokerShape, Messages
<1>5. b \in Seq(Messages) /\ Len(b) = 1 /\ b # <<>> /\ \A i \in 1..Len(b) : b[i] = n + i
  BY <1>4
<1> HIDE DEF b
<1>6. /\ h \in TaskSet /\ TaskSound(h) /\ h.pc = "route" /\ h.msg = n + 1
      /\ h.owns = task[s].owns /\ h.aborted = task[s].aborted
  BY <1>1, <1>2, <1>3, <1>4, <1>5, HandlingFits
<1> HIDE DEF h
<1>7. task'[s] = h
  BY <1>1 DEF RunnerShape, TaskShape
<1> QED
  BY <1>1, <1>3, <1>6, <1>7

LEMMA StepReceive ==
  ASSUME RunnerShape, NEW s \in Servers, Receive(s) PROVE RunnerShape'
<1>1. /\ UNCHANGED <<lineVars, lock, assignee, scan, job, results, occurred>>
      /\ taken' = [taken EXCEPT !["own"] = taken["own"] + 1] /\ taken["own"] < MaxMessage
  BY DEF Receive
<1>2. BrokerShape'
  <2>1. taken["own"] + 1 \in 0..MaxMessage
    BY <1>1, Bounds DEF RunnerShape, BrokerShape
  <2> QED
    BY <1>1, <2>1 DEF RunnerShape, BrokerShape
<1>3. PICK t \in TaskSet : TaskSound(t) /\ task' = [task EXCEPT ![s] = t]
  BY ReceiveHands
<1> QED
  BY <1>1, <1>2, <1>3, NewTask

LEMMA RoutingFits ==
  ASSUME NEW t \in TaskSet, TaskSound(t), t.pc \in {"route", "enqueue"}, NEW es \in Seq(Events)
  PROVE  /\ Enqueuing(t, es) \in TaskSet /\ TaskSound(Enqueuing(t, es))
         /\ Enqueuing(t, es).pc = IF es = <<>> THEN "ack" ELSE "enqueue"
         /\ Enqueuing(t, es).todo = es /\ Enqueuing(t, es).msg = t.msg
         /\ Enqueuing(t, es).owns = t.owns /\ Enqueuing(t, es).aborted = t.aborted
         /\ Enqueuing(t, es).batch = t.batch /\ Enqueuing(t, es).group = t.group
<1> DEFINE h == Enqueuing(t, es)
           p == IF es = <<>> THEN "ack" ELSE "enqueue"
<1>1. h = [t EXCEPT !.pc = p, !.todo = es] /\ p \in {"ack", "enqueue"}
  BY DEF Enqueuing
<1>2. p = "enqueue" => es # <<>>
  OBVIOUS
<1> HIDE DEF h, p
<1>3. /\ h \in TaskSet /\ h.pc = p /\ h.todo = es /\ h.msg = t.msg /\ h.batch = t.batch
      /\ h.owns = t.owns /\ h.aborted = t.aborted /\ h.call = t.call /\ h.group = t.group
  BY <1>1 DEF TaskSet
<1>4. TaskSound(h)
  BY <1>1, <1>2, <1>3 DEF TaskSound, Handles
<1> QED
  BY <1>3, <1>4 DEF h, p

LEMMA RoutedFits ==
  ASSUME NEW t \in TaskSet, TaskSound(t), t.pc = "route", NEW es \in Seq(Events)
  PROVE  /\ Routed(t, es) \in TaskSet /\ TaskSound(Routed(t, es))
         /\ Routed(t, es).pc = IF es = <<>> THEN "ack" ELSE "enqueue"
         /\ Routed(t, es).todo = es /\ Routed(t, es).msg = t.msg
         /\ Routed(t, es).owns = t.owns /\ Routed(t, es).aborted = t.aborted
         /\ Routed(t, es).batch = t.batch /\ Routed(t, es).group = t.group
<1> DEFINE h == Enqueuing(t, es)
           c == IF driver = "sync" /\ es # <<>> THEN Head(es) ELSE 0
           w == [h EXCEPT !.call = c]
<1>1. Routed(t, es) = w
  BY DEF Routed
<1>2. c \in Events \cup {0} /\ (c # 0 => driver = "sync")
  OBVIOUS
<1>3. /\ h \in TaskSet /\ TaskSound(h) /\ h.pc = IF es = <<>> THEN "ack" ELSE "enqueue"
      /\ h.todo = es /\ h.msg = t.msg /\ h.owns = t.owns /\ h.aborted = t.aborted
      /\ h.batch = t.batch /\ h.group = t.group
  BY RoutingFits
<1> HIDE DEF h, c
<1>4. /\ w \in TaskSet /\ w.pc = h.pc /\ w.todo = h.todo /\ w.msg = h.msg /\ w.batch = h.batch
      /\ w.owns = h.owns /\ w.aborted = h.aborted /\ w.call = c /\ w.group = h.group
  BY <1>2, <1>3 DEF TaskSet
<1>5. TaskSound(w)
  BY <1>2, <1>3, <1>4 DEF TaskSound, Handles
<1> HIDE DEF w
<1> QED
  BY <1>1, <1>3, <1>4, <1>5

\* A message goes to the lanes selected for it, or its line does not run.
LEMMA RouteHands ==
  ASSUME RunnerShape, NEW s \in Servers, Route(s)
  PROVE  LET t == task'[s]
             m == task[s].msg IN
         /\ t \in TaskSet /\ TaskSound(t) /\ task' = [task EXCEPT ![s] = t]
         /\ m \in Messages /\ task[s].pc = "route"
         /\ \/ /\ Runnable /\ t.todo = Selected(m) /\ Selected(m) \in Seq(Events)
               /\ t.pc = IF Selected(m) = <<>> THEN "ack" ELSE "enqueue"
               /\ t.msg = m /\ t.batch = task[s].batch /\ t.group = task[s].group
               /\ t.owns = task[s].owns /\ t.aborted = task[s].aborted
            \/ /\ ~Runnable /\ Queue /\ t = [task[s] EXCEPT !.pc = "ack", !.aborted = TRUE]
               /\ t.pc = "ack" /\ t.msg = m /\ t.batch = task[s].batch /\ t.owns = task[s].owns
            \/ ~Runnable /\ ~Queue /\ t = NoTask
<1> DEFINE m == task[s].msg
<1>1. task[s] \in TaskSet /\ TaskSound(task[s]) /\ task[s].pc = "route" /\ m \in Messages
  BY TaskOf, Bounds DEF Route, At, TaskSet, TaskSound, Handles, Messages
<1>2. task \in [Servers -> TaskSet]
  BY DEF RunnerShape, TaskShape
<1>3. CASE Runnable
  <2> DEFINE es == Selected(m)
             h == Routed(task[s], es)
  <2>1. task' = [task EXCEPT ![s] = h]
    BY <1>3 DEF Route
  <2>2. es \in Seq(Events)
    BY <1>1, InForceFits DEF RunnerShape
  <2>3. /\ h \in TaskSet /\ TaskSound(h) /\ h.pc = IF es = <<>> THEN "ack" ELSE "enqueue"
        /\ h.todo = es /\ h.msg = m /\ h.batch = task[s].batch /\ h.group = task[s].group
        /\ h.owns = task[s].owns /\ h.aborted = task[s].aborted
    BY <1>1, <2>2, RoutedFits
  <2> HIDE DEF h
  <2>4. task'[s] = h
    BY <1>2, <2>1
  <2> QED
    BY <1>1, <1>3, <2>1, <2>2, <2>3, <2>4
<1>4. CASE ~Runnable /\ Queue
  <2> DEFINE h == [task[s] EXCEPT !.pc = "ack", !.aborted = TRUE]
  <2>1. task' = [task EXCEPT ![s] = h]
    BY <1>4 DEF Route
  <2>2. /\ h \in TaskSet /\ h.pc = "ack" /\ h.msg = m /\ h.batch = task[s].batch
        /\ h.owns = task[s].owns /\ h.call = task[s].call
    BY <1>1 DEF TaskSet
  <2>3. h = [task[s] EXCEPT !.pc = "ack", !.aborted = TRUE]
    OBVIOUS
  <2> HIDE DEF h
  <2>4. TaskSound(h)
    BY <1>1, <2>2 DEF TaskSound, Handles
  <2>5. task'[s] = h
    BY <1>2, <2>1
  <2> QED
    BY <1>1, <1>4, <2>1, <2>2, <2>3, <2>4, <2>5
<1>5. CASE ~Runnable /\ ~Queue
  <2>1. task' = [task EXCEPT ![s] = NoTask]
    BY <1>5 DEF Route
  <2>2. task'[s] = NoTask
    BY <1>2, <2>1
  <2> QED
    BY <1>1, <1>5, <2>1, <2>2, NoTaskSound
<1> QED
  BY <1>3, <1>4, <1>5

LEMMA StepRoute ==
  ASSUME RunnerShape, NEW s \in Servers, Route(s) PROVE RunnerShape'
<1>1. UNCHANGED <<lineVars, broker, scan, job, results, occurred>>
  BY DEF Route
<1>3. task'[s] \in TaskSet /\ TaskSound(task'[s]) /\ task' = [task EXCEPT ![s] = task'[s]]
  BY RouteHands
<1>2. PICK t \in TaskSet : TaskSound(t) /\ task' = [task EXCEPT ![s] = t]
  BY <1>3
<1> QED
  BY <1>1, <1>2, NewTask

\* Enqueuing writes one job, unless it is there already.
LEMMA EnqueueHands ==
  ASSUME RunnerShape, NEW s \in Servers, Enqueue(s)
  PROVE  LET t == task'[s]
             m == task[s].msg
             e == Head(task[s].todo) IN
         /\ t \in TaskSet /\ TaskSound(t) /\ task' = [task EXCEPT ![s] = t]
         /\ task[s].pc = "enqueue" /\ task[s].todo # <<>> /\ m \in Messages /\ e \in Events
         /\ job \in [Events -> [Messages -> {"none", "queued", "row"}]]
         /\ job' \in [Events -> [Messages -> {"none", "queued", "row"}]]
         /\ \A d \in Events, k \in Messages :
               job'[d][k] = IF d = e /\ k = m /\ job[d][k] = "none" THEN "queued" ELSE job[d][k]
         /\ t.todo = Tail(task[s].todo) /\ t.msg = m /\ t.batch = task[s].batch
         /\ t.pc = IF Tail(task[s].todo) = <<>> THEN "ack" ELSE "enqueue"
         /\ t.owns = task[s].owns /\ t.aborted = task[s].aborted /\ t.group = task[s].group
<1> DEFINE m == task[s].msg
           e == Head(task[s].todo)
           es == Tail(task[s].todo)
           h == Enqueuing(task[s], es)
<1>1. task[s] \in TaskSet /\ TaskSound(task[s]) /\ task[s].pc = "enqueue" /\ m \in Messages
  BY TaskOf, Bounds DEF Enqueue, At, TaskSet, TaskSound, Handles, Messages
<1>2. task[s].todo \in Seq(Events) /\ task[s].todo # <<>>
  BY <1>1 DEF TaskSet, TaskSound
<1>3. e \in Events /\ es \in Seq(Events)
  BY <1>2
<1>4. task' = [task EXCEPT ![s] = h]
  BY DEF Enqueue
<1>5. /\ h \in TaskSet /\ TaskSound(h) /\ h.pc = IF es = <<>> THEN "ack" ELSE "enqueue"
      /\ h.todo = es /\ h.msg = m /\ h.batch = task[s].batch
      /\ h.owns = task[s].owns /\ h.aborted = task[s].aborted /\ h.group = task[s].group
  BY <1>1, <1>3, RoutingFits
<1>6. job' = [job EXCEPT ![e][m] = IF @ = "none" THEN "queued" ELSE @]
  BY DEF Enqueue
<1>7. job \in [Events -> [Messages -> {"none", "queued", "row"}]]
  BY DEF RunnerShape, ResultShape
<1> HIDE DEF h, e, m, es
<1>8. /\ job' \in [Events -> [Messages -> {"none", "queued", "row"}]]
      /\ \A d \in Events, k \in Messages :
            job'[d][k] = IF d = e /\ k = m /\ job[d][k] = "none" THEN "queued" ELSE job[d][k]
  BY <1>1, <1>3, <1>6, <1>7
<1>9. task'[s] = h
  BY <1>4 DEF RunnerShape, TaskShape
<1> QED
  BY <1>1, <1>2, <1>3, <1>4, <1>5, <1>7, <1>8, <1>9 DEF e, m, es

LEMMA StepEnqueue ==
  ASSUME RunnerShape, NEW s \in Servers, Enqueue(s) PROVE RunnerShape'
<1>1. UNCHANGED <<lineVars, broker, scan, results, occurred>>
  BY DEF Enqueue
<1>2. job' \in [Events -> [Messages -> {"none", "queued", "row"}]]
  BY EnqueueHands
<1>3. ResultShape'
  BY <1>1, <1>2 DEF RunnerShape, ResultShape, results
<1>4. PICK t \in TaskSet : TaskSound(t) /\ task' = [task EXCEPT ![s] = t]
  BY EnqueueHands
<1> QED
  BY <1>1, <1>3, <1>4, NewTask

\* A failed enqueue drops what its task had in hand.
LEMMA EnqueueFailsHands ==
  ASSUME RunnerShape, NEW s \in Servers, EnqueueFails(s)
  PROVE  LET t == task'[s] IN
         /\ t \in TaskSet /\ TaskSound(t) /\ task' = [task EXCEPT ![s] = t]
         /\ ~Handles(t) /\ Failure("enqueue")
         /\ t.owns => task[s].owns
<1>1. task[s] \in TaskSet /\ TaskSound(task[s]) /\ Failure("enqueue")
  BY TaskOf DEF EnqueueFails
<1>2. task \in [Servers -> TaskSet]
  BY DEF RunnerShape, TaskShape
<1>3. CASE Queue
  <2> DEFINE h == [task[s] EXCEPT !.pc = "read", !.batch = <<>>, !.msg = 0, !.todo = <<>>,
                                  !.aborted = task[s].aborted \/ driver = "stream"]
  <2>1. task' = [task EXCEPT ![s] = h]
    BY <1>3 DEF EnqueueFails
  <2>2. 0 \in 0..MaxMessage /\ <<>> \in Seq(Messages) /\ <<>> \in Seq(Events)
    BY Bounds
  <2>4. /\ h \in TaskSet /\ h.pc = "read" /\ h.msg = 0 /\ h.batch = <<>> /\ h.owns = task[s].owns
        /\ h.call = task[s].call
    BY <1>1, <2>2 DEF TaskSet
  <2> HIDE DEF h
  <2>5. TaskSound(h) /\ ~Handles(h)
    BY <1>1, <1>3, <2>4 DEF TaskSound, Handles
  <2>6. task'[s] = h
    BY <1>2, <2>1
  <2> QED
    BY <1>1, <2>1, <2>4, <2>5, <2>6
<1>4. CASE ~Queue
  <2>1. task' = [task EXCEPT ![s] = NoTask]
    BY <1>4 DEF EnqueueFails
  <2>2. task'[s] = NoTask
    BY <1>2, <2>1
  <2>3. ~Handles(NoTask) /\ ~NoTask.owns
    BY DEF Handles, NoTask
  <2> QED
    BY <1>1, <2>1, <2>2, <2>3, NoTaskSound
<1> QED
  BY <1>3, <1>4

LEMMA StepEnqueueFails ==
  ASSUME RunnerShape, NEW s \in Servers, EnqueueFails(s) PROVE RunnerShape'
<1>1. UNCHANGED <<lineVars, broker, scan, job, results>>
  BY DEF EnqueueFails
<1>2. PICK t \in TaskSet : TaskSound(t) /\ task' = [task EXCEPT ![s] = t]
  BY EnqueueFailsHands
<1>3. PastShape'
  BY EnqueueFailsHands, FailureShape
<1> QED
  BY <1>1, <1>2, <1>3, NewTask

\* A message is acknowledged: a sync call waits, a batch goes on unless the
\* partition was taken away.
LEMMA AckHands ==
  ASSUME RunnerShape, NEW s \in Servers, Ack(s)
  PROVE  LET t == task'[s]
             m == task[s].msg IN
         /\ t \in TaskSet /\ TaskSound(t) /\ task' = [task EXCEPT ![s] = t]
         /\ task[s].pc = "ack" /\ m \in Messages
         /\ t.owns => task[s].owns
         /\ \/ /\ t.pc = "wait" /\ t.msg = m /\ t.batch = task[s].batch /\ t.aborted = task[s].aborted
               /\ driver = "sync"
            \/ /\ t = NoTask /\ ~Queue
            \/ /\ t.pc = "read" /\ Queue /\ t.owns = task[s].owns /\ t.aborted = task[s].aborted
               /\ driver = "kafka" \/ task[s].batch = <<>> \/ t.aborted
            \/ /\ t.pc = "route" /\ t.msg = m + 1 /\ Queue /\ t.batch = Tail(task[s].batch)
               /\ task[s].batch # <<>> /\ task[s].batch[1] = m + 1
               /\ t.owns = task[s].owns /\ t.aborted = task[s].aborted /\ t.group = task[s].group
<1> DEFINE m == task[s].msg
           kept == driver # "kafka" \/ s \in assignee
           b == IF kept THEN task[s].batch ELSE <<>>
<1>1. task[s] \in TaskSet /\ TaskSound(task[s]) /\ task[s].pc = "ack" /\ m \in Messages
  BY TaskOf, Bounds DEF Ack, At, TaskSet, TaskSound, Handles, Messages
<1>2. /\ task[s].batch \in Seq(Messages) /\ \A i \in 1..Len(task[s].batch) : task[s].batch[i] = m + i
      /\ task[s].call # 0 => driver = "sync"
      /\ ~Queue => task[s].batch = <<>>
  BY <1>1 DEF TaskSet, TaskSound, Handles
<1>3. task \in [Servers -> TaskSet]
  BY DEF RunnerShape, TaskShape
<1>4. CASE task[s].call # 0
  <2> DEFINE h == [task[s] EXCEPT !.pc = "wait"]
  <2>1. task' = [task EXCEPT ![s] = h]
    BY <1>4 DEF Ack
  <2>2. /\ h \in TaskSet /\ h.pc = "wait" /\ h.msg = m /\ h.batch = task[s].batch
        /\ h.owns = task[s].owns /\ h.aborted = task[s].aborted /\ h.call = task[s].call
    BY <1>1 DEF TaskSet
  <2> HIDE DEF h
  <2>3. TaskSound(h)
    BY <1>1, <1>4, <2>2 DEF TaskSound, Handles
  <2>4. task'[s] = h
    BY <1>3, <2>1
  <2> QED
    BY <1>1, <1>2, <1>4, <2>1, <2>2, <2>3, <2>4
<1>5. CASE task[s].call = 0
  <2> DEFINE h == Handling(task[s], b)
  <2>1. task' = [task EXCEPT ![s] = h]
    BY <1>5 DEF Ack
  <2>2. b \in Seq(Messages) /\ (\A i \in 1..Len(b) : b[i] = m + i) /\ (Queue \/ b = <<>>)
    BY <1>2
  <2>3. m \in Nat
    BY <1>1, Bounds
  <2>4. /\ h \in TaskSet /\ TaskSound(h)
        /\ \/ h = NoTask /\ ~Queue /\ b = <<>>
           \/ /\ h.pc = "read" /\ Queue /\ (task[s].aborted \/ b = <<>>)
              /\ h.owns = task[s].owns /\ h.aborted = task[s].aborted
           \/ /\ h.pc = "route" /\ h.msg = m + 1 /\ b # <<>> /\ h.batch = Tail(b)
              /\ h.owns = task[s].owns /\ h.aborted = task[s].aborted /\ h.group = task[s].group
    <3> DEFINE t == task[s]
    <3>1. t \in TaskSet /\ (t.call # 0 => driver = "sync")
      BY <1>1, <1>2
    <3> HIDE DEF t, b, m
    <3>2. /\ Handling(t, b) \in TaskSet /\ TaskSound(Handling(t, b))
          /\ \/ Handling(t, b) = NoTask /\ ~Queue /\ b = <<>>
             \/ /\ Handling(t, b).pc = "read" /\ Queue /\ (t.aborted \/ b = <<>>)
                /\ Handling(t, b).owns = t.owns /\ Handling(t, b).aborted = t.aborted
             \/ /\ Handling(t, b).pc = "route" /\ Handling(t, b).msg = m + 1
                /\ b # <<>> /\ Handling(t, b).batch = Tail(b)
                /\ Handling(t, b).owns = t.owns /\ Handling(t, b).aborted = t.aborted
                /\ Handling(t, b).group = t.group
      BY <2>2, <2>3, <3>1, HandlingFits
    <3> QED
      BY <3>2 DEF t
  <2> HIDE DEF h
  <2>5. task'[s] = h
    BY <1>3, <2>1
  <2>6. CASE h = NoTask /\ ~Queue
    <3>1. ~h.owns
      BY <2>6 DEF NoTask
    <3> QED
      BY <1>1, <2>1, <2>4, <2>5, <2>6, <3>1
  <2>7. CASE /\ h.pc = "read" /\ Queue /\ (task[s].aborted \/ b = <<>>)
             /\ h.owns = task[s].owns /\ h.aborted = task[s].aborted
    BY <1>1, <2>1, <2>4, <2>5, <2>7
  <2>8. CASE /\ h.pc = "route" /\ h.msg = m + 1 /\ b # <<>> /\ h.batch = Tail(b)
             /\ h.owns = task[s].owns /\ h.aborted = task[s].aborted /\ h.group = task[s].group
    <3>1. b = task[s].batch /\ Queue /\ task[s].batch[1] = m + 1
      BY <1>2, <2>2, <2>3, <2>8
    <3> QED
      BY <1>1, <2>1, <2>4, <2>5, <2>8, <3>1
  <2> QED
    BY <2>4, <2>6, <2>7, <2>8
<1> QED
  BY <1>4, <1>5

LEMMA StepAck ==
  ASSUME RunnerShape, NEW s \in Servers, Ack(s) PROVE RunnerShape'
<1>1. /\ UNCHANGED <<lineVars, lock, assignee, scan, job, results, occurred>>
      /\ taken' = [taken EXCEPT ![task[s].group] = task[s].msg] \/ taken' = taken
  BY DEF Ack
<1>2. PICK t \in TaskSet : TaskSound(t) /\ task' = [task EXCEPT ![s] = t]
  BY AckHands
<1>3. task[s].msg \in 0..MaxMessage
  BY TaskOf DEF TaskSet
<1>4. BrokerShape'
  BY <1>1, <1>3 DEF RunnerShape, BrokerShape
<1> QED
  BY <1>1, <1>2, <1>4, NewTask

LEMMA StepAnswerCall ==
  ASSUME RunnerShape, NEW s \in Servers, AnswerCall(s) PROVE RunnerShape'
<1> DEFINE e == task[s].call
<1>1. /\ UNCHANGED <<lineVars, broker, scan, job, rows, pushed, occurred>> /\ task[s].pc = "wait"
      /\ total' = [total EXCEPT ![e] = @ + 1] /\ task' = [task EXCEPT ![s] = NoTask]
  BY DEF AnswerCall, At
<1>2. e \in Events
  BY <1>1, TaskOf DEF TaskSet, TaskSound
<1> HIDE DEF e
<1>3. ResultShape'
  BY <1>1, <1>2 DEF RunnerShape, ResultShape
<1> QED
  BY <1>1, <1>3, NoTaskSound, NewTask

LEMMA StepGiveUp ==
  ASSUME RunnerShape, NEW s \in Servers, GiveUp(s) PROVE RunnerShape'
BY NoTaskSound, NewTask DEF GiveUp

LEMMA StepEndTask ==
  ASSUME RunnerShape, NEW s \in Servers, EndTask(s) PROVE RunnerShape'
<1>1. /\ UNCHANGED <<lineVars, taken, scan, job, results, occurred>>
      /\ task' = [task EXCEPT ![s] = NoTask] /\ assignee' \in Leaves(s)
      /\ lock' = (lock /\ ~task[s].owns)
  BY DEF EndTask
<1>2. assignee' \subseteq Servers
  BY <1>1, MembersFit DEF RunnerShape, BrokerShape
<1>3. lock' \in BOOLEAN
  BY <1>1, Zenon
<1>4. BrokerShape'
  BY <1>1, <1>2, <1>3 DEF RunnerShape, BrokerShape
<1> QED
  BY <1>1, <1>4, NoTaskSound, NewTask

LEMMA StepLeaseLost ==
  ASSUME RunnerShape, NEW s \in Servers, LeaseLost(s)
  PROVE  /\ RunnerShape'
         /\ LET t == task'[s] IN
            /\ task' = [task EXCEPT ![s] = t] /\ ~t.owns
            /\ \A k \in {"pc", "aborted", "batch", "msg", "todo", "call", "group"} : t[k] = task[s][k]
<1> DEFINE h == [task[s] EXCEPT !.owns = FALSE]
<1>1. /\ UNCHANGED <<lineVars, taken, assignee, scan, job, results>> /\ Failure("pause")
      /\ task[s].owns /\ task' = [task EXCEPT ![s] = h] /\ lock' = FALSE
  BY DEF LeaseLost
<1>2. task[s] \in TaskSet /\ TaskSound(task[s]) /\ task[s].pc # "idle"
  BY <1>1, TaskOf DEF TaskSound, NoTask
<1>3. /\ h \in TaskSet /\ ~h.owns
      /\ \A k \in {"pc", "aborted", "batch", "msg", "todo", "call", "group"} : h[k] = task[s][k]
  BY <1>2 DEF TaskSet
<1>4. TaskSound(h)
  BY <1>2 DEF TaskSound, TaskSet, Handles
<1> HIDE DEF h
<1>5. BrokerShape' /\ PastShape'
  BY <1>1, FailureShape DEF RunnerShape, BrokerShape
<1>6. task'[s] = h
  BY <1>1 DEF RunnerShape, TaskShape
<1>7. RunnerShape'
  BY <1>1, <1>3, <1>4, <1>5, NewTask
<1> QED
  BY <1>1, <1>3, <1>6, <1>7

LEMMA StepRenewFails ==
  ASSUME RunnerShape, NEW s \in Servers, RenewFails(s)
  PROVE  /\ RunnerShape'
         /\ LET t == task'[s] IN
            /\ task' = [task EXCEPT ![s] = t] /\ t.aborted /\ ~task[s].owns
            /\ \A k \in {"pc", "owns", "batch", "msg", "todo", "call", "group"} : t[k] = task[s][k]
<1> DEFINE h == [task[s] EXCEPT !.aborted = TRUE]
<1>1. /\ UNCHANGED <<lineVars, broker, scan, job, results, occurred>>
      /\ task' = [task EXCEPT ![s] = h] /\ ~task[s].owns /\ task[s].pc # "idle"
  BY DEF RenewFails, Engaged
<1>2. task[s] \in TaskSet /\ TaskSound(task[s])
  BY TaskOf
<1>3. /\ h \in TaskSet /\ TaskSound(h) /\ h.aborted
      /\ \A k \in {"pc", "owns", "batch", "msg", "todo", "call", "group"} : h[k] = task[s][k]
  BY <1>1, <1>2, AbortedFits
<1> HIDE DEF h
<1>6. task'[s] = h
  BY <1>1 DEF RunnerShape, TaskShape
<1>7. RunnerShape'
  BY <1>1, <1>3, NewTask
<1> QED
  BY <1>1, <1>3, <1>6, <1>7

LEMMA StepServerCrash ==
  ASSUME RunnerShape, NEW s \in Servers, ServerCrash(s) PROVE RunnerShape'
<1>1. /\ UNCHANGED <<lineVars, lock, taken, job, results>> /\ Failure("crash")
      /\ task' = [task EXCEPT ![s] = NoTask] /\ scan' = [scan EXCEPT ![s] = NoScan]
      /\ assignee' \in Leaves(s)
  BY DEF ServerCrash
<1>2. TaskShape' /\ ScanShape'
  BY <1>1, OneTask, OneScan, NoTaskSound, NoScanSound DEF RunnerShape, lineVars
<1>3. BrokerShape' /\ PastShape'
  BY <1>1, MembersFit, FailureShape DEF RunnerShape, BrokerShape
<1>4. LineShape' /\ ResultShape'
  BY <1>1, KeptShape
<1> QED
  BY <1>2, <1>3, <1>4 DEF RunnerShape

LEMMA StepLockExpires == ASSUME RunnerShape, LockExpires PROVE RunnerShape'
<1>1. lock' = FALSE /\ UNCHANGED <<lineVars, taken, assignee, task, scan, job, results, occurred>>
  BY DEF LockExpires
<1>2. BrokerShape'
  BY <1>1 DEF RunnerShape, BrokerShape
<1> QED
  BY <1>1, <1>2, KeptShape DEF RunnerShape, lineVars

LEMMA StepFinish ==
  ASSUME RunnerShape, NEW e \in Events, NEW m \in Messages, Finish(e, m) PROVE RunnerShape'
<1>1. /\ job' = [job EXCEPT ![e][m] = "row"]
      /\ UNCHANGED <<lineVars, broker, task, scan, total, pushed>>
  BY DEF Finish
<1>2. rows[e] \in Seq(Messages)
  BY DEF RunnerShape, ResultShape
<1> DEFINE r == rows[e]
<1>3. \E q \in Seq(Messages) : rows' = [rows EXCEPT ![e] = q]
  <2>1. CASE rows' = [rows EXCEPT ![e] = Append(@, m)]
    <3>1. Append(r, m) \in Seq(Messages) /\ rows' = [rows EXCEPT ![e] = Append(r, m)]
      BY <1>2, <2>1
    <3> QED
      BY <3>1
  <2>2. CASE r # <<>> /\ rows' = [rows EXCEPT ![e] = InsertAt(@, Len(@), m)]
    <3>1. r \in Seq(Messages) /\ Len(r) \in Nat /\ Len(r) >= 1
      BY <1>2, <2>2
    <3>2. InsertAt(r, Len(r), m) = SubSeq(r, 1, Len(r) - 1) \o <<m>> \o SubSeq(r, Len(r), Len(r))
      BY DEF InsertAt
    <3>3. rows' = [rows EXCEPT ![e] = InsertAt(r, Len(r), m)]
      BY <2>2
    <3> HIDE DEF r
    <3>4. \A i \in Int, j \in Int : (1 <= i /\ j <= Len(r)) => SubSeq(r, i, j) \in Seq(Messages)
      <4> TAKE i \in Int, j \in Int
      <4> HAVE 1 <= i /\ j <= Len(r)
      <4>1. \A k \in i..j : r[k] \in Messages
        BY <3>1
      <4> QED
        BY <4>1, SubSeqProperties
    <3>5. InsertAt(r, Len(r), m) \in Seq(Messages)
      BY <3>1, <3>2, <3>4
    <3> QED
      BY <3>3, <3>5
  <2> QED
    BY <2>1, <2>2 DEF Finish
<1>4. ResultShape'
  <2>1. job' \in [Events -> [Messages -> {"none", "queued", "row"}]]
    BY <1>1 DEF RunnerShape, ResultShape
  <2>2. rows' \in [Events -> Seq(Messages)]
    BY <1>3 DEF RunnerShape, ResultShape
  <2> QED
    BY <1>1, <2>1, <2>2 DEF RunnerShape, ResultShape
<1>5. PastShape'
  <2>1. CASE UNCHANGED occurred
    BY <2>1, KeptShape
  <2>2. CASE Failure("late")
    BY <2>2, FailureShape
  <2> QED
    BY <2>1, <2>2 DEF Finish
<1> QED
  BY <1>1, <1>4, <1>5, KeptShape DEF RunnerShape, lineVars

LEMMA InitShape == RunnerInit => RunnerShape
<1> SUFFICES ASSUME RunnerInit PROVE RunnerShape
  OBVIOUS
<1>1. PICK l \in Lines : driver = l.driver /\ mode = l.mode /\ laneOf = l.laneOf
  BY DEF RunnerInit
<1>2. l \in LineKinds
  BY RunnerAssumption
<1>3. lanes \in LanesInForce(laneOf)
  BY DEF RunnerInit
<1>4. LineShape
  <2>1. lanes \in [production : Events \cup {0}, canary : Events \cup {0}]
    BY <1>3 DEF LanesInForce
  <2>2. l = [driver |-> driver, mode |-> mode, laneOf |-> laneOf]
    BY <1>1, <1>2 DEF LineKinds
  <2>3. driver \in Drivers /\ mode \in {"split", "dual_run"}
    BY <1>1, <1>2 DEF LineKinds
  <2> QED
    BY <1>2, <1>3, <2>1, <2>2, <2>3 DEF LineShape
<1>5. TaskShape
  BY NoTaskSound DEF RunnerInit, TaskShape
<1>6. ScanShape
  BY NoScanSound DEF RunnerInit, ScanShape
<1>7. BrokerShape
  BY Bounds DEF RunnerInit, BrokerShape
<1>8. ResultShape /\ PastShape
  <2>1. <<>> \in Seq(Messages)
    OBVIOUS
  <2> QED
    BY <2>1 DEF RunnerInit, ResultShape, PastShape
<1> QED
  BY <1>4, <1>5, <1>6, <1>7, <1>8 DEF RunnerShape

\* The steps of one server.
ServerStep(s) ==
    \/ ScanStep(s) \/ ReadUncounted(s) \/ PushFails(s)
    \/ Receive(s) \/ TaskStep(s) \/ EnqueueFails(s)
    \/ LeaseLost(s) \/ RenewFails(s) \/ ServerCrash(s)

LEMMA ShapeStep == RunnerShape /\ [RunnerNext]_runnerVars => RunnerShape'
<1> SUFFICES ASSUME RunnerShape, [RunnerNext]_runnerVars PROVE RunnerShape'
  OBVIOUS
<1>1. CASE UNCHANGED runnerVars
  BY <1>1, KeptShape DEF runnerVars, lineVars, RunnerShape
<1>2. CASE ChangeLanes
  BY <1>2, StepChangeLanes
<1>3. ASSUME NEW s \in Servers, ServerStep(s) PROVE RunnerShape'
  <2>1. CASE ScanStep(s)
    BY <2>1, StepBeginScan, StepAttachResults, StepCountResults, StepPushResults,
       StepCompleteCanary, StepStopConsumer, StepStartTask DEF ScanStep
  <2>2. CASE TaskStep(s)
    BY <2>2, StepRead, StepRoute, StepEnqueue, StepAck, StepAnswerCall, StepGiveUp, StepEndTask
    DEF TaskStep
  <2>3. CASE ReadUncounted(s) \/ PushFails(s) \/ Receive(s) \/ EnqueueFails(s)
    BY <2>3, StepReadUncounted, StepPushFails, StepReceive, StepEnqueueFails
  <2>4. CASE LeaseLost(s) \/ RenewFails(s) \/ ServerCrash(s)
    BY <2>4, StepLeaseLost, StepRenewFails, StepServerCrash
  <2> QED
    BY <1>3, <2>1, <2>2, <2>3, <2>4 DEF ServerStep
<1>4. CASE LockExpires
  BY <1>4, StepLockExpires
<1>5. ASSUME NEW e \in Events, NEW m \in Messages, Finish(e, m) PROVE RunnerShape'
  BY <1>5, StepFinish
<1> QED
  BY <1>1, <1>2, <1>3, <1>4, <1>5 DEF RunnerNext, ServerStep

LEMMA ShapeHolds == RunnerSpec => []RunnerShape
BY InitShape, ShapeStep, PTL DEF RunnerSpec

\* A line, its consumers, scans, jobs and counters keep their shape for any
\* number of servers, events and messages, whatever fails.
THEOREM RunnerTypeCorrect == RunnerSpec => []RunnerTypeOK
BY ShapeHolds, ShapeOfTypes, PTL

-----------------------------------------------------------------------------
(* ReleaseRunner: who runs a message.                                       *)

OneOwner == \A s \in Servers : task[s].owns => lock /\ \A r \in Servers : task[r].owns => r = s

\* The jobs of a message that is run by the lane its hash selects.
Calm == "change" \notin occurred
Still == occurred \cap {"change", "stop"} = {}
Ran(e, m) == job[e][m] # "none"
Chosen(m) == IF lanes.canary # 0 /\ m \in Hits[lanes.canary] THEN lanes.canary ELSE lanes.production
ChosenTask(t) ==
    t.pc = "enqueue" => \A i \in 1..Len(t.todo) : t.todo[i] = Chosen(t.msg)
ChosenOnly ==
    mode = "split" /\ Still =>
       /\ \A e \in Events, m \in Messages : Ran(e, m) => e = Chosen(m)
       /\ \A s \in Servers : ChosenTask(task[s])

\* Nothing that was taken is left out: it has its jobs or is in hand.
Done(m) ==
    /\ \E e \in Events : Ran(e, m)
    /\ mode = "dual_run" /\ Calm => Ran(lanes.production, m)
Holds(t, m) == t.msg = m \/ \E i \in 1..Len(t.batch) : t.batch[i] = m
Serves ==
    /\ "bare" \notin occurred
    /\ driver = "kafka" \/ occurred \cap {"crash", "pause", "enqueue", "stop"} = {}
Taken(m) == \E g \in Groups : m \in (From(g) + 1)..taken[g]
ServingTask(t) ==
    /\ t.pc = "enqueue" /\ mode = "dual_run" /\ Calm =>
          Ran(lanes.production, t.msg) \/ Head(t.todo) = lanes.production
    /\ t.pc \in {"ack", "wait"} => Done(t.msg)
    /\ driver = "kafka" /\ Handles(t) => \A m \in (From(t.group) + 1)..(t.msg - 1) : Done(m)
    /\ driver # "kafka" => ~t.aborted /\ (Queue /\ t.pc # "idle" => t.owns)
NothingLeftOut ==
    Serves =>
       /\ lanes.production # 0
       /\ \A s \in Servers : ServingTask(task[s])
       /\ \A m \in Messages :
             Taken(m) => Done(m) \/ (driver # "kafka" /\ \E s \in Servers : Holds(task[s], m))
\* Only a canary that met a stop condition stops a consumer.
StopIsMet == \A s \in Servers : scan[s].pc = "stop" => "stop" \in occurred

LEMMA HandIs ==
  ASSUME RunnerShape, NEW m PROVE m \in InHand <=> \E s \in Servers : Holds(task[s], m)
<1>1. ASSUME NEW s \in Servers
      PROVE  m \in Range(task[s].batch) \cup {task[s].msg} <=> Holds(task[s], m)
  <2>1. task[s].batch \in Seq(Messages)
    BY TaskOf DEF TaskSet
  <2>2. DOMAIN task[s].batch = 1..Len(task[s].batch)
    BY <2>1
  <2> QED
    BY <2>2 DEF Range, Holds
<1> QED
  BY <1>1 DEF InHand

LEMMA ServedByParts ==
  RunnerShape /\ OneOwner /\ ChosenOnly /\ NothingLeftOut => ServedOnce
<1> SUFFICES ASSUME RunnerShape, OneOwner, ChosenOnly, NothingLeftOut PROVE ServedOnce
  OBVIOUS
<1>0. \A S : (\A x, y \in S : x = y) => Cardinality(S) <= 1
  <2> SUFFICES ASSUME NEW S, \A x, y \in S : x = y PROVE Cardinality(S) <= 1
    OBVIOUS
  <2>1. CASE S = {}
    BY <2>1, FS_EmptySet
  <2>2. CASE S # {}
    <3>1. PICK x : x \in S
      BY <2>2
    <3>2. S = {x}
      BY <3>1
    <3> QED
      BY <3>2, FS_Singleton
  <2> QED
    BY <2>1, <2>2
<1>1. Cardinality({s \in Servers : task[s].owns}) <= 1
  <2>1. \A x, y \in {s \in Servers : task[s].owns} : x = y
    BY DEF OneOwner
  <2> QED
    BY <1>0, <2>1
<1>2. ASSUME mode = "split", occurred \cap {"change", "stop"} = {}, NEW m \in Messages
      PROVE  Cardinality(RunBy(m)) <= 1
  <2>1. \A x, y \in RunBy(m) : x = y
    BY <1>2 DEF RunBy, ChosenOnly, Still, Ran
  <2> QED
    BY <1>0, <2>1
<1>3. ASSUME "bare" \notin occurred,
             driver = "kafka" \/ occurred \cap {"crash", "pause", "enqueue", "stop"} = {},
             NEW g \in Groups, NEW m \in ((From(g) + 1)..taken[g]) \ InHand
      PROVE  RunBy(m) # {} /\ (mode = "dual_run" /\ "change" \notin occurred => lanes.production \in RunBy(m))
  <2>0. m \in Messages /\ Taken(m)
    <3>1. From(g) \in Nat /\ taken[g] \in Nat /\ taken[g] <= MaxMessage /\ MaxMessage \in Nat
      BY Bounds DEF RunnerShape, BrokerShape
    <3> QED
      BY <3>1 DEF Messages, Taken
  <2>1. Done(m) /\ lanes.production # 0
    BY <1>3, <2>0, HandIs DEF NothingLeftOut, Serves
  <2>2. lanes.production \in Events
    BY <2>1 DEF RunnerShape, LineShape
  <2> QED
    BY <2>1, <2>2 DEF Done, RunBy, Ran, Calm
<1> QED
  BY <1>1, <1>2, <1>3 DEF ServedOnce

\* What no step undoes: the driver and the mode, what happened, the jobs; and
\* without a change the production, without a stop condition the canary.
Onward ==
    /\ driver' = driver /\ mode' = mode
    /\ occurred \subseteq occurred'
    /\ "change" \in occurred' \/ "stop" \in occurred' \/ lanes' = lanes
    /\ "change" \in occurred' \/ lanes'.production = lanes.production
    /\ "bare" \in occurred' \/ lanes'.production = lanes.production \/ lanes'.production # 0
    /\ \A e \in Events, m \in Messages : Ran(e, m) => Ran(e, m)'

LEMMA OnwardStep == RunnerShape /\ [RunnerNext]_runnerVars => Onward
<1> SUFFICES ASSUME RunnerShape, [RunnerNext]_runnerVars PROVE Onward
  OBVIOUS
<1>1. CASE UNCHANGED runnerVars
  BY <1>1 DEF runnerVars, lineVars, Onward, Ran
<1>2. CASE ChangeLanes
  BY <1>2 DEF ChangeLanes, Onward, Ran
<1>3. ASSUME NEW s \in Servers, ServerStep(s) PROVE Onward
  <2>1. CASE Enqueue(s)
    <3>1. UNCHANGED <<lineVars, occurred>>
      BY <2>1 DEF Enqueue
    <3>2. \A e \in Events, m \in Messages : Ran(e, m) => Ran(e, m)'
      BY <2>1, EnqueueHands DEF Ran
    <3> QED
      BY <3>1, <3>2 DEF Onward, lineVars
  <2>2. CASE BeginScan(s)
    BY <2>2 DEF BeginScan, lineVars, Onward, Ran
  <2>3. CASE PushFails(s) \/ EnqueueFails(s) \/ LeaseLost(s) \/ ServerCrash(s)
    BY <2>3 DEF PushFails, EnqueueFails, LeaseLost, ServerCrash, Failure, lineVars, Onward, Ran
  <2>4. CASE AttachResults(s) \/ CountResults(s) \/ PushResults(s) \/ StartTask(s) \/ ReadUncounted(s)
    BY <2>4 DEF AttachResults, CountResults, PushResults, StartTask, ReadUncounted, lineVars, Onward, Ran
  <2>6. CASE CompleteCanary(s)
    BY <2>6, StepCompleteCanary DEF Onward, Ran
  <2>7. CASE StopConsumer(s)
    BY <2>7, StepStopConsumer DEF lineVars, Onward, Ran
  <2>5. CASE \/ Read(s) \/ Receive(s) \/ Route(s) \/ Ack(s) \/ AnswerCall(s) \/ GiveUp(s)
             \/ EndTask(s) \/ RenewFails(s)
    BY <2>5 DEF Read, Receive, Route, Ack, AnswerCall, GiveUp, EndTask, RenewFails, lineVars, Onward, Ran
  <2> QED
    BY <1>3, <2>1, <2>2, <2>3, <2>4, <2>5, <2>6, <2>7 DEF ServerStep, ScanStep, TaskStep
<1>4. CASE LockExpires
  BY <1>4 DEF LockExpires, lineVars, Onward, Ran
<1>5. ASSUME NEW e \in Events, NEW m \in Messages, Finish(e, m) PROVE Onward
  <2>1. /\ job' = [job EXCEPT ![e][m] = "row"] /\ UNCHANGED lineVars
        /\ UNCHANGED occurred \/ Failure("late")
    BY <1>5 DEF Finish
  <2>2. job \in [Events -> [Messages -> {"none", "queued", "row"}]]
    BY DEF RunnerShape, ResultShape
  <2>3. \A d \in Events, k \in Messages : Ran(d, k) => Ran(d, k)'
    BY <2>1, <2>2 DEF Ran
  <2> QED
    BY <2>1, <2>3 DEF Failure, lineVars, Onward
<1> QED
  BY <1>1, <1>2, <1>3, <1>4, <1>5 DEF RunnerNext, ServerStep

LEMMA FewerOwners ==
  ASSUME OneOwner, \A s \in Servers : task'[s].owns => task[s].owns,
         lock' = lock \/ \A s \in Servers : ~task'[s].owns
  PROVE  OneOwner'
BY DEF OneOwner

\* One server's task changes and owns nothing new.
LEMMA NoNewOwner ==
  ASSUME RunnerShape, OneOwner, NEW s \in Servers, NEW t \in TaskSet,
         task' = [task EXCEPT ![s] = t], t.owns => task[s].owns,
         lock' = lock \/ (lock' = (lock /\ ~task[s].owns) /\ ~t.owns)
  PROVE  OneOwner'
<1>1. task'[s] = t /\ \A r \in Servers : r # s => task'[r] = task[r]
  BY DEF RunnerShape, TaskShape
<1>2. CASE lock' = lock
  BY <1>1, <1>2, FewerOwners
<1>3. CASE lock' = (lock /\ ~task[s].owns) /\ ~t.owns
  <2>1. CASE task[s].owns
    BY <1>1, <1>3, <2>1 DEF OneOwner
  <2>2. CASE ~task[s].owns
    <3>1. lock' = lock \/ (~lock /\ ~lock')
      BY <1>3, <2>2
    <3> QED
      BY <1>1, <2>2, <3>1 DEF OneOwner
  <2> QED
    BY <2>1, <2>2
<1> QED
  BY <1>2, <1>3

LEMMA OwnerServerStep ==
  ASSUME RunnerShape, OneOwner, NEW s \in Servers, ServerStep(s) PROVE OneOwner'
<1>1. CASE BeginScan(s)
  <2>1. CASE UNCHANGED task
    BY <1>1, <2>1, FewerOwners DEF BeginScan, broker
  <2>2. CASE task' = [task EXCEPT ![s].aborted = TRUE]
    <3> DEFINE t == [task[s] EXCEPT !.aborted = TRUE]
    <3>1. t \in TaskSet /\ t.owns = task[s].owns /\ task' = [task EXCEPT ![s] = t]
      BY <2>2, TaskOf DEF TaskSet
    <3> HIDE DEF t
    <3> QED
      BY <1>1, <3>1, NoNewOwner DEF BeginScan, broker
  <2> QED
    BY <1>1, <2>1, <2>2 DEF BeginScan
<1>2. CASE \/ AttachResults(s) \/ CountResults(s) \/ PushResults(s) \/ ReadUncounted(s) \/ PushFails(s)
  BY <1>2, FewerOwners DEF AttachResults, CountResults, PushResults, ReadUncounted, PushFails, broker
<1>13. CASE CompleteCanary(s)
  BY <1>13, StepCompleteCanary, FewerOwners DEF broker
<1>14. CASE StopConsumer(s)
  <2>1. lock' = lock
    BY <1>14, StepStopConsumer DEF broker
  <2>2. CASE task' = task
    BY <2>1, <2>2, FewerOwners
  <2>3. CASE task' = [task EXCEPT ![s] = task'[s]] /\ task'[s] \in TaskSet /\ task'[s].owns = task[s].owns
    BY <2>1, <2>3, NoNewOwner
  <2> QED
    BY <1>14, <2>2, <2>3, StepStopConsumer
<1>3. CASE StartTask(s)
  <2>1. CASE Starts(s)
    <3>1. \A r \in Servers : ~task[r].owns
      BY <2>1 DEF Starts, OneOwner
    <3>2. lock' = TRUE /\ \A r \in Servers : r # s => task'[r] = task[r]
      BY <1>3, <2>1 DEF StartTask, RunnerShape, TaskShape
    <3> QED
      BY <3>1, <3>2 DEF OneOwner
  <2> QED
    BY <1>3, <2>1, FewerOwners DEF StartTask
<1>4. CASE Read(s)
  BY <1>4, ReadHands, NoNewOwner DEF Read
<1>5. CASE Receive(s)
  BY <1>5, ReceiveHands, NoNewOwner DEF Receive
<1>6. CASE Route(s)
  <2>1. task'[s] \in TaskSet /\ task' = [task EXCEPT ![s] = task'[s]]
    BY <1>6, RouteHands
  <2>2. task'[s].owns => task[s].owns
    <3>1. ~NoTask.owns
      BY DEF NoTask
    <3>2. task'[s] = NoTask \/ task'[s].owns = task[s].owns
      BY <1>6, RouteHands
    <3> QED
      BY <3>1, <3>2
  <2>3. lock' = lock
    BY <1>6 DEF Route, broker
  <2>4. PICK t \in TaskSet : task' = [task EXCEPT ![s] = t] /\ (t.owns => task[s].owns)
    BY <2>1, <2>2
  <2> QED
    BY <2>3, <2>4, NoNewOwner
<1>7. CASE Enqueue(s)
  <2>1. PICK t \in TaskSet : task' = [task EXCEPT ![s] = t] /\ (t.owns => task[s].owns)
    BY <1>7, EnqueueHands
  <2>2. lock' = lock
    BY <1>7 DEF Enqueue, broker
  <2> QED
    BY <2>1, <2>2, NoNewOwner
<1>8. CASE Ack(s)
  BY <1>8, AckHands, NoNewOwner DEF Ack
<1>9. CASE EnqueueFails(s)
  BY <1>9, EnqueueFailsHands, NoNewOwner DEF EnqueueFails, broker
<1>10. CASE AnswerCall(s) \/ GiveUp(s) \/ EndTask(s) \/ ServerCrash(s)
  <2>1. task' = [task EXCEPT ![s] = NoTask] /\ NoTask \in TaskSet /\ ~NoTask.owns
    BY <1>10, NoTaskSound DEF AnswerCall, GiveUp, EndTask, ServerCrash, NoTask
  <2>2. lock' = lock \/ lock' = (lock /\ ~task[s].owns)
    BY <1>10 DEF AnswerCall, GiveUp, EndTask, ServerCrash, broker
  <2> QED
    BY <2>1, <2>2, NoNewOwner
<1>11. CASE RenewFails(s)
  <2>1. task'[s].owns = task[s].owns /\ task' = [task EXCEPT ![s] = task'[s]] /\ lock' = lock
    BY <1>11, StepRenewFails DEF RenewFails, broker
  <2>2. task'[s] \in TaskSet
    BY <1>11, StepRenewFails DEF RunnerShape, TaskShape
  <2> QED
    BY <2>1, <2>2, NoNewOwner
<1>12. CASE LeaseLost(s)
  <2>1. task[s].owns /\ lock' = FALSE
    BY <1>12 DEF LeaseLost
  <2>2. ~task'[s].owns /\ \A r \in Servers : r # s => task'[r] = task[r]
    BY <1>12, StepLeaseLost DEF RunnerShape, TaskShape
  <2> QED
    BY <2>1, <2>2 DEF OneOwner
<1> QED
  BY <1>1, <1>2, <1>3, <1>4, <1>5, <1>6, <1>7, <1>8, <1>9, <1>10, <1>11, <1>12, <1>13, <1>14
  DEF ServerStep, ScanStep, TaskStep

LEMMA OwnerStep == RunnerShape /\ OneOwner /\ [RunnerNext]_runnerVars => OneOwner'
<1> SUFFICES ASSUME RunnerShape, OneOwner, [RunnerNext]_runnerVars PROVE OneOwner'
  OBVIOUS
<1>1. CASE UNCHANGED runnerVars
  BY <1>1, FewerOwners DEF runnerVars, broker
<1>2. CASE ChangeLanes
  BY <1>2, FewerOwners DEF ChangeLanes, broker
<1>3. CASE LockExpires
  BY <1>3 DEF LockExpires, Orphaned, OneOwner
<1>4. ASSUME NEW e \in Events, NEW m \in Messages, Finish(e, m) PROVE OneOwner'
  BY <1>4, FewerOwners DEF Finish, broker
<1> QED
  BY <1>1, <1>2, <1>3, <1>4, OwnerServerStep DEF RunnerNext, ServerStep

-----------------------------------------------------------------------------
(* A message is run by the lane its hash selects.                           *)

LEMMA SelectedIs ==
  ASSUME RunnerShape, NEW m \in Messages
  PROVE  /\ mode = "split" => \A i \in 1..Len(Selected(m)) : Selected(m)[i] = Chosen(m)
         /\ mode = "dual_run" /\ lanes.production # 0 => Head(Selected(m)) = lanes.production
         /\ lanes.production # 0 => Selected(m) # <<>>
<1> DEFINE p == lanes.production
           c == lanes.canary
           hit == c # 0 /\ m \in Hits[c]
<1>1. mode \in {"split", "dual_run"}
  BY DEF RunnerShape, LineShape
<1>2. Selected(m) = OfLane(IF hit /\ mode = "split" THEN 0 ELSE p) \o OfLane(IF hit THEN c ELSE 0)
  BY DEF Selected
<1>3. Chosen(m) = IF hit THEN c ELSE p
  BY DEF Chosen
<1>4. hit => c # 0
  OBVIOUS
<1> HIDE DEF p, c, hit
<1>a. \A x, y : /\ <<>> \o <<x>> = <<x>> /\ <<x>> \o <<>> = <<x>> /\ <<>> \o <<>> = <<>>
               /\ Head(<<x>> \o <<y>>) = x /\ <<x>> \o <<y>> # <<>>
  <2> TAKE x, y
  <2>1. <<x>> \in Seq({x, y}) /\ <<y>> \in Seq({x, y}) /\ <<>> \in Seq({x, y})
    OBVIOUS
  <2>2. /\ <<>> \o <<x>> = <<x>> /\ <<x>> \o <<>> = <<x>> /\ <<>> \o <<>> = <<>>
    BY <2>1, ConcatEmptySeq
  <2>3. <<x>> \o <<y>> \in Seq({x, y}) /\ Len(<<x>> \o <<y>>) = 2 /\ (<<x>> \o <<y>>)[1] = x
    BY <2>1, ConcatProperties
  <2> QED
    BY <2>2, <2>3
<1>b. OfLane(0) = <<>> /\ \A x : x # 0 => OfLane(x) = <<x>>
  BY DEF OfLane
<1>5. CASE hit /\ mode = "split"
  <2>1. Selected(m) = OfLane(0) \o OfLane(c)
    BY <1>2, <1>5
  <2>2. Selected(m) = <<c>>
    BY <1>a, <1>b, <1>4, <1>5, <2>1
  <2> QED
    BY <1>3, <1>5, <2>2 DEF p
<1>6. CASE ~hit
  <2>1. Selected(m) = IF p = 0 THEN <<>> ELSE <<p>>
    <3>1. Selected(m) = OfLane(p) \o OfLane(0)
      BY <1>2, <1>6
    <3> QED
      BY <1>a, <1>b, <3>1
  <2> QED
    BY <1>3, <1>6, <2>1 DEF p
<1>7. CASE hit /\ mode = "dual_run"
  <2>1. Selected(m) = IF p = 0 THEN <<c>> ELSE <<p>> \o <<c>>
    <3>1. Selected(m) = OfLane(p) \o OfLane(c)
      BY <1>2, <1>7
    <3> QED
      BY <1>a, <1>b, <1>4, <1>7, <3>1
  <2> QED
    BY <1>a, <1>7, <2>1 DEF p
<1> QED
  BY <1>1, <1>5, <1>6, <1>7 DEF p

\* The tasks that choose no lane in a step keep their choice.
LEMMA ChosenKept ==
  ASSUME RunnerShape, ChosenOnly, Onward,
         \A e \in Events, m \in Messages : Ran(e, m)' => Ran(e, m),
         \A s \in Servers : \/ task'[s] = task[s] \/ task'[s].pc # "enqueue"
                            \/ /\ task'[s].pc = task[s].pc /\ task'[s].todo = task[s].todo
                               /\ task'[s].msg = task[s].msg
  PROVE  ChosenOnly'
<1> SUFFICES ASSUME mode' = "split", Still' PROVE ChosenOnly'
  BY DEF ChosenOnly
<1>1. mode = "split" /\ Still /\ lanes' = lanes
  BY DEF Onward, Still
<1>2. \A m : Chosen(m)' = Chosen(m)
  BY <1>1 DEF Chosen
<1>3. \A e \in Events, m \in Messages : Ran(e, m)' => e = Chosen(m)'
  BY <1>1, <1>2 DEF ChosenOnly
<1>4. ASSUME NEW s \in Servers, task'[s].pc = "enqueue", NEW i \in 1..Len(task'[s].todo)
      PROVE  task'[s].todo[i] = Chosen(task'[s].msg)
  <2>1. ChosenTask(task[s]) /\ task[s].pc = "enqueue"
    BY <1>1, <1>4 DEF ChosenOnly
  <2> QED
    BY <1>4, <2>1 DEF ChosenTask
<1>5. \A s \in Servers : ChosenTask(task[s])'
  BY <1>2, <1>4 DEF ChosenTask
<1> QED
  BY <1>3, <1>5 DEF ChosenOnly

LEMMA ChosenServerStep ==
  ASSUME RunnerShape, ChosenOnly, Onward, NEW s \in Servers, ServerStep(s) PROVE ChosenOnly'
<1>0. \A r \in Servers : \A t : task' = [task EXCEPT ![s] = t] => task'[s] = t /\ (r # s => task'[r] = task[r])
  BY DEF RunnerShape, TaskShape
<1>1. CASE BeginScan(s)
  <2>1. CASE UNCHANGED task
    BY <1>1, <2>1, ChosenKept DEF BeginScan, Ran
  <2>2. CASE task' = [task EXCEPT ![s].aborted = TRUE]
    <3> DEFINE t == [task[s] EXCEPT !.aborted = TRUE]
    <3>1. t.pc = task[s].pc /\ t.todo = task[s].todo /\ t.msg = task[s].msg /\ task' = [task EXCEPT ![s] = t]
      BY <2>2, TaskOf DEF TaskSet
    <3> HIDE DEF t
    <3> QED
      BY <1>0, <1>1, <3>1, ChosenKept DEF BeginScan, Ran
  <2> QED
    BY <1>1, <2>1, <2>2 DEF BeginScan
<1>2. CASE \/ AttachResults(s) \/ CountResults(s) \/ PushResults(s) \/ ReadUncounted(s) \/ PushFails(s)
  BY <1>2, ChosenKept DEF AttachResults, CountResults, PushResults, ReadUncounted, PushFails, results, Ran
<1>13. CASE CompleteCanary(s)
  BY <1>13, StepCompleteCanary, ChosenKept DEF Ran
<1>14. CASE StopConsumer(s)
  <2>1. \A r \in Servers : \/ task'[r] = task[r]
                          \/ /\ task'[r].pc = task[r].pc /\ task'[r].todo = task[r].todo
                             /\ task'[r].msg = task[r].msg
    BY <1>0, <1>14, StepStopConsumer
  <2>2. job' = job
    BY <1>14, StepStopConsumer
  <2> QED
    BY <2>1, <2>2, ChosenKept DEF Ran
<1>3. CASE StartTask(s)
  <2>1. CASE Starts(s)
    <3>1. PICK t : task' = [task EXCEPT ![s] = t] /\ t.pc # "enqueue"
      BY <1>3, <2>1, StartHands
    <3> QED
      BY <1>0, <1>3, <3>1, ChosenKept DEF StartTask, Ran
  <2> QED
    BY <1>3, <2>1, ChosenKept DEF StartTask, Ran
<1>4. CASE Read(s)
  BY <1>0, <1>4, ReadHands, ChosenKept DEF Read, Ran
<1>5. CASE Receive(s)
  BY <1>0, <1>5, ReceiveHands, ChosenKept DEF Receive, Ran
<1>6. CASE Route(s)
  <2> DEFINE t == task'[s]
             m == task[s].msg
  <2>1. \A r \in Servers : r # s => task'[r] = task[r]
    BY <1>0, <1>6, RouteHands
  <2>2. UNCHANGED <<lanes, mode, occurred, job>>
    BY <1>6 DEF Route, lineVars
  <2>3. m \in Messages /\ (t.pc = "enqueue" => t.todo = Selected(m) /\ t.msg = m)
    <3>1. NoTask.pc # "enqueue"
      BY DEF NoTask
    <3> QED
      BY <1>6, <3>1, RouteHands
  <2>4. mode = "split" => ChosenTask(t)
    BY <2>3, SelectedIs DEF ChosenTask
  <2>5. \A k : Chosen(k)' = Chosen(k)
    BY <2>2 DEF Chosen
  <2>6. mode' = "split" /\ Still' => \A r \in Servers : ChosenTask(task[r])'
    BY <2>1, <2>2, <2>4, <2>5 DEF ChosenOnly, ChosenTask, Still
  <2> QED
    BY <2>2, <2>5, <2>6 DEF ChosenOnly, Ran, Still
<1>7. CASE Enqueue(s)
  <2> DEFINE t == task'[s]
             m == task[s].msg
             e == Head(task[s].todo)
  <2>1. \A r \in Servers : r # s => task'[r] = task[r]
    <3>1. task' = [task EXCEPT ![s] = task'[s]]
      BY <1>7, EnqueueHands
    <3> QED
      BY <1>0, <3>1
  <2>2. UNCHANGED <<lanes, mode, occurred>>
    BY <1>7 DEF Enqueue, lineVars
  <2>3. \A k : Chosen(k)' = Chosen(k)
    BY <2>2 DEF Chosen
  <2>4. task[s].todo \in Seq(Events) /\ task[s].todo # <<>> /\ task[s].pc = "enqueue"
    BY <1>7, EnqueueHands, TaskOf DEF TaskSet
  <2>5. \A i \in 1..Len(Tail(task[s].todo)) : Tail(task[s].todo)[i] = task[s].todo[i + 1] /\ i + 1 \in 1..Len(task[s].todo)
    BY <2>4
  <2>6. CASE mode = "split" /\ Still
    <3>1. ChosenTask(task[s])
      BY <2>6 DEF ChosenOnly
    <3>2. e = Chosen(m)
      BY <2>4, <3>1 DEF ChosenTask
    <3>3. \A d \in Events, k \in Messages : Ran(d, k)' => Ran(d, k) \/ (d = e /\ k = m)
      BY <1>7, EnqueueHands DEF Ran
    <3>4. \A d \in Events, k \in Messages : Ran(d, k)' => d = Chosen(k)
      BY <2>6, <3>2, <3>3 DEF ChosenOnly
    <3>5. ChosenTask(t)
      <4>1. t.todo = Tail(task[s].todo) /\ t.msg = m
        BY <1>7, EnqueueHands
      <4> QED
        BY <2>4, <2>5, <3>1, <4>1 DEF ChosenTask
    <3>6. \A r \in Servers : ChosenTask(task'[r])
      BY <2>1, <2>6, <3>5 DEF ChosenOnly
    <3>7. \A r \in Servers : ChosenTask(task[r])'
      BY <2>3, <3>6 DEF ChosenTask
    <3> QED
      BY <2>3, <3>4, <3>7 DEF ChosenOnly
  <2> QED
    BY <2>2, <2>6 DEF ChosenOnly, Still
<1>8. CASE Ack(s)
  <2>1. task'[s].pc # "enqueue"
    BY <1>8, AckHands DEF NoTask
  <2> QED
    BY <1>0, <1>8, <2>1, AckHands, ChosenKept DEF Ack, Ran
<1>9. CASE EnqueueFails(s)
  BY <1>0, <1>9, EnqueueFailsHands, ChosenKept DEF EnqueueFails, Ran, Handles
<1>10. CASE AnswerCall(s) \/ GiveUp(s) \/ EndTask(s) \/ ServerCrash(s)
  <2>1. task' = [task EXCEPT ![s] = NoTask] /\ NoTask.pc # "enqueue" /\ job' = job
    BY <1>10 DEF AnswerCall, GiveUp, EndTask, ServerCrash, NoTask
  <2> QED
    BY <1>0, <2>1, ChosenKept DEF Ran
<1>11. CASE RenewFails(s)
  <2>1. /\ task'[s].pc = task[s].pc /\ task'[s].todo = task[s].todo /\ task'[s].msg = task[s].msg
        /\ task' = [task EXCEPT ![s] = task'[s]] /\ job' = job
    BY <1>11, StepRenewFails DEF RenewFails
  <2> QED
    BY <1>0, <2>1, ChosenKept DEF Ran
<1>12. CASE LeaseLost(s)
  <2>1. /\ task'[s].pc = task[s].pc /\ task'[s].todo = task[s].todo /\ task'[s].msg = task[s].msg
        /\ task' = [task EXCEPT ![s] = task'[s]] /\ job' = job
    BY <1>12, StepLeaseLost DEF LeaseLost
  <2> QED
    BY <1>0, <2>1, ChosenKept DEF Ran
<1> QED
  BY <1>1, <1>2, <1>3, <1>4, <1>5, <1>6, <1>7, <1>8, <1>9, <1>10, <1>11, <1>12, <1>13, <1>14
  DEF ServerStep, ScanStep, TaskStep

LEMMA ChosenStep == RunnerShape /\ ChosenOnly /\ [RunnerNext]_runnerVars => ChosenOnly'
<1> SUFFICES ASSUME RunnerShape, ChosenOnly, [RunnerNext]_runnerVars PROVE ChosenOnly'
  OBVIOUS
<1>0. Onward
  BY OnwardStep
<1>1. CASE UNCHANGED runnerVars
  BY <1>0, <1>1, ChosenKept DEF runnerVars, Ran
<1>2. CASE ChangeLanes
  BY <1>0, <1>2, ChosenKept DEF ChangeLanes, Ran
<1>3. CASE LockExpires
  BY <1>0, <1>3, ChosenKept DEF LockExpires, Ran
<1>4. ASSUME NEW e \in Events, NEW m \in Messages, Finish(e, m) PROVE ChosenOnly'
  <2>1. job' = [job EXCEPT ![e][m] = "row"] /\ job[e][m] = "queued" /\ UNCHANGED task
    BY <1>4 DEF Finish
  <2>2. job \in [Events -> [Messages -> {"none", "queued", "row"}]]
    BY DEF RunnerShape, ResultShape
  <2>3. \A d \in Events, k \in Messages : Ran(d, k)' => Ran(d, k)
    BY <2>1, <2>2 DEF Ran
  <2> QED
    BY <1>0, <2>1, <2>3, ChosenKept
<1> QED
  BY <1>0, <1>1, <1>2, <1>3, <1>4, ChosenServerStep DEF RunnerNext, ServerStep

-----------------------------------------------------------------------------
(* Nothing that was taken is left out.                                      *)

LEMMA DoneKept ==
  ASSUME RunnerShape, Onward, lanes.production # 0, NEW m \in Messages, Done(m) PROVE Done(m)'
<1>1. lanes.production \in Events
  BY DEF RunnerShape, LineShape
<1>2. \E e \in Events : Ran(e, m)'
  BY DEF Done, Onward
<1>3. ASSUME mode' = "dual_run", Calm'
      PROVE  lanes'.production = lanes.production /\ job'[lanes.production][m] # "none"
  <2>1. lanes'.production = lanes.production /\ Ran(lanes.production, m)
    BY <1>3 DEF Done, Onward, Calm
  <2> QED
    BY <1>1, <2>1 DEF Onward, Ran
<1>4. mode' = "dual_run" /\ Calm' => job'[lanes'.production][m] # "none"
  BY <1>3
<1> QED
  BY <1>2, <1>4 DEF Done, Ran

LEMMA ServingSame ==
  ASSUME RunnerShape, Onward, lanes.production # 0, NEW s \in Servers, NEW r \in Servers,
         ServingTask(task[s]), task[s].pc = "enqueue" => task'[r].todo = task[s].todo,
         task'[r].pc = task[s].pc, task'[r].msg = task[s].msg, task'[r].group = task[s].group,
         driver # "kafka" => task'[r].aborted = task[s].aborted /\ task'[r].owns = task[s].owns
  PROVE  ServingTask(task[r])'
<1>0. task[s] \in TaskSet /\ TaskSound(task[s])
  BY TaskOf
<1>1. PICK k \in 0..MaxMessage : k = task[s].msg
  BY <1>0 DEF TaskSet
<1>2. task'[r].msg = k /\ (Handles(task[s]) => k \in Messages)
  BY <1>0, <1>1, Bounds DEF Handles, TaskSound, Messages
<1>3. ASSUME task'[r].pc = "enqueue", mode' = "dual_run", Calm'
      PROVE  Ran(lanes.production, k)' \/ Head(task'[r].todo) = lanes'.production
  <2>1. lanes'.production = lanes.production /\ Calm /\ mode = "dual_run" /\ lanes.production \in Events /\ k \in Messages
    BY <1>2, <1>3 DEF Onward, Calm, RunnerShape, LineShape, Handles
  <2>2. Ran(lanes.production, k) \/ Head(task[s].todo) = lanes.production
    BY <1>1, <1>3, <2>1 DEF ServingTask
  <2>3. Ran(lanes.production, k) => job'[lanes.production][k] # "none"
    BY <2>1 DEF Onward, Ran
  <2> QED
    BY <1>3, <2>1, <2>2, <2>3 DEF Ran
<1>4. ASSUME NEW m \in Messages, Done(m) PROVE Done(m)'
  BY <1>4, DoneKept
<1>5. task'[r].pc \in {"ack", "wait"} => Done(k)'
  BY <1>1, <1>2, <1>4 DEF ServingTask, Handles
<1>6. driver' = "kafka" /\ Handles(task'[r]) => \A m \in (From(task'[r].group) + 1)..(k - 1) : Done(m)'
  <2> SUFFICES ASSUME driver' = "kafka", Handles(task'[r]),
                      NEW m \in (From(task'[r].group) + 1)..(k - 1)
               PROVE  Done(m)'
    OBVIOUS
  <2>1. driver = "kafka" /\ Handles(task[s]) /\ k \in Messages
    BY <1>2 DEF Onward, Handles
  <2>2. m \in Messages /\ Done(m)
    <3>1. task[s].group \in Groups
      BY <1>0 DEF TaskSet
    <3>2. From(task[s].group) \in Nat
      BY <3>1, Bounds
    <3> QED
      BY <1>1, <2>1, <3>2, Bounds DEF Messages, ServingTask
  <2> QED
    BY <1>4, <2>2
<1>7. driver' # "kafka" => ~task'[r].aborted /\ (Queue' /\ task'[r].pc # "idle" => task'[r].owns)
  BY DEF ServingTask, Onward, Queue
<1> QED
  BY <1>2, <1>3, <1>5, <1>6, <1>7 DEF ServingTask, Done, Handles, Calm, Ran

\* One server's task goes on; the messages it lets go of are done.
LEMMA ServingOn ==
  ASSUME RunnerShape, NothingLeftOut, Onward, Serves', NEW s \in Servers,
         \A r \in Servers : r # s => task'[r] = task[r],
         ServingTask(task[s])',
         \A m \in Messages : Taken(m)' =>
            \/ Done(m)'
            \/ driver # "kafka" /\ Holds(task'[s], m)
            \/ Taken(m) /\ (Holds(task[s], m) => Holds(task'[s], m))
  PROVE  NothingLeftOut'
<1>1. Serves
  BY DEF Serves, Onward
<1>2. lanes.production # 0 /\ lanes'.production # 0
  BY <1>1 DEF NothingLeftOut, Onward, Serves
<1>3. ASSUME NEW r \in Servers, r # s PROVE ServingTask(task[r])'
  BY <1>1, <1>2, <1>3, ServingSame DEF NothingLeftOut
<1>4. \A r \in Servers : ServingTask(task[r])'
  BY <1>3
<1>5. ASSUME NEW m \in Messages, Taken(m)'
      PROVE  Done(m)' \/ (driver # "kafka" /\ \E r \in Servers : Holds(task'[r], m))
  <2>1. CASE Taken(m) /\ (Holds(task[s], m) => Holds(task'[s], m))
    <3>1. Done(m) \/ (driver # "kafka" /\ \E r \in Servers : Holds(task[r], m))
      BY <1>1, <2>1 DEF NothingLeftOut
    <3>3. Done(m) => Done(m)'
      BY <1>2, DoneKept
    <3> QED
      BY <2>1, <3>1, <3>3
  <2> QED
    BY <1>5, <2>1
<1>6. \A m \in Messages : Taken(m)' =>
         Done(m)' \/ (driver' # "kafka" /\ \E r \in Servers : Holds(task[r], m)')
  BY <1>5 DEF Onward, Holds
<1> QED
  BY <1>2, <1>4, <1>6 DEF NothingLeftOut

LEMMA ServingStill ==
  ASSUME RunnerShape, NothingLeftOut, Onward, Serves', task' = task, taken' = taken
  PROVE  NothingLeftOut'
<1>1. Serves
  BY DEF Serves, Onward
<1>2. lanes.production # 0 /\ lanes'.production # 0
  BY <1>1 DEF NothingLeftOut, Onward, Serves
<1>3. \A r \in Servers : ServingTask(task[r])'
  BY <1>1, <1>2, ServingSame DEF NothingLeftOut
<1>4. ASSUME NEW m \in Messages, Taken(m)
      PROVE  Done(m)' \/ (driver # "kafka" /\ \E r \in Servers : Holds(task[r], m))
  BY <1>1, <1>2, <1>4, DoneKept DEF NothingLeftOut
<1>5. \A m \in Messages : Taken(m)' =>
         Done(m)' \/ (driver' # "kafka" /\ \E r \in Servers : Holds(task[r], m)')
  BY <1>4 DEF Onward, Holds, Taken
<1> QED
  BY <1>2, <1>3, <1>5 DEF NothingLeftOut

\* A task that has nothing in hand and is not aborted serves.
LEMMA IdleServes ==
  ASSUME NEW s \in Servers, ~Handles(task'[s]),
         driver' = "kafka" \/ (~task'[s].aborted /\ (Queue' /\ task'[s].pc # "idle" => task'[s].owns))
  PROVE  ServingTask(task[s])'
BY DEF ServingTask, Handles

LEMMA HoldsNothing ==
  ASSUME RunnerShape, NEW s \in Servers, ~Handles(task[s]), NEW m \in 1..MaxMessage
  PROVE  ~Holds(task[s], m)
<1>1. task[s].batch = <<>> /\ task[s].msg = 0
  BY TaskOf DEF Handles, TaskSound, TaskSet, NoTask
<1> QED
  BY <1>1, Bounds DEF Holds

LEMMA ServingServerStep ==
  ASSUME RunnerShape, RunnerShape', StopIsMet, NothingLeftOut, Onward, Serves',
         NEW s \in Servers, ServerStep(s)
  PROVE  NothingLeftOut'
<1>a. Serves /\ driver' = driver
  BY DEF Serves, Onward
<1>b. /\ lanes.production # 0 /\ \A r \in Servers : ServingTask(task[r])
      /\ \A m \in Messages : Taken(m) =>
            Done(m) \/ (driver # "kafka" /\ \E r \in Servers : Holds(task[r], m))
  BY <1>a DEF NothingLeftOut
<1>c. \A m \in Messages : Done(m) => Done(m)'
  BY <1>b, DoneKept
<1>d. ASSUME NEW t, task' = [task EXCEPT ![s] = t]
      PROVE  task'[s] = t /\ \A r \in Servers : r # s => task'[r] = task[r]
  BY <1>d DEF RunnerShape, TaskShape
<1>e. /\ MaxMessage \in Nat /\ Messages = 1..MaxMessage
      /\ \A g \in Groups : taken[g] \in 0..MaxMessage /\ From(g) \in 0..MaxMessage
  BY Bounds DEF RunnerShape, BrokerShape, Messages
<1>k. ASSUME taken' = taken, NEW m \in Messages PROVE Taken(m)' <=> Taken(m)
  BY <1>k DEF Taken
<1>f. task[s] \in TaskSet /\ TaskSound(task[s]) /\ ServingTask(task[s])
  BY <1>b, TaskOf
<1>m. ASSUME driver = "kafka", Handles(task[s]), NEW k \in (From(task[s].group) + 1)..(task[s].msg - 1)
      PROVE  k \in Messages /\ Done(k)
  <2>1. From(task[s].group) \in Nat /\ task[s].msg \in 0..MaxMessage
    BY <1>e, <1>f DEF TaskSet
  <2> QED
    BY <1>e, <1>f, <1>m, <2>1 DEF ServingTask
<1>g. Runnable
  BY <1>b DEF Runnable
<1>h. Queue' <=> Queue
  BY <1>a DEF Queue
<1>1. CASE BeginScan(s)
  <2>1. UNCHANGED task /\ UNCHANGED taken
    BY <1>1, <1>g DEF BeginScan, broker
  <2> QED
    BY <2>1, ServingStill
<1>2. CASE \/ AttachResults(s) \/ CountResults(s) \/ PushResults(s) \/ ReadUncounted(s) \/ PushFails(s)
  <2>1. task' = task /\ taken' = taken
    BY <1>2 DEF AttachResults, CountResults, PushResults, ReadUncounted, PushFails, broker
  <2> QED
    BY <2>1, ServingStill
<1>14. CASE CompleteCanary(s)
  BY <1>14, StepCompleteCanary, ServingStill DEF broker
<1>15. CASE StopConsumer(s)
  <2>1. driver = "kafka"
    <3>1. "stop" \in occurred
      BY <1>15, StepStopConsumer DEF StopIsMet
    <3> QED
      BY <1>a, <3>1 DEF Serves
  <2>2. taken' = taken
    BY <1>15, StepStopConsumer DEF broker
  <2>3. CASE task' = task
    BY <2>2, <2>3, ServingStill
  <2>4. CASE /\ task' = [task EXCEPT ![s] = task'[s]] /\ task'[s].pc = task[s].pc
             /\ task'[s].msg = task[s].msg /\ task'[s].todo = task[s].todo
             /\ task'[s].batch = task[s].batch /\ task'[s].group = task[s].group
    <3>1. \A r \in Servers : r # s => task'[r] = task[r]
      BY <1>d, <2>4
    <3>2. ServingTask(task[s])'
      BY <1>b, <1>f, <2>1, <2>4, ServingSame
    <3>3. \A m \in Messages : Taken(m)' => Done(m)'
      BY <1>b, <1>c, <1>k, <2>1, <2>2
    <3> QED
      BY <3>1, <3>2, <3>3, ServingOn
  <2> QED
    BY <1>15, <2>3, <2>4, StepStopConsumer
<1>3. CASE StartTask(s)
  <2>1. CASE Starts(s)
    <3>1. taken' = taken
      BY <1>3 DEF StartTask
    <3>2. PICK t : /\ task' = [task EXCEPT ![s] = t]
                   /\ t.pc = "read" /\ t.owns /\ ~t.aborted
      BY <1>3, <2>1, StartHands
    <3>3. task'[s] = t /\ \A r \in Servers : r # s => task'[r] = task[r]
      BY <1>d, <3>2
    <3>4. ServingTask(task[s])'
      BY <3>2, <3>3, IdleServes DEF Handles
    <3>5. ~Handles(task[s])
      BY <2>1 DEF Starts, Engaged, Handles
    <3>6. \A m \in Messages : (Taken(m)' => Taken(m)) /\ ~Holds(task[s], m)
      BY <1>e, <1>k, <3>1, <3>5, HoldsNothing
    <3> QED
      BY <3>3, <3>4, <3>6, ServingOn
  <2>2. CASE ~Starts(s)
    BY <1>3, <2>2, ServingStill DEF StartTask
  <2> QED
    BY <2>1, <2>2
<1>4. CASE Read(s)
  <2>0. PICK g \in Groups : g = task[s].group
    BY <1>f DEF TaskSet
  <2>n. PICK n \in 0..MaxMessage : n = taken[g]
    BY <1>e
  <2>1. /\ task' = [task EXCEPT ![s] = task'[s]] /\ task'[s].group = g
        /\ task'[s].pc = "route" /\ task'[s].msg = n + 1 /\ task'[s].owns = task[s].owns
        /\ ~task'[s].aborted
        /\ \A m \in (n + 1)..ReadEnd(n) : Holds(task'[s], m)
    BY <1>4, <2>0, <2>n, ReadHands DEF Holds
  <2>2. \A r \in Servers : r # s => task'[r] = task[r]
    BY <1>d, <2>1
  <2>3. task[s].pc = "read" /\ n < MaxMessage /\ taken' = [taken EXCEPT ![g] = TakenByRead(n)]
    BY <1>4, <2>0, <2>n DEF Read, At
  <2>4. ReadEnd(n) \in (n + 1)..MaxMessage /\ (driver = "kafka" => TakenByRead(n) = n) /\ TakenByRead(n) \in {n, ReadEnd(n)}
    BY <2>3, ReadFits DEF TakenByRead
  <2>5. \A m \in Messages : ~Holds(task[s], m)
    BY <1>e, <2>3, HoldsNothing DEF Handles
  <2>6. ServingTask(task[s])'
    <3>1. driver = "kafka" => \A m \in (From(g) + 1)..((n + 1) - 1) : Done(m)'
      <4> SUFFICES ASSUME driver = "kafka", NEW m \in (From(g) + 1)..((n + 1) - 1) PROVE Done(m)'
        OBVIOUS
      <4>1. m \in Messages /\ Taken(m)
        BY <1>e, <2>n DEF Taken
      <4> QED
        BY <1>b, <1>c, <4>1
    <3>2. driver # "kafka" => (Queue => task[s].owns)
      BY <1>f, <2>3 DEF ServingTask
    <3> QED
      BY <1>a, <1>h, <2>1, <3>1, <3>2 DEF ServingTask, Handles, Done
  <2>7. ASSUME NEW m \in Messages, Taken(m)'
        PROVE  Taken(m) \/ (driver # "kafka" /\ m \in (n + 1)..ReadEnd(n))
    <3>1. PICK h \in Groups : m \in (From(h) + 1)..taken'[h]
      BY <2>7 DEF Taken
    <3>2. taken \in [Groups -> 0..MaxMessage]
      BY DEF RunnerShape, BrokerShape
    <3>3. taken'[h] = IF h = g THEN TakenByRead(n) ELSE taken[h]
      BY <2>3, <3>2
    <3>4. CASE m \in (From(h) + 1)..taken[h]
      BY <3>4 DEF Taken
    <3>5. CASE m \notin (From(h) + 1)..taken[h]
      <4>1. h = g /\ TakenByRead(n) # n
        BY <2>n, <3>1, <3>3, <3>5
      <4>2. m \in (n + 1)..ReadEnd(n)
        BY <1>e, <2>4, <2>n, <3>1, <3>3, <3>5, <4>1
      <4> QED
        BY <2>4, <4>1, <4>2
    <3> QED
      BY <3>4, <3>5
  <2> QED
    BY <2>1, <2>2, <2>5, <2>6, <2>7, ServingOn
<1>5. CASE Receive(s)
  <2>1. /\ task' = [task EXCEPT ![s] = task'[s]]
        /\ task'[s].pc = "route" /\ task'[s].msg = taken["own"] + 1 /\ ~task'[s].aborted
    BY <1>5, ReceiveHands
  <2>2. \A r \in Servers : r # s => task'[r] = task[r]
    BY <1>d, <2>1
  <2>3. task[s].pc = "idle" /\ taken' = [taken EXCEPT !["own"] = taken["own"] + 1] /\ ~Queue
    BY <1>5 DEF Receive, At
  <2>4. driver # "kafka"
    BY <2>3 DEF Queue
  <2>5. \A m \in Messages : ~Holds(task[s], m)
    BY <1>e, <2>3, HoldsNothing DEF Handles
  <2>6. ServingTask(task[s])'
    BY <1>a, <1>h, <2>1, <2>3, <2>4 DEF ServingTask
  <2>7. ASSUME NEW m \in Messages, Taken(m)' PROVE Taken(m) \/ Holds(task'[s], m)
    <3>1. PICK h \in Groups : m \in (From(h) + 1)..taken'[h]
      BY <2>7 DEF Taken
    <3>2. taken \in [Groups -> 0..MaxMessage]
      BY DEF RunnerShape, BrokerShape
    <3>3. taken'[h] = IF h = "own" THEN taken["own"] + 1 ELSE taken[h]
      BY <2>3, <3>2
    <3>4. m \in (From(h) + 1)..taken[h] \/ (h = "own" /\ m = taken["own"] + 1)
      BY <1>e, <3>1, <3>3
    <3> QED
      BY <2>1, <3>4 DEF Holds, Taken
  <2> QED
    BY <2>2, <2>4, <2>5, <2>6, <2>7, ServingOn
<1>6. CASE Route(s)
  <2>1. PICK m \in Messages : m = task[s].msg
    BY <1>6, RouteHands
  <2>2. /\ task' = [task EXCEPT ![s] = task'[s]] /\ task[s].pc = "route"
        /\ task'[s].todo = Selected(m) /\ task'[s].msg = m /\ task'[s].batch = task[s].batch
        /\ task'[s].pc = IF Selected(m) = <<>> THEN "ack" ELSE "enqueue"
        /\ task'[s].owns = task[s].owns /\ task'[s].aborted = task[s].aborted
        /\ task'[s].group = task[s].group
    BY <1>6, <1>g, <2>1, RouteHands
  <2>3. \A r \in Servers : r # s => task'[r] = task[r]
    BY <1>d, <2>2
  <2>4. UNCHANGED <<lanes, mode, occurred, job, taken>>
    BY <1>6 DEF Route, lineVars, broker
  <2>5. task'[s].pc = "enqueue" /\ (mode = "dual_run" => Head(task'[s].todo) = lanes'.production)
    BY <1>b, <2>2, <2>4, SelectedIs
  <2>6. ServingTask(task[s])'
    <3>1. driver = "kafka" => \A k \in (From(task'[s].group) + 1)..(m - 1) : Done(k)'
      BY <1>c, <1>m, <2>1, <2>2 DEF Handles
    <3>2. driver # "kafka" => ~task[s].aborted /\ (Queue => task[s].owns)
      BY <1>f, <2>2 DEF ServingTask
    <3> QED
      BY <1>a, <1>h, <2>2, <2>4, <2>5, <3>1, <3>2 DEF ServingTask, Done
  <2>7. \A k : Holds(task[s], k) => Holds(task'[s], k)
    BY <2>1, <2>2 DEF Holds
  <2> QED
    BY <1>k, <2>3, <2>4, <2>6, <2>7, ServingOn
<1>7. CASE Enqueue(s)
  <2>1. PICK m \in Messages : m = task[s].msg
    BY <1>7, EnqueueHands
  <2>2. PICK e \in Events : e = Head(task[s].todo)
    BY <1>7, EnqueueHands
  <2>3. /\ task' = [task EXCEPT ![s] = task'[s]] /\ task[s].pc = "enqueue"
        /\ task'[s].todo = Tail(task[s].todo) /\ task'[s].msg = m /\ task'[s].batch = task[s].batch
        /\ task'[s].pc \in {"ack", "enqueue"}
        /\ task'[s].owns = task[s].owns /\ task'[s].aborted = task[s].aborted
        /\ task'[s].group = task[s].group
    BY <1>7, <2>1, EnqueueHands
  <2>4. \A r \in Servers : r # s => task'[r] = task[r]
    BY <1>d, <2>3
  <2>5. UNCHANGED <<lanes, mode, occurred, taken>>
    BY <1>7 DEF Enqueue, lineVars, broker
  <2>6. job'[e][m] # "none" /\ \A d \in Events : Ran(d, m) => job'[d][m] # "none"
    <3>1. \A d \in Events : job'[d][m] = IF d = e /\ job[d][m] = "none" THEN "queued" ELSE job[d][m]
      BY <1>7, <2>1, <2>2, EnqueueHands
    <3> QED
      BY <3>1 DEF Ran
  <2>7. mode = "dual_run" /\ Calm => job'[lanes.production][m] # "none"
    <3>1. lanes.production \in Events
      BY <1>b DEF RunnerShape, LineShape
    <3> QED
      BY <1>f, <2>1, <2>2, <2>3, <2>6, <3>1 DEF ServingTask
  <2>8. Done(m)'
    BY <2>5, <2>6, <2>7 DEF Done, Ran, Calm
  <2>9. ServingTask(task[s])'
    <3>1. driver = "kafka" => \A k \in (From(task'[s].group) + 1)..(m - 1) : Done(k)'
      BY <1>c, <1>m, <2>1, <2>3 DEF Handles
    <3>2. driver # "kafka" => ~task[s].aborted /\ (Queue => task[s].owns)
      BY <1>f, <2>3 DEF ServingTask
    <3> QED
      BY <1>a, <1>h, <2>3, <2>5, <2>7, <2>8, <3>1, <3>2 DEF ServingTask, Done, Ran, Calm
  <2>10. \A k : Holds(task[s], k) => Holds(task'[s], k)
    BY <2>1, <2>3 DEF Holds
  <2> QED
    BY <1>k, <2>4, <2>5, <2>9, <2>10, ServingOn
<1>8. CASE EnqueueFails(s)
  <2>1. driver = "kafka"
    <3>1. "enqueue" \in occurred'
      BY <1>8 DEF EnqueueFails, Failure
    <3> QED
      BY <1>a, <3>1 DEF Serves
  <2>2. ~Handles(task'[s]) /\ task' = [task EXCEPT ![s] = task'[s]] /\ taken' = taken
    BY <1>8, EnqueueFailsHands DEF EnqueueFails, broker
  <2>3. \A r \in Servers : r # s => task'[r] = task[r]
    BY <1>d, <2>2
  <2>4. ServingTask(task[s])'
    BY <1>a, <2>1, <2>2, IdleServes
  <2>5. \A m \in Messages : Taken(m)' => Done(m)'
    BY <1>b, <1>c, <1>k, <2>1, <2>2
  <2> QED
    BY <2>3, <2>4, <2>5, ServingOn
<1>9. CASE AnswerCall(s) \/ GiveUp(s)
  <2>1. task' = [task EXCEPT ![s] = NoTask] /\ taken' = taken /\ task[s].pc = "wait"
    BY <1>9 DEF AnswerCall, GiveUp, At, broker
  <2>2. task'[s] = NoTask /\ \A r \in Servers : r # s => task'[r] = task[r]
    BY <1>d, <2>1
  <2>3. ServingTask(task[s])'
    <3>1. NoTask.pc = "idle" /\ ~NoTask.aborted
      BY DEF NoTask
    <3> QED
      BY <2>2, <3>1, IdleServes DEF Handles
  <2>4. task[s].batch = <<>> /\ Done(task[s].msg)
    BY <1>f, <2>1 DEF TaskSound, ServingTask, Queue
  <2>5. ASSUME NEW m \in Messages, Holds(task[s], m) PROVE Done(m)'
    <3>1. m = task[s].msg
      BY <2>4, <2>5 DEF Holds
    <3> QED
      BY <1>c, <2>4, <3>1
  <2> QED
    BY <1>k, <2>1, <2>2, <2>3, <2>5, ServingOn
<1>10. CASE EndTask(s) \/ ServerCrash(s)
  <2>1. driver = "kafka"
    <3>1. CASE EndTask(s)
      BY <1>f, <3>1 DEF EndTask, ServingTask
    <3>2. CASE ServerCrash(s)
      <4>1. "crash" \in occurred'
        BY <3>2 DEF ServerCrash, Failure
      <4> QED
        BY <1>a, <4>1 DEF Serves
    <3> QED
      BY <1>10, <3>1, <3>2
  <2>2. task' = [task EXCEPT ![s] = NoTask] /\ taken' = taken
    BY <1>10 DEF EndTask, ServerCrash
  <2>3. task'[s] = NoTask /\ \A r \in Servers : r # s => task'[r] = task[r]
    BY <1>d, <2>2
  <2>4. ServingTask(task[s])'
    <3>1. NoTask.pc = "idle"
      BY DEF NoTask
    <3> QED
      BY <1>a, <2>1, <2>3, <3>1, IdleServes DEF Handles
  <2>5. \A m \in Messages : Taken(m)' => Done(m)'
    BY <1>b, <1>c, <1>k, <2>1, <2>2
  <2> QED
    BY <2>3, <2>4, <2>5, ServingOn
<1>11. CASE RenewFails(s)
  <2>1. /\ task' = [task EXCEPT ![s] = task'[s]] /\ taken' = taken /\ ~task[s].owns /\ Queue /\ task[s].pc # "idle"
        /\ task'[s].pc = task[s].pc /\ task'[s].msg = task[s].msg /\ task'[s].todo = task[s].todo
        /\ task'[s].batch = task[s].batch /\ task'[s].group = task[s].group
    BY <1>11, StepRenewFails DEF RenewFails, Engaged, broker
  <2>2. driver = "kafka"
    BY <1>f, <2>1 DEF ServingTask
  <2>3. \A r \in Servers : r # s => task'[r] = task[r]
    BY <1>d, <2>1
  <2>4. ServingTask(task[s])'
    BY <1>b, <1>f, <2>1, <2>2, ServingSame
  <2>5. \A m \in Messages : Taken(m)' => Done(m)'
    BY <1>b, <1>c, <1>k, <2>1, <2>2
  <2> QED
    BY <2>3, <2>4, <2>5, ServingOn
<1>12. CASE LeaseLost(s)
  <2>1. /\ task' = [task EXCEPT ![s] = task'[s]] /\ taken' = taken
        /\ task'[s].pc = task[s].pc /\ task'[s].msg = task[s].msg /\ task'[s].todo = task[s].todo
        /\ task'[s].batch = task[s].batch /\ task'[s].group = task[s].group
    BY <1>12, StepLeaseLost DEF LeaseLost
  <2>2. driver = "kafka"
    <3>1. "pause" \in occurred'
      BY <1>12 DEF LeaseLost, Failure
    <3> QED
      BY <1>a, <3>1 DEF Serves
  <2>3. \A r \in Servers : r # s => task'[r] = task[r]
    BY <1>d, <2>1
  <2>4. ServingTask(task[s])'
    BY <1>b, <1>f, <2>1, <2>2, ServingSame
  <2>5. \A m \in Messages : Taken(m)' => Done(m)'
    BY <1>b, <1>c, <1>k, <2>1, <2>2
  <2> QED
    BY <2>3, <2>4, <2>5, ServingOn
<1>13. CASE Ack(s)
  <2>1. PICK m \in Messages : m = task[s].msg
    BY <1>13, AckHands
  <2>2. task' = [task EXCEPT ![s] = task'[s]] /\ task[s].pc = "ack"
    BY <1>13, AckHands
  <2>3. \A r \in Servers : r # s => task'[r] = task[r]
    BY <1>d, <2>2
  <2>4. Done(m) /\ Done(m)'
    BY <1>c, <1>f, <2>1, <2>2 DEF ServingTask
  <2>5. driver # "kafka" => ~task[s].aborted /\ (Queue => task[s].owns)
    BY <1>f, <2>2 DEF ServingTask
  <2>0. PICK g \in Groups : g = task[s].group
    BY <1>f DEF TaskSet
  <2>6. driver = "kafka" => \A k \in (From(g) + 1)..m : Done(k)'
    <3> SUFFICES ASSUME driver = "kafka", NEW k \in (From(g) + 1)..m PROVE Done(k)'
      OBVIOUS
    <3>0. From(g) \in Nat /\ m \in Nat
      BY <1>e
    <3>1. CASE k = m
      BY <2>4, <3>1
    <3>2. CASE k \in (From(g) + 1)..(m - 1)
      BY <1>c, <1>m, <2>0, <2>1, <2>2, <3>2 DEF Handles
    <3> QED
      BY <3>0, <3>1, <3>2
  <2>7. (driver = "kafka" /\ taken' = [taken EXCEPT ![g] = m]) \/ taken' = taken
    BY <1>13, <2>0, <2>1 DEF Ack
  <2>8. ASSUME driver = "kafka", NEW k \in Messages, Taken(k)' PROVE Done(k)'
    <3>1. CASE Taken(k)
      BY <1>b, <1>c, <2>8, <3>1
    <3>2. CASE ~Taken(k)
      <4>1. PICK h \in Groups : k \in (From(h) + 1)..taken'[h] /\ k \notin (From(h) + 1)..taken[h]
        BY <2>8, <3>2 DEF Taken
      <4>2. taken \in [Groups -> 0..MaxMessage]
        BY DEF RunnerShape, BrokerShape
      <4>3. h = g /\ taken'[h] = m
        BY <2>7, <4>1, <4>2
      <4> QED
        BY <2>6, <2>8, <4>1, <4>3
    <3> QED
      BY <3>1, <3>2
  <2>9. CASE task'[s].pc = "wait"
    <3>1. task'[s].msg = m /\ task'[s].batch = task[s].batch /\ task'[s].aborted = task[s].aborted /\ driver = "sync"
      BY <1>13, <2>1, <2>9, AckHands DEF NoTask
    <3>2. ServingTask(task[s])'
      BY <1>a, <2>4, <2>5, <2>9, <3>1 DEF ServingTask, Queue, Done
    <3>3. \A k : Holds(task[s], k) => Holds(task'[s], k)
      BY <2>1, <3>1 DEF Holds
    <3>4. taken' = taken
      BY <2>7, <3>1
    <3> QED
      BY <1>k, <2>3, <3>2, <3>3, <3>4, ServingOn
  <2>10. CASE task'[s] = NoTask /\ ~Queue
    <3>1. NoTask.pc = "idle" /\ ~NoTask.aborted
      BY DEF NoTask
    <3>2. ServingTask(task[s])'
      BY <1>h, <2>10, <3>1, IdleServes DEF Handles
    <3>3. task[s].batch = <<>> /\ driver # "kafka"
      BY <1>f, <2>10 DEF TaskSound, Queue
    <3>4. \A k \in Messages : (Taken(k)' => Taken(k)) /\ (Holds(task[s], k) => Done(k)')
      BY <1>k, <2>1, <2>4, <2>7, <3>3 DEF Holds
    <3> QED
      BY <2>3, <3>2, <3>4, ServingOn
  <2>11. CASE task'[s].pc = "read" /\ Queue
    <3>1. /\ task'[s].owns = task[s].owns /\ task'[s].aborted = task[s].aborted
          /\ driver = "kafka" \/ task[s].batch = <<>> \/ task[s].aborted
      BY <1>13, <2>11, AckHands DEF NoTask
    <3>2. ServingTask(task[s])'
      BY <1>a, <1>h, <2>5, <2>11, <3>1, IdleServes DEF Handles
    <3>3. driver # "kafka" => task[s].batch = <<>> /\ taken' = taken
      BY <2>5, <2>7, <3>1
    <3>4. \A k \in Messages : Taken(k)' => Done(k)' \/ (Taken(k) /\ (Holds(task[s], k) => Done(k)'))
      <4>1. CASE driver = "kafka"
        BY <2>8, <4>1
      <4>2. CASE driver # "kafka"
        BY <1>k, <2>1, <2>4, <3>3, <4>2 DEF Holds
      <4> QED
        BY <4>1, <4>2
    <3> QED
      BY <2>3, <3>2, <3>4, ServingOn
  <2>12. CASE task'[s].pc = "route"
    <3>1. /\ task'[s].msg = m + 1 /\ task'[s].batch = Tail(task[s].batch)
          /\ task[s].batch # <<>> /\ task[s].batch[1] = m + 1
          /\ task'[s].owns = task[s].owns /\ task'[s].aborted = task[s].aborted
          /\ task'[s].group = g
      BY <1>13, <2>0, <2>1, <2>12, AckHands DEF NoTask
    <3>2. driver = "kafka" => \A k \in (From(g) + 1)..((m + 1) - 1) : Done(k)'
      BY <1>e, <2>6
    <3>3. ServingTask(task[s])'
      BY <1>a, <1>h, <2>5, <2>12, <3>1, <3>2 DEF ServingTask, Done
    <3>4. \A k : Holds(task[s], k) => k = m \/ Holds(task'[s], k)
      <4> SUFFICES ASSUME NEW k, Holds(task[s], k), k # m PROVE Holds(task'[s], k)
        OBVIOUS
      <4>1. task[s].batch \in Seq(Messages)
        BY <1>f DEF TaskSet
      <4>2. PICK i \in 1..Len(task[s].batch) : task[s].batch[i] = k
        BY <2>1 DEF Holds
      <4>3. CASE i = 1
        BY <3>1, <4>2, <4>3 DEF Holds
      <4>4. CASE i # 1
        <5>1. i - 1 \in 1..Len(Tail(task[s].batch)) /\ Tail(task[s].batch)[i - 1] = k
          BY <3>1, <4>1, <4>2, <4>4
        <5> QED
          BY <3>1, <5>1 DEF Holds
      <4> QED
        BY <4>3, <4>4
    <3>5. \A k \in Messages : Taken(k)' =>
             Done(k)' \/ (Taken(k) /\ (Holds(task[s], k) => Holds(task'[s], k)))
      <4>1. CASE driver = "kafka"
        BY <2>8, <4>1
      <4>2. CASE driver # "kafka"
        BY <1>k, <2>4, <2>7, <3>4, <4>2
      <4> QED
        BY <4>1, <4>2
    <3> QED
      BY <2>3, <3>3, <3>5, ServingOn
  <2> QED
    BY <1>13, <2>9, <2>10, <2>11, <2>12, AckHands
<1> QED
  BY <1>1, <1>2, <1>3, <1>4, <1>5, <1>6, <1>7, <1>8, <1>9, <1>10, <1>11, <1>12, <1>13, <1>14, <1>15
  DEF ServerStep, ScanStep, TaskStep

LEMMA ServingStep ==
  RunnerShape /\ StopIsMet /\ NothingLeftOut /\ [RunnerNext]_runnerVars => NothingLeftOut'
<1> SUFFICES ASSUME RunnerShape, StopIsMet, NothingLeftOut, [RunnerNext]_runnerVars, Serves' PROVE NothingLeftOut'
  BY DEF NothingLeftOut
<1>0. Onward /\ RunnerShape'
  BY OnwardStep, ShapeStep
<1>1. CASE UNCHANGED runnerVars
  BY <1>0, <1>1, ServingStill DEF runnerVars, broker
<1>2. CASE ChangeLanes
  BY <1>0, <1>2, ServingStill DEF ChangeLanes, broker
<1>3. CASE LockExpires
  BY <1>0, <1>3, ServingStill DEF LockExpires
<1>4. ASSUME NEW e \in Events, NEW m \in Messages, Finish(e, m) PROVE NothingLeftOut'
  BY <1>0, <1>4, ServingStill DEF Finish, broker
<1> QED
  BY <1>0, <1>1, <1>2, <1>3, <1>4, ServingServerStep DEF RunnerNext, ServerStep

\* A scan comes to its stop by completing the canary.
LEMMA StopStep == RunnerShape /\ StopIsMet /\ [RunnerNext]_runnerVars => StopIsMet'
<1> SUFFICES ASSUME RunnerShape, StopIsMet, [RunnerNext]_runnerVars PROVE StopIsMet'
  OBVIOUS
<1>0. occurred \subseteq occurred'
  BY OnwardStep DEF Onward
<1>a. ASSUME scan' = scan PROVE StopIsMet'
  BY <1>0, <1>a DEF StopIsMet
<1>b. ASSUME NEW s \in Servers, NEW q, scan' = [scan EXCEPT ![s] = q], q.pc # "stop"
      PROVE  StopIsMet'
  <2>1. scan'[s] = q /\ \A r \in Servers : r # s => scan'[r] = scan[r]
    BY <1>b DEF RunnerShape, ScanShape
  <2> QED
    BY <1>0, <1>b, <2>1 DEF StopIsMet
<1>1. CASE UNCHANGED runnerVars \/ ChangeLanes \/ LockExpires
  BY <1>a, <1>1 DEF runnerVars, ChangeLanes, LockExpires
<1>2. ASSUME NEW e \in Events, NEW m \in Messages, Finish(e, m) PROVE StopIsMet'
  BY <1>a, <1>2 DEF Finish
<1>3. ASSUME NEW s \in Servers, ServerStep(s) PROVE StopIsMet'
  <2>1. CASE BeginScan(s)
    <3>1. [NoScan EXCEPT !.pc = "attach", !.todo = InForce, !.canary = lanes.canary].pc # "stop"
      BY DEF NoScan
    <3> QED
      BY <1>a, <1>b, <2>1, <3>1 DEF BeginScan
  <2>2. CASE AttachResults(s) \/ CountResults(s) \/ PushResults(s) \/ PushFails(s)
    <3>1. scan[s].todo # <<>> /\ scan[s] \in ScanSet
      BY <2>2, ScanOf DEF AttachResults, Attaches, CountResults, PushResults, PushFails, Scans, ScanSound
    <3>2. ASSUME NEW f \in Seq(Messages) PROVE Counted(scan[s], f).pc # "stop" /\ NextLane(scan[s]).pc # "stop"
      BY <3>1, CountedFits
    <3>3. Uncounted(Head(scan[s].todo)) \in Seq(Messages) /\ scan[s].found \in Seq(Messages)
      BY <3>1, ScanOf, UncountedFits DEF ScanSet
    <3>4. \E q : scan' = [scan EXCEPT ![s] = q] /\ q.pc # "stop"
      BY <2>2, <3>2, <3>3 DEF AttachResults, CountResults, PushResults, PushFails
    <3> QED
      BY <1>b, <3>4
  <2>3. CASE ReadUncounted(s)
    <3>1. [scan[s] EXCEPT !.pc = "count", !.found = Uncounted(Head(scan[s].todo))].pc # "stop"
      BY ScanOf DEF ScanSet
    <3>2. scan' = [scan EXCEPT ![s] = [scan[s] EXCEPT !.pc = "count",
                                                      !.found = Uncounted(Head(scan[s].todo))]]
      BY <2>3 DEF ReadUncounted
    <3> QED
      BY <1>b, <3>1, <3>2
  <2>4. CASE CompleteCanary(s)
    <3>1. "stop" \in occurred'
      BY <2>4, StepCompleteCanary
    <3> QED
      BY <3>1 DEF StopIsMet
  <2>5. CASE StopConsumer(s) \/ StartTask(s) \/ ServerCrash(s)
    <3>1. scan' = [scan EXCEPT ![s] = NoScan] /\ NoScan.pc # "stop"
      BY <2>5 DEF StopConsumer, StartTask, ServerCrash, NoScan
    <3> QED
      BY <1>b, <3>1
  <2>6. CASE \/ Read(s) \/ Receive(s) \/ Route(s) \/ Enqueue(s) \/ Ack(s) \/ AnswerCall(s)
             \/ GiveUp(s) \/ EndTask(s) \/ EnqueueFails(s) \/ LeaseLost(s) \/ RenewFails(s)
    BY <1>a, <2>6 DEF Read, Receive, Route, Enqueue, Ack, AnswerCall, GiveUp, EndTask,
                      EnqueueFails, LeaseLost, RenewFails
  <2> QED
    BY <1>3, <2>1, <2>2, <2>3, <2>4, <2>5, <2>6 DEF ServerStep, ScanStep, TaskStep
<1> QED
  BY <1>1, <1>2, <1>3 DEF RunnerNext, ServerStep

LEMMA ServedAtFirst == RunnerInit => OneOwner /\ ChosenOnly /\ StopIsMet /\ NothingLeftOut
<1> SUFFICES ASSUME RunnerInit PROVE OneOwner /\ ChosenOnly /\ StopIsMet /\ NothingLeftOut
  OBVIOUS
<1>1. \A s \in Servers : task[s].pc = "idle" /\ ~task[s].owns /\ ~task[s].aborted
  BY DEF RunnerInit, NoTask
<1>2. \A e \in Events, m \in Messages : ~Ran(e, m)
  BY DEF RunnerInit, Ran
<1>3. lanes.production = 1 /\ \A g \in Groups : taken[g] = From(g) /\ From(g) \in Nat
  BY Bounds DEF RunnerInit
<1>4. OneOwner /\ ChosenOnly
  BY <1>1, <1>2 DEF OneOwner, ChosenOnly, ChosenTask
<1>6. StopIsMet
  BY DEF RunnerInit, StopIsMet, NoScan
<1>7. \A m : ~Taken(m)
  BY <1>3 DEF Taken
<1>5. NothingLeftOut
  BY <1>1, <1>3, <1>7 DEF NothingLeftOut, ServingTask, Handles
<1> QED
  BY <1>4, <1>5, <1>6

\* 27-releases.md, section 5, for any number of servers, messages and events and
\* for both consumer groups of a Kafka line: a message is run by the lane its
\* hash selects, and none that a group took is left out, on Kafka whatever
\* crashes, pauses and fails and whichever canary is stopped on the way, on the
\* other connectors as long as none of that happens.
THEOREM MessagesAreServed == RunnerSpec => []ServedOnce
<1> DEFINE I == RunnerShape /\ OneOwner /\ ChosenOnly /\ StopIsMet /\ NothingLeftOut
<1>1. RunnerInit => I
  BY InitShape, ServedAtFirst
<1>2. I /\ [RunnerNext]_runnerVars => I'
  BY ShapeStep, OwnerStep, ChosenStep, StopStep, ServingStep
<1>3. I => ServedOnce
  BY ServedByParts
<1> QED
  BY <1>1, <1>2, <1>3, PTL DEF RunnerSpec

-----------------------------------------------------------------------------
(* A result is delivered once.                                              *)

Delivers == driver # "sync" /\ occurred \cap {"overlap", "late"} = {}
Distinct(f) == \A i, j \in 1..Len(f) : f[i] = f[j] => i = j
\* Every finished job has one row, and the counter is at one of them.
RowsOf(e) ==
    /\ total[e] <= Len(rows[e]) /\ Distinct(rows[e])
    /\ \A m \in Messages : job[e][m] = "row" <=> \E i \in 1..Len(rows[e]) : rows[e][i] = m
CountedRow(e, m) == \E i \in 1..total[e] : rows[e][i] = m
\* What was pushed is counted; what is counted is pushed, on its way or lost.
PushedRows(e) ==
    /\ \A m \in Messages : pushed[e][m] # 0 => pushed[e][m] = 1 /\ CountedRow(e, m)
    /\ \A i \in 1..total[e] : \/ pushed[e][rows[e][i]] = 1 \/ OnItsWay(e, rows[e][i])
                              \/ occurred \cap {"crash", "push"} # {}
\* A scan carries counted rows, each of them once, that nobody pushed.
Carries(q) ==
    q.pc = "push" =>
       /\ Distinct(q.found)
       /\ \A i \in 1..Len(q.found) : /\ pushed[Head(q.todo)][q.found[i]] = 0
                                     /\ CountedRow(Head(q.todo), q.found[i])
\* No two scans carry the same row of an event.
Apart(q, p) ==
    q.pc = "push" /\ p.pc = "push" /\ Head(q.todo) = Head(p.todo) =>
       \A i \in 1..Len(q.found), j \in 1..Len(p.found) : q.found[i] # p.found[j]
OnePush ==
    Delivers =>
       /\ \A e \in Events : RowsOf(e) /\ PushedRows(e)
       /\ \A s \in Servers : Carries(scan[s])
       /\ \A s, r \in Servers : s # r => Apart(scan[s], scan[r])

LEMMA WayIs ==
  ASSUME RunnerShape, NEW e, NEW m
  PROVE  OnItsWay(e, m) <=> \E s \in Servers : /\ scan[s].pc = "push" /\ Head(scan[s].todo) = e
                                               /\ \E i \in 1..Len(scan[s].found) : scan[s].found[i] = m
<1>1. ASSUME NEW s \in Servers
      PROVE  m \in Range(scan[s].found) <=> \E i \in 1..Len(scan[s].found) : scan[s].found[i] = m
  <2>1. DOMAIN scan[s].found = 1..Len(scan[s].found)
    BY ScanOf DEF ScanSet
  <2> QED
    BY <2>1 DEF Range
<1> QED
  BY <1>1 DEF OnItsWay

LEMMA RowIsMessage ==
  ASSUME RunnerShape, NEW e \in Events
  PROVE  /\ total[e] \in Nat /\ Len(rows[e]) \in Nat /\ rows[e] \in Seq(Messages)
         /\ \A i \in 1..Len(rows[e]) : rows[e][i] \in Messages
         /\ \A m \in Messages : pushed[e][m] \in Nat
BY DEF RunnerShape, ResultShape

LEMMA DeliveredByParts == RunnerShape /\ OnePush => PushedOnce
<1> SUFFICES ASSUME RunnerShape, OnePush, driver # "sync", occurred \cap {"overlap", "late"} = {},
                    NEW e \in Events
             PROVE  /\ total[e] <= Len(rows[e])
                    /\ \A i \in 1..Len(rows[e]) :
                          LET m == rows[e][i] IN
                          IF i > total[e] THEN pushed[e][m] = 0
                          ELSE /\ pushed[e][m] <= 1
                               /\ \/ pushed[e][m] = 1
                                  \/ OnItsWay(e, m)
                                  \/ occurred \cap {"crash", "push"} # {}
  BY DEF PushedOnce
<1>1. RowsOf(e) /\ PushedRows(e)
  BY DEF OnePush, Delivers
<1>2. ASSUME NEW i \in 1..Len(rows[e]), i > total[e] PROVE pushed[e][rows[e][i]] = 0
  <2>1. rows[e][i] \in Messages
    BY RowIsMessage
  <2>2. ASSUME NEW j \in 1..total[e] PROVE rows[e][j] # rows[e][i]
    <3>1. j \in 1..Len(rows[e]) /\ j # i
      BY <1>1, <1>2, <2>2, RowIsMessage DEF RowsOf
    <3> QED
      BY <1>1, <3>1 DEF RowsOf, Distinct
  <2> QED
    BY <1>1, <2>1, <2>2 DEF PushedRows, CountedRow
<1>3. ASSUME NEW i \in 1..Len(rows[e]), ~(i > total[e])
      PROVE  /\ pushed[e][rows[e][i]] <= 1
             /\ \/ pushed[e][rows[e][i]] = 1 \/ OnItsWay(e, rows[e][i])
                \/ occurred \cap {"crash", "push"} # {}
  <2>1. rows[e][i] \in Messages /\ i \in 1..total[e] /\ pushed[e][rows[e][i]] \in Nat
    BY <1>3, RowIsMessage
  <2> QED
    BY <1>1, <2>1 DEF PushedRows
<1> QED
  BY <1>1, <1>2, <1>3 DEF RowsOf

\* A step that leaves the results and the scans alone.
LEMMA PushKept ==
  ASSUME RunnerShape, OnePush, Onward, UNCHANGED <<scan, rows, total, pushed>>,
         \A e \in Events, m \in Messages : job'[e][m] = "row" <=> job[e][m] = "row"
  PROVE  OnePush'
<1> SUFFICES ASSUME Delivers' PROVE OnePush'
  BY DEF OnePush
<1>1. Delivers
  BY DEF Delivers, Onward
<1>2. /\ \A s \in Servers : Carries(scan[s])'
      /\ \A s, r \in Servers : s # r => Apart(scan[s], scan[r])'
  BY <1>1 DEF OnePush, Apart, Carries, CountedRow, Distinct
<1>3. ASSUME NEW e \in Events PROVE RowsOf(e)'
  BY <1>1 DEF OnePush, RowsOf, Distinct
<1>4. ASSUME NEW e \in Events PROVE PushedRows(e)'
  <2>1. PushedRows(e)
    BY <1>1 DEF OnePush
  <2>2. \A m : OnItsWay(e, m)' <=> OnItsWay(e, m)
    BY DEF OnItsWay
  <2>3. \A i \in 1..total[e] : \/ pushed[e][rows[e][i]] = 1 \/ OnItsWay(e, rows[e][i])'
                               \/ occurred' \cap {"crash", "push"} # {}
    BY <2>1, <2>2 DEF PushedRows, Onward
  <2> QED
    BY <2>1, <2>3 DEF PushedRows, CountedRow
<1> QED
  BY <1>2, <1>3, <1>4 DEF OnePush

\* A server that stands still still carries what it carried.
LEMMA CarriesOn ==
  ASSUME NEW r, Carries(scan[r]), scan'[r] = scan[r],
         \A e, m : CountedRow(e, m) => CountedRow(e, m)',
         \A i \in 1..Len(scan[r].found) :
            pushed[Head(scan[r].todo)][scan[r].found[i]] = 0 =>
               pushed'[Head(scan[r].todo)][scan[r].found[i]] = 0
  PROVE  Carries(scan[r])'
<1> SUFFICES ASSUME scan[r].pc = "push" PROVE Carries(scan[r])'
  BY DEF Carries
<1>1. PICK g, e : g = scan[r].found /\ e = Head(scan[r].todo)
  OBVIOUS
<1>2. Distinct(g) /\ \A i \in 1..Len(g) : pushed[e][g[i]] = 0 /\ CountedRow(e, g[i])
  BY <1>1 DEF Carries
<1>3. \A i \in 1..Len(g) : pushed'[e][g[i]] = 0 /\ CountedRow(e, g[i])'
  BY <1>1, <1>2
<1>4. \A i \in 1..Len(g) : \E k \in 1..total'[e] : rows'[e][k] = g[i]
  BY <1>3 DEF CountedRow
<1>5. scan'[r].found = g /\ Head(scan'[r].todo) = e
  BY <1>1
<1> QED
  BY <1>2, <1>3, <1>4, <1>5 DEF Carries, CountedRow, Distinct

\* A server that carries nothing afterwards, and lost at most what it carried.
LEMMA PushDropped ==
  ASSUME RunnerShape, OnePush, Onward, UNCHANGED <<rows, total, pushed, job>>, NEW s \in Servers,
         \A r \in Servers : r # s => scan'[r] = scan[r], scan'[s].pc # "push",
         scan[s].pc # "push" \/ occurred' \cap {"crash", "push"} # {}
  PROVE  OnePush'
<1> SUFFICES ASSUME Delivers' PROVE OnePush'
  BY DEF OnePush
<1>1. Delivers
  BY DEF Delivers, Onward
<1>2. \A r \in Servers : Carries(scan[r])'
  <2>1. ASSUME NEW r \in Servers, r # s PROVE Carries(scan[r])'
    <3>1. Carries(scan[r]) /\ scan'[r] = scan[r] /\ pushed' = pushed
      BY <1>1, <2>1 DEF OnePush
    <3>2. \A e, m : CountedRow(e, m) => CountedRow(e, m)'
      BY DEF CountedRow
    <3> QED
      BY <3>1, <3>2, CarriesOn
  <2> QED
    BY <2>1 DEF Carries
<1>3. \A r, p \in Servers : r # p => Apart(scan[r], scan[p])'
  BY <1>1 DEF OnePush, Apart
<1>4. ASSUME NEW e \in Events PROVE RowsOf(e)'
  BY <1>1 DEF OnePush, RowsOf, Distinct
<1>5. ASSUME NEW e \in Events PROVE PushedRows(e)'
  <2>1. PushedRows(e)
    BY <1>1 DEF OnePush
  <2>2. ASSUME NEW i \in 1..total[e]
        PROVE  \/ pushed[e][rows[e][i]] = 1 \/ OnItsWay(e, rows[e][i])'
               \/ occurred' \cap {"crash", "push"} # {}
    <3>1. PICK m : m = rows[e][i]
      OBVIOUS
    <3>2. CASE OnItsWay(e, m) /\ scan[s].pc # "push"
      <4>1. PICK r \in Servers : scan[r].pc = "push" /\ Head(scan[r].todo) = e /\ m \in Range(scan[r].found)
        BY <3>2 DEF OnItsWay
      <4>2. scan'[r] = scan[r]
        BY <3>2, <4>1
      <4>3. OnItsWay(e, m)'
        BY <4>1, <4>2 DEF OnItsWay
      <4>4. rows'[e][i] = m
        BY <3>1
      <4> QED
        BY <4>3, <4>4 DEF OnItsWay
    <3> QED
      BY <2>1, <3>1, <3>2 DEF PushedRows, Onward
  <2> QED
    BY <2>1, <2>2 DEF PushedRows, CountedRow
<1> QED
  BY <1>2, <1>3, <1>4, <1>5 DEF OnePush

\* A server counts rows that begin behind the counter, and carries them.
LEMMA CountDelivers ==
  ASSUME RunnerShape, OnePush, Onward, Delivers', NEW s \in Servers,
         NEW d \in Events, d = Head(scan[s].todo), scan[s].todo # <<>>, scan[s].pc # "push",
         NEW f \in Seq(Messages), Len(f) <= Len(rows[d]) - total[d],
         \A i \in 1..Len(f) : f[i] = rows[d][total[d] + i],
         scan' = [scan EXCEPT ![s] = Counted(scan[s], f)],
         total' = [total EXCEPT ![d] = @ + Len(f)], UNCHANGED <<job, rows, pushed>>
  PROVE  OnePush'
<1>1. Delivers
  BY DEF Delivers, Onward
<1>2. /\ \A e \in Events : RowsOf(e) /\ PushedRows(e)
      /\ \A r \in Servers : Carries(scan[r])
      /\ \A r, p \in Servers : r # p => Apart(scan[r], scan[p])
  BY <1>1 DEF OnePush
<1>6. total'[d] = total[d] + Len(f) /\ \A e : e # d => total'[e] = total[e]
  BY DEF RunnerShape, ResultShape
<1>7. /\ scan'[s] = Counted(scan[s], f) /\ \A r \in Servers : r # s => scan'[r] = scan[r]
  BY DEF RunnerShape, ScanShape
<1>8. /\ f = <<>> => scan'[s].pc = "attach"
      /\ f # <<>> => scan'[s].pc = "push" /\ scan'[s].found = f /\ Head(scan'[s].todo) = d
  BY <1>7, ScanOf, CountedFits
<1>9. /\ total[d] \in Nat /\ total'[d] \in Nat /\ Len(rows[d]) \in Nat /\ Len(f) \in Nat
      /\ total'[d] <= Len(rows[d]) /\ total[d] <= total'[d]
  BY <1>6, RowIsMessage
<1>10. ASSUME NEW e \in Events PROVE RowsOf(e)'
  <2>1. total'[e] <= Len(rows[e])
    BY <1>2, <1>6, <1>9 DEF RowsOf
  <2> QED
    BY <1>2, <2>1 DEF RowsOf, Distinct
<1>15. \A i \in 1..Len(f) : total[d] + i \in 1..Len(rows[d]) /\ total[d] + i \in 1..total'[d]
                             /\ total[d] + i > total[d]
  <2>1. PICK a \in Nat, b \in Nat, c \in Nat, t \in Nat :
              a = total[d] /\ b = Len(f) /\ c = Len(rows[d]) /\ t = total'[d]
    BY <1>9
  <2>2. b <= c - a /\ t = a + b
    BY <1>6, <2>1
  <2>3. \A i \in 1..b : a + i \in 1..c /\ a + i \in 1..t /\ a + i > a
    BY <2>2
  <2> QED
    BY <2>1, <2>3
<1>11. ASSUME NEW i \in 1..Len(f)
       PROVE  /\ f[i] \in Messages /\ pushed[d][f[i]] = 0 /\ ~CountedRow(d, f[i])
              /\ \E k \in 1..total'[d] : rows[d][k] = f[i]
  <2>1. PICK k \in 1..Len(rows[d]) : k = total[d] + i
    BY <1>15
  <2>2. rows[d][k] = f[i] /\ k > total[d] /\ f[i] \in Messages /\ k \in 1..total'[d]
    BY <1>15, <2>1, RowIsMessage
  <2>3. ASSUME NEW j \in 1..total[d] PROVE rows[d][j] # rows[d][k]
    <3>1. j \in 1..Len(rows[d]) /\ j # k
      BY <1>9, <2>1, <2>2, <2>3
    <3> QED
      BY <1>2, <3>1 DEF RowsOf, Distinct
  <2> QED
    BY <1>2, <2>2, <2>3 DEF PushedRows, CountedRow
<1>12. Distinct(f)
  <2> SUFFICES ASSUME NEW i \in 1..Len(f), NEW j \in 1..Len(f), f[i] = f[j] PROVE i = j
    BY DEF Distinct
  <2>1. PICK x \in 1..Len(rows[d]), y \in 1..Len(rows[d]) : x = total[d] + i /\ y = total[d] + j
    BY <1>15
  <2>2. rows[d][x] = f[i] /\ rows[d][y] = f[j]
    BY <2>1
  <2>3. Distinct(rows[d])
    BY <1>2 DEF RowsOf
  <2>4. x = y
    BY ONLY <2>2, <2>3, f[i] = f[j], x \in 1..Len(rows[d]), y \in 1..Len(rows[d]) DEF Distinct
  <2> QED
    BY <1>9, <2>1, <2>4
<1>3. ASSUME NEW e, NEW m, CountedRow(e, m) PROVE CountedRow(e, m)'
  <2>1. PICK i \in 1..total[e] : rows[e][i] = m
    BY <1>3 DEF CountedRow
  <2>2. CASE e = d
    BY <1>9, <2>1, <2>2 DEF CountedRow
  <2>3. CASE e # d
    BY <1>6, <2>1, <2>3 DEF CountedRow
  <2> QED
    BY <2>2, <2>3
<1>13. ASSUME NEW r \in Servers PROVE Carries(scan[r])'
  <2>1. CASE r = s
    <3> SUFFICES ASSUME scan'[r].pc = "push" PROVE Carries(scan[r])'
      BY DEF Carries
    <3>1. scan'[r].found = f /\ Head(scan'[r].todo) = d
      BY <1>8, <2>1
    <3>2. \A i \in 1..Len(f) : pushed'[d][f[i]] = 0
      BY <1>11
    <3>3. \A i \in 1..Len(f) : \E k \in 1..total'[d] : rows'[d][k] = f[i]
      BY <1>11
    <3>4. \A i \in 1..Len(f), j \in 1..Len(f) : f[i] = f[j] => i = j
      BY <1>12 DEF Distinct
    <3> QED
      BY ONLY <3>1, <3>2, <3>3, <3>4 DEF Carries, CountedRow, Distinct
  <2>2. CASE r # s
    <3>1. scan'[r] = scan[r] /\ Carries(scan[r]) /\ pushed' = pushed
      BY <1>2, <1>7, <2>2
    <3> QED
      BY <1>3, <3>1, CarriesOn
  <2> QED
    BY <2>1, <2>2
\* What others carry is counted before.
<1>4. ASSUME NEW r \in Servers, r # s, scan[r].pc = "push", Head(scan[r].todo) = d,
             NEW i \in 1..Len(f), NEW j \in 1..Len(scan[r].found)
      PROVE  f[i] # scan[r].found[j]
  BY <1>2, <1>4, <1>11 DEF Carries
<1>5. \A r, p \in Servers : r # p => Apart(scan[r], scan[p])'
  <2> SUFFICES ASSUME NEW r \in Servers, NEW p \in Servers, r # p PROVE Apart(scan'[r], scan'[p])
    BY DEF Apart
  <2>1. CASE r # s /\ p # s
    BY <1>2, <1>7, <2>1
  <2>2. CASE r = s
    BY <1>4, <1>7, <1>8, <2>2 DEF Apart
  <2>3. CASE p = s
    BY <1>4, <1>7, <1>8, <2>3 DEF Apart
  <2> QED
    BY <2>1, <2>2, <2>3
<1>14. ASSUME NEW e \in Events PROVE PushedRows(e)'
  <2>1. \A m \in Messages : pushed[e][m] # 0 => pushed[e][m] = 1 /\ CountedRow(e, m)'
    BY <1>2, <1>3 DEF PushedRows
  <2>2. ASSUME NEW i \in 1..total'[e]
        PROVE  \/ pushed[e][rows[e][i]] = 1 \/ OnItsWay(e, rows[e][i])'
               \/ occurred' \cap {"crash", "push"} # {}
    <3>0. PICK x : x = rows[e][i]
      OBVIOUS
    <3>a. SUFFICES \/ pushed[e][x] = 1 \/ OnItsWay(e, x)' \/ occurred' \cap {"crash", "push"} # {}
      <4>1. rows'[e][i] = x
        BY <3>0
      <4> QED
        BY <3>0, <4>1 DEF OnItsWay
    <3>1. CASE i \in 1..total[e]
      <4>1. CASE OnItsWay(e, x)
        <5>1. PICK r \in Servers : scan[r].pc = "push" /\ Head(scan[r].todo) = e /\ x \in Range(scan[r].found)
          BY <4>1 DEF OnItsWay
        <5>2. scan'[r] = scan[r]
          BY <1>7, <5>1
        <5> QED
          BY <5>1, <5>2 DEF OnItsWay
      <4> QED
        BY <1>2, <3>0, <3>1, <4>1 DEF PushedRows, Onward
    <3>2. CASE i \notin 1..total[e]
      <4>1. e = d
        BY <1>6, <2>2, <3>2
      <4>2. i - total[d] \in 1..Len(f) /\ total[d] + (i - total[d]) = i
        BY <1>6, <1>9, <2>2, <3>2, <4>1
      <4>3. f # <<>> /\ f[i - total[d]] = x
        BY <3>0, <4>1, <4>2
      <4>4. x \in Range(f)
        <5>1. DOMAIN f = 1..Len(f)
          OBVIOUS
        <5> QED
          BY <4>2, <4>3, <5>1 DEF Range
      <4> QED
        BY <1>8, <4>1, <4>3, <4>4 DEF OnItsWay
    <3> QED
      BY <3>1, <3>2
  <2> QED
    BY <2>1, <2>2 DEF PushedRows
<1> QED
  BY <1>5, <1>10, <1>13, <1>14 DEF OnePush

LEMMA AttachDelivers ==
  ASSUME RunnerShape, OnePush, Onward, Delivers', NEW s \in Servers, AttachResults(s)
  PROVE  OnePush'
<1>1. scan[s].pc = "attach" /\ scan[s].todo # <<>>
  BY DEF AttachResults, Scans, Attaches
<1>2. PICK d \in Events : d = Head(scan[s].todo)
  BY <1>1, ScanOf
<1>3. PICK f \in Seq(Messages) : f = Uncounted(d)
  BY UncountedFits
<1>4. /\ scan' = [scan EXCEPT ![s] = Counted(scan[s], f)] /\ total' = [total EXCEPT ![d] = @ + Len(f)]
      /\ UNCHANGED <<job, rows, pushed>>
  BY <1>2, <1>3 DEF AttachResults
<1>5. Len(f) <= Len(rows[d]) - total[d] /\ \A i \in 1..Len(f) : f[i] = rows[d][total[d] + i]
  <2>1. total[d] <= Len(rows[d]) /\ total[d] \in Nat /\ Len(rows[d]) \in Nat
    BY RowIsMessage DEF OnePush, RowsOf, Delivers, Onward
  <2> QED
    BY <1>3, <2>1, UncountedFits
<1> QED
  BY <1>1, <1>2, <1>4, <1>5, CountDelivers

LEMMA CountedDelivers ==
  ASSUME RunnerShape, OnePush, Onward, Delivers', NEW s \in Servers, CountResults(s)
  PROVE  OnePush'
<1>1. scan[s].pc = "count" /\ scan[s].todo # <<>>
  BY ScanOf DEF CountResults, Scans, ScanSound
<1>2. PICK d \in Events : d = Head(scan[s].todo)
  BY <1>1, ScanOf
<1>3. PICK f \in Seq(Messages) : f = scan[s].found
  BY ScanOf DEF ScanSet
<1>4. /\ scan' = [scan EXCEPT ![s] = Counted(scan[s], f)] /\ total' = [total EXCEPT ![d] = @ + Len(f)]
      /\ UNCHANGED <<job, rows, pushed>>
  BY <1>2, <1>3 DEF CountResults
<1>5. PICK u \in Seq(Messages) : u = Uncounted(d)
  BY UncountedFits
<1>6. Len(f) <= Len(u) /\ SubSeq(f, 1, Len(f)) = SubSeq(u, 1, Len(f))
  BY <1>2, <1>3, <1>5 DEF CountResults, Delivers, IsPrefix
<1>7. \A i \in 1..Len(f) : f[i] = u[i]
  <2>1. \A i \in 1..Len(f) : SubSeq(f, 1, Len(f))[i] = f[i] /\ SubSeq(u, 1, Len(f))[i] = u[i]
    BY <1>6
  <2> QED
    BY <1>6, <2>1
<1>8. Len(f) <= Len(rows[d]) - total[d] /\ \A i \in 1..Len(f) : f[i] = rows[d][total[d] + i]
  <2>1. total[d] <= Len(rows[d]) /\ total[d] \in Nat /\ Len(rows[d]) \in Nat
    BY RowIsMessage DEF OnePush, RowsOf, Delivers, Onward
  <2>2. Len(u) = Len(rows[d]) - total[d] /\ \A i \in 1..Len(u) : u[i] = rows[d][total[d] + i]
    BY <1>5, <2>1, UncountedFits
  <2> QED
    BY <1>6, <1>7, <2>1, <2>2
<1> QED
  BY <1>1, <1>2, <1>4, <1>8, CountDelivers

LEMMA PushDelivers ==
  ASSUME RunnerShape, RunnerShape', OnePush, Onward, Delivers', NEW s \in Servers, PushResults(s)
  PROVE  OnePush'
<1>1. Delivers
  BY DEF Delivers, Onward
<1>2. /\ \A e \in Events : RowsOf(e) /\ PushedRows(e)
      /\ \A r \in Servers : Carries(scan[r])
      /\ \A r, p \in Servers : r # p => Apart(scan[r], scan[p])
      /\ scan[s].pc = "push" /\ scan[s].todo # <<>>
  BY <1>1, ScanOf DEF OnePush, PushResults, Scans, ScanSound
<1>3. PICK d \in Events : d = Head(scan[s].todo)
  BY <1>2, ScanOf
<1>4. PICK f \in Seq(Messages) : f = scan[s].found
  BY ScanOf DEF ScanSet
<1> DEFINE n(m) == Cardinality({i \in DOMAIN f : f[i] = m})
<1>5. /\ scan' = [scan EXCEPT ![s] = NextLane(scan[s])]
      /\ pushed' = [pushed EXCEPT ![d] = [m \in Messages |-> pushed[d][m] + n(m)]]
      /\ UNCHANGED <<job, rows, total, occurred>>
  BY <1>3, <1>4 DEF PushResults
<1>6. DOMAIN f = 1..Len(f) /\ Distinct(f)
  BY <1>2, <1>4 DEF Carries
<1>7. ASSUME NEW m \in Messages
      PROVE  n(m) = IF \E i \in 1..Len(f) : f[i] = m THEN 1 ELSE 0
  <2>1. CASE \E i \in 1..Len(f) : f[i] = m
    <3>1. PICK i \in 1..Len(f) : f[i] = m
      BY <2>1
    <3>2. {j \in DOMAIN f : f[j] = m} = {i}
      BY <1>6, <3>1 DEF Distinct
    <3> QED
      BY <2>1, <3>2, FS_Singleton
  <2>2. CASE ~\E i \in 1..Len(f) : f[i] = m
    <3>1. {j \in DOMAIN f : f[j] = m} = {}
      BY <1>6, <2>2
    <3> QED
      BY <2>2, <3>1, FS_EmptySet
  <2> QED
    BY <2>1, <2>2
<1> HIDE DEF n
<1>8. \A m \in Messages : /\ pushed'[d][m] = pushed[d][m] + n(m)
                          /\ \A e \in Events : e # d => pushed'[e][m] = pushed[e][m]
  BY <1>5 DEF RunnerShape, ResultShape
<1>9. \A i \in 1..Len(f) : f[i] \in Messages /\ pushed[d][f[i]] = 0 /\ CountedRow(d, f[i])
  BY <1>2, <1>3, <1>4 DEF Carries
<1>10. scan'[s].pc = "attach" /\ \A r \in Servers : r # s => scan'[r] = scan[r]
  <2>1. scan'[s] = NextLane(scan[s]) /\ \A r \in Servers : r # s => scan'[r] = scan[r]
    BY <1>5 DEF RunnerShape, ScanShape
  <2>2. NextLane(scan[s]).pc = "attach"
    BY <1>2, ScanOf, CountedFits, <<>> \in Seq(Messages)
  <2> QED
    BY <2>1, <2>2
<1>11. ASSUME NEW r \in Servers PROVE Carries(scan[r])'
  <2>1. CASE r = s
    BY <1>10, <2>1 DEF Carries
  <2>2. CASE r # s
    <3>1. scan'[r] = scan[r]
      BY <1>10, <2>2
    <3> SUFFICES ASSUME scan[r].pc = "push" PROVE Carries(scan[r])'
      BY <3>1 DEF Carries
    <3>2. PICK e \in Events : e = Head(scan[r].todo)
      BY ScanOf DEF ScanSound
    <3>3. PICK g \in Seq(Messages) : g = scan[r].found
      BY ScanOf DEF ScanSet
    <3>4. Distinct(g) /\ \A i \in 1..Len(g) : pushed[e][g[i]] = 0 /\ CountedRow(e, g[i])
      BY <1>2, <3>2, <3>3 DEF Carries
    <3>5. ASSUME NEW i \in 1..Len(g) PROVE pushed'[e][g[i]] = 0
      <4>1. g[i] \in Messages /\ pushed[e][g[i]] = 0
        BY <3>4
      <4>2. CASE e # d
        BY <1>8, <4>1, <4>2
      <4>3. CASE e = d
        <5>1. \A j \in 1..Len(f) : f[j] # g[i]
          BY <1>2, <1>3, <1>4, <2>2, <3>2, <3>3, <4>3 DEF Apart
        <5>2. n(g[i]) = 0
          BY <1>7, <4>1, <5>1
        <5> QED
          BY <1>8, <4>1, <4>3, <5>2
      <4> QED
        BY <4>2, <4>3
    <3>6. \A i \in 1..Len(g) : \E k \in 1..total'[e] : rows'[e][k] = g[i]
      BY <1>5, <3>4 DEF CountedRow
    <3>7. Head(scan'[r].todo) = e /\ scan'[r].found = g
      BY <3>1, <3>2, <3>3
    <3> QED
      BY <3>4, <3>5, <3>6, <3>7 DEF Carries, CountedRow, Distinct
  <2> QED
    BY <2>1, <2>2
<1>14. \A r, p \in Servers : r # p => Apart(scan[r], scan[p])'
  BY <1>2, <1>10 DEF Apart
<1>12. ASSUME NEW e \in Events PROVE RowsOf(e)'
  BY <1>2, <1>5 DEF RowsOf, Distinct
<1>13. ASSUME NEW e \in Events PROVE PushedRows(e)'
  <2>1. ASSUME NEW m \in Messages, pushed'[e][m] # 0
        PROVE  pushed'[e][m] = 1 /\ CountedRow(e, m)
    <3>1. CASE e = d /\ \E i \in 1..Len(f) : f[i] = m
      BY <1>7, <1>8, <1>9, <3>1
    <3>2. CASE e # d \/ ~\E i \in 1..Len(f) : f[i] = m
      <4>1. pushed'[e][m] = pushed[e][m]
        BY <1>7, <1>8, <3>2, RowIsMessage
      <4> QED
        BY <1>2, <2>1, <4>1 DEF PushedRows
    <3> QED
      BY <3>1, <3>2
  <2>2. ASSUME NEW i \in 1..total[e]
        PROVE  \/ pushed'[e][rows[e][i]] = 1 \/ OnItsWay(e, rows[e][i])'
               \/ occurred \cap {"crash", "push"} # {}
    <3>1. i \in 1..Len(rows[e]) /\ rows[e][i] \in Messages
      BY <1>2, RowIsMessage DEF RowsOf
    <3>2. PICK m \in Messages : m = rows[e][i]
      BY <3>1
    <3>6. rows'[e][i] = m
      BY <1>5, <3>2
    <3>3. CASE OnItsWay(e, m)
      <4>1. PICK r \in Servers : scan[r].pc = "push" /\ Head(scan[r].todo) = e /\ m \in Range(scan[r].found)
        BY <3>3 DEF OnItsWay
      <4>2. CASE r = s
        <5>1. e = d /\ \E j \in 1..Len(f) : f[j] = m
          BY <1>3, <1>4, <1>6, <4>1, <4>2 DEF Range
        <5> QED
          BY <1>7, <1>8, <1>9, <3>2, <5>1
      <4>3. CASE r # s
        <5>1. OnItsWay(e, m)'
          BY <1>10, <4>1, <4>3 DEF OnItsWay
        <5> QED
          BY <3>6, <5>1 DEF OnItsWay
      <4> QED
        BY <4>2, <4>3
    <3>4. CASE pushed[e][m] = 1
      <4>1. e # d \/ ~\E j \in 1..Len(f) : f[j] = m
        BY <1>9, <3>4
      <4> QED
        BY <1>7, <1>8, <3>2, <3>4, <4>1
    <3>5. CASE occurred \cap {"crash", "push"} # {}
      BY <3>5
    <3> QED
      BY <1>2, <3>2, <3>3, <3>4, <3>5 DEF PushedRows
  <2>3. \A m \in Messages : CountedRow(e, m)' <=> CountedRow(e, m)
    BY <1>5 DEF CountedRow
  <2> QED
    BY <1>5, <2>1, <2>2, <2>3 DEF PushedRows
<1> QED
  BY <1>11, <1>12, <1>13, <1>14 DEF OnePush

LEMMA FinishDelivers ==
  ASSUME RunnerShape, RunnerShape', OnePush, Onward, Delivers',
         NEW d \in Events, NEW k \in Messages, Finish(d, k)
  PROVE  OnePush'
<1>1. Delivers
  BY DEF Delivers, Onward
<1>2. /\ \A e \in Events : RowsOf(e) /\ PushedRows(e)
      /\ \A s \in Servers : Carries(scan[s])
      /\ \A s, r \in Servers : s # r => Apart(scan[s], scan[r])
  BY <1>1 DEF OnePush
<1>3. /\ job[d][k] = "queued" /\ job' = [job EXCEPT ![d][k] = "row"]
      /\ rows' = [rows EXCEPT ![d] = Append(@, k)]
      /\ UNCHANGED <<scan, total, pushed, occurred>>
  BY DEF Finish, Delivers, Failure, MayFail
<1> DEFINE q == rows[d]
<1>4. /\ q \in Seq(Messages) /\ Len(q) \in Nat
      /\ rows'[d] = Append(q, k) /\ \A e \in Events : e # d => rows'[e] = rows[e]
  BY <1>3 DEF RunnerShape, ResultShape
<1>5. \A e \in Events, m \in Messages : job'[e][m] = IF e = d /\ m = k THEN "row" ELSE job[e][m]
  BY <1>3 DEF RunnerShape, ResultShape
<1>6. \A i \in 1..Len(q) : q[i] # k
  BY <1>2, <1>3 DEF RowsOf
<1>7. /\ Len(rows'[d]) = Len(q) + 1 /\ rows'[d][Len(q) + 1] = k
      /\ \A i \in 1..Len(q) : rows'[d][i] = q[i]
  <2> HIDE DEF q
  <2> QED
    BY <1>4
<1>8. ASSUME NEW e \in Events, NEW i \in 1..total[e]
      PROVE  rows'[e][i] = rows[e][i] /\ i \in 1..Len(rows[e])
  <2>1. i \in 1..Len(rows[e])
    BY <1>2, RowIsMessage DEF RowsOf
  <2> QED
    BY <1>4, <1>7, <2>1
<1>9. ASSUME NEW e \in Events PROVE RowsOf(e)'
  <2>1. CASE e # d
    BY <1>2, <1>3, <1>4, <1>5, <2>1 DEF RowsOf, Distinct
  <2>2. CASE e = d
    <3>1. total[d] <= Len(rows'[d])
      BY <1>2, <1>4, <1>7, RowIsMessage DEF RowsOf
    <3>2. ASSUME NEW i \in 1..Len(rows'[d]), NEW j \in 1..Len(rows'[d]), rows'[d][i] = rows'[d][j]
          PROVE  i = j
      <4>1. CASE i \in 1..Len(q) /\ j \in 1..Len(q)
        BY <1>2, <1>7, <3>2, <4>1 DEF RowsOf, Distinct
      <4>2. CASE i = Len(q) + 1 \/ j = Len(q) + 1
        BY <1>4, <1>6, <1>7, <3>2, <4>2
      <4> QED
        BY <1>4, <1>7, <4>1, <4>2
    <3>3. ASSUME NEW m \in Messages
          PROVE  job'[d][m] = "row" <=> \E i \in 1..Len(rows'[d]) : rows'[d][i] = m
      <4>1. CASE m = k
        BY <1>4, <1>5, <1>7, <4>1
      <4>2. CASE m # k
        <5>1. job'[d][m] = job[d][m]
          BY <1>5, <4>2
        <5>2. job[d][m] = "row" <=> \E i \in 1..Len(q) : q[i] = m
          BY <1>2 DEF RowsOf
        <5>3. (\E i \in 1..Len(rows'[d]) : rows'[d][i] = m) <=> \E i \in 1..Len(q) : q[i] = m
          BY <1>4, <1>7, <4>2
        <5> QED
          BY <5>1, <5>2, <5>3
      <4> QED
        BY <4>1, <4>2
    <3> QED
      BY <1>3, <2>2, <3>1, <3>2, <3>3 DEF RowsOf, Distinct
  <2> QED
    BY <2>1, <2>2
<1>10. ASSUME NEW e \in Events, NEW m PROVE CountedRow(e, m)' <=> CountedRow(e, m)
  BY <1>3, <1>8 DEF CountedRow
<1>11. ASSUME NEW e \in Events PROVE PushedRows(e)'
  <2>1. \A m : OnItsWay(e, m)' <=> OnItsWay(e, m)
    BY <1>3 DEF OnItsWay
  <2>2. ASSUME NEW i \in 1..total[e]
        PROVE  \/ pushed[e][rows'[e][i]] = 1 \/ OnItsWay(e, rows'[e][i])
               \/ occurred \cap {"crash", "push"} # {}
    BY <1>2, <1>8 DEF PushedRows
  <2>3. \A i \in 1..total[e] : OnItsWay(e, rows'[e][i]) => OnItsWay(e, rows[e][i])'
    BY <1>3 DEF OnItsWay
  <2>4. \A m \in Messages : pushed'[e][m] # 0 => pushed'[e][m] = 1 /\ CountedRow(e, m)'
    BY <1>2, <1>3, <1>10 DEF PushedRows
  <2> QED
    BY <1>3, <2>2, <2>3, <2>4 DEF PushedRows
<1>12. ASSUME NEW s \in Servers PROVE Carries(scan[s])'
  <2> SUFFICES ASSUME scan[s].pc = "push" PROVE Carries(scan[s])'
    BY <1>3 DEF Carries
  <2>1. PICK e \in Events : e = Head(scan[s].todo)
    BY ScanOf DEF ScanSound
  <2>2. /\ Distinct(scan[s].found)
        /\ \A i \in 1..Len(scan[s].found) : /\ pushed[e][scan[s].found[i]] = 0
                                            /\ CountedRow(e, scan[s].found[i])
    BY <1>2, <2>1 DEF Carries
  <2>3. \A i \in 1..Len(scan[s].found) : \E j \in 1..total[e] : rows'[e][j] = scan[s].found[i]
    BY <1>8, <2>2 DEF CountedRow
  <2>4. scan' = scan /\ total' = total /\ pushed' = pushed
    BY <1>3
  <2>5. \A i \in 1..Len(scan'[s].found) : /\ pushed'[Head(scan'[s].todo)][scan'[s].found[i]] = 0
                                           /\ CountedRow(Head(scan[s].todo), scan[s].found[i])'
    BY <2>1, <2>2, <2>3, <2>4 DEF CountedRow
  <2>6. Distinct(scan[s].found)'
    BY <2>2, <2>4 DEF Distinct
  <2> QED
    BY <2>5, <2>6 DEF Carries
<1>13. \A s, r \in Servers : s # r => Apart(scan[s], scan[r])'
  BY <1>2, <1>3 DEF Apart
<1> QED
  BY <1>9, <1>11, <1>12, <1>13 DEF OnePush

LEMMA DeliverServerStep ==
  ASSUME RunnerShape, RunnerShape', OnePush, Onward, Delivers', NEW s \in Servers, ServerStep(s)
  PROVE  OnePush'
<1>a. Delivers
  BY DEF Delivers, Onward
<1>b. ASSUME NEW q, scan' = [scan EXCEPT ![s] = q], q.pc # "push",
             UNCHANGED <<rows, total, pushed, job>>,
             scan[s].pc # "push" \/ occurred' \cap {"crash", "push"} # {}
      PROVE  OnePush'
  <2>1. scan'[s] = q /\ \A r \in Servers : r # s => scan'[r] = scan[r]
    BY <1>b DEF RunnerShape, ScanShape
  <2> QED
    BY <1>b, <2>1, PushDropped
<1>d. ASSUME NEW e \in Events, NEW m \in Messages, job' = job
      PROVE  job'[e][m] = "row" <=> job[e][m] = "row"
  BY <1>d
<1>1. CASE BeginScan(s)
  <2>1. UNCHANGED <<rows, total, pushed, job>> /\ scan[s].pc = "idle"
    BY <1>1 DEF BeginScan, Scans, results
  <2>2. CASE UNCHANGED scan
    BY <2>1, <2>2, PushKept
  <2>3. CASE scan' = [scan EXCEPT ![s] = [NoScan EXCEPT !.pc = "attach", !.todo = InForce,
                                                         !.canary = lanes.canary]]
    <3>1. [NoScan EXCEPT !.pc = "attach", !.todo = InForce, !.canary = lanes.canary].pc = "attach"
      BY DEF NoScan
    <3> QED
      BY <1>b, <2>1, <2>3, <3>1
  <2> QED
    BY <1>1, <2>2, <2>3 DEF BeginScan
<1>2. CASE AttachResults(s)
  BY <1>2, AttachDelivers
<1>3. CASE PushResults(s)
  BY <1>3, PushDelivers
<1>4. CASE ReadUncounted(s)
  <2>1. [scan[s] EXCEPT !.pc = "count", !.found = Uncounted(Head(scan[s].todo))].pc = "count"
    BY ScanOf DEF ScanSet
  <2>2. /\ scan' = [scan EXCEPT ![s] = [scan[s] EXCEPT !.pc = "count",
                                                       !.found = Uncounted(Head(scan[s].todo))]]
        /\ UNCHANGED <<rows, total, pushed, job>> /\ scan[s].pc = "attach"
    BY <1>4 DEF ReadUncounted, Scans, results
  <2> QED
    BY <1>b, <2>1, <2>2
<1>5. CASE CountResults(s)
  BY <1>5, CountedDelivers
<1>6. CASE PushFails(s)
  <2>1. /\ scan[s].pc = "push" /\ scan' = [scan EXCEPT ![s] = NextLane(scan[s])]
        /\ UNCHANGED <<rows, total, pushed, job>> /\ "push" \in occurred'
    BY <1>6 DEF PushFails, Scans, Failure, results
  <2>2. NextLane(scan[s]).pc = "attach"
    BY <2>1, ScanOf, CountedFits, <<>> \in Seq(Messages) DEF ScanSound
  <2> QED
    BY <1>b, <2>1, <2>2
<1>7. CASE StartTask(s) \/ StopConsumer(s)
  <2>1. /\ scan[s].pc # "push" /\ scan' = [scan EXCEPT ![s] = NoScan]
        /\ UNCHANGED <<rows, total, pushed, job>> /\ NoScan.pc # "push"
    BY <1>7 DEF StartTask, StopConsumer, Scans, results, NoScan
  <2> QED
    BY <1>b, <2>1
<1>12. CASE CompleteCanary(s)
  <2>1. /\ scan' = [scan EXCEPT ![s] = scan'[s]] /\ scan'[s].pc = "stop" /\ scan[s].pc = "attach"
        /\ UNCHANGED <<rows, total, pushed, job>>
    BY <1>12, StepCompleteCanary DEF results
  <2> QED
    BY <1>b, <2>1
<1>8. CASE ServerCrash(s)
  <2>1. /\ scan' = [scan EXCEPT ![s] = NoScan] /\ UNCHANGED <<rows, total, pushed, job>>
        /\ "crash" \in occurred' /\ NoScan.pc # "push"
    BY <1>8 DEF ServerCrash, Failure, results, NoScan
  <2> QED
    BY <1>b, <2>1
<1>9. CASE AnswerCall(s)
  <2>1. task[s].pc = "wait"
    BY <1>9 DEF AnswerCall, At
  <2>2. driver = "sync"
    BY <2>1, TaskOf DEF TaskSound
  <2> QED
    BY <1>a, <2>2 DEF Delivers
<1>10. CASE Enqueue(s)
  <2>1. UNCHANGED <<scan, rows, total, pushed>>
    BY <1>10 DEF Enqueue, results
  <2>2. \A e \in Events, m \in Messages : job'[e][m] = "row" <=> job[e][m] = "row"
    BY <1>10, EnqueueHands
  <2> QED
    BY <2>1, <2>2, PushKept
<1>11. CASE \/ Read(s) \/ Receive(s) \/ Route(s) \/ Ack(s) \/ GiveUp(s) \/ EndTask(s)
            \/ EnqueueFails(s) \/ LeaseLost(s) \/ RenewFails(s)
  <2>1. UNCHANGED <<scan, rows, total, pushed, job>>
    BY <1>11 DEF Read, Receive, Route, Ack, GiveUp, EndTask, EnqueueFails, LeaseLost, RenewFails, results
  <2> QED
    BY <1>d, <2>1, PushKept
<1> QED
  BY <1>1, <1>2, <1>3, <1>4, <1>5, <1>6, <1>7, <1>8, <1>9, <1>10, <1>11, <1>12
  DEF ServerStep, ScanStep, TaskStep

LEMMA DeliverStep == RunnerShape /\ OnePush /\ [RunnerNext]_runnerVars => OnePush'
<1> SUFFICES ASSUME RunnerShape, OnePush, [RunnerNext]_runnerVars, Delivers' PROVE OnePush'
  BY DEF OnePush
<1>0. Onward /\ RunnerShape'
  BY OnwardStep, ShapeStep
<1>1. CASE UNCHANGED runnerVars \/ ChangeLanes \/ LockExpires
  <2>1. UNCHANGED <<scan, rows, total, pushed, job>>
    BY <1>1 DEF runnerVars, ChangeLanes, LockExpires, results
  <2> QED
    BY <1>0, <2>1, PushKept
<1>2. ASSUME NEW e \in Events, NEW m \in Messages, Finish(e, m) PROVE OnePush'
  BY <1>0, <1>2, FinishDelivers
<1> QED
  BY <1>0, <1>1, <1>2, DeliverServerStep DEF RunnerNext, ServerStep

LEMMA NothingDelivered == RunnerInit => OnePush
<1> SUFFICES ASSUME RunnerInit PROVE OnePush
  OBVIOUS
<1>1. \A s \in Servers : scan[s].pc = "idle"
  BY DEF RunnerInit, NoScan
<1>2. \A e \in Events : /\ rows[e] = <<>> /\ total[e] = 0
                        /\ \A m \in Messages : job[e][m] = "none" /\ pushed[e][m] = 0
  BY DEF RunnerInit
<1>3. /\ \A s \in Servers : Carries(scan[s])
      /\ \A s, r \in Servers : s # r => Apart(scan[s], scan[r])
  BY <1>1 DEF Apart, Carries
<1>4. \A e \in Events : RowsOf(e) /\ PushedRows(e)
  BY <1>2 DEF RowsOf, PushedRows, Distinct
<1> QED
  BY <1>3, <1>4 DEF OnePush

\* Section 15, for any number of servers that scan the line at a time, any events
\* and messages: a result is delivered at most once, and a counted one was
\* delivered or is about to be, unless a server stopped or a push failed.  The
\* premise: no statement counts rows that another one has counted since it read
\* them, no rows commit out of order, no call counts its result itself.
THEOREM ResultsArePushedOnce == RunnerSpec => []PushedOnce
<1>1. RunnerInit => RunnerShape /\ OnePush
  BY InitShape, NothingDelivered
<1>2. RunnerShape /\ OnePush /\ [RunnerNext]_runnerVars => (RunnerShape /\ OnePush)'
  BY ShapeStep, DeliverStep
<1>3. RunnerShape /\ OnePush => PushedOnce
  BY DeliveredByParts
<1> QED
  BY <1>1, <1>2, <1>3, PTL DEF RunnerSpec
=============================================================================
