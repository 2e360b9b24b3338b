-------------------------- MODULE StateServerProofs -------------------------
(***************************************************************************)
(* Proofs about the servers of lab5, for any number of them and of their   *)
(* clients: whose object a key or a name stands for, who took it away, and *)
(* how old what a client reads from memory can be.                         *)
(*                                                                         *)
(* For the names, of a server only its place, its kind and the object it   *)
(* holds matter; for the memory, what is copied there, and by whom.  Every *)
(* step of Next is one of the few that are defined here from these.        *)
(***************************************************************************)
EXTENDS StateServer, SequenceTheorems, FiniteSetTheorems, TLAPS

Working == {"loop", "copy", "send", "serve"}
Ways    == {"ended", "unread", "left", "killed"}

\* The server uses its object.
Busy(s) ==
  srv[s].at \in Working \/ (srv[s].at = "opened" /\ srv[s].kind # "sock")

\* What Held and Orphans need to know of the variables' types.
Shape ==
  /\ DOMAIN name = Kinds
  /\ DOMAIN srv = Servers
  /\ \A s \in Servers :
       /\ DOMAIN srv[s] = DOMAIN NoServer
       /\ srv[s].at \in Live \cup Ways \cup {"off"}
       /\ srv[s].at = "off" => srv[s].kind = "none"
       /\ srv[s].at \in Live => srv[s].kind \in Kinds
       /\ srv[s].at = "send" => srv[s].kind = "msg"
       /\ srv[s].at = "serve" => srv[s].kind = "sock"
       /\ srv[s].at \in {"off", "start"} => srv[s].holds = None
       /\ srv[s].at = "opened" /\ srv[s].kind = "sock" => srv[s].holds = None
       /\ Busy(s) => srv[s].holds # None

\* A name is held by a server that runs, or that ended without removing it.
Held ==
  \A k \in Kinds : name[k] # None =>
    \E s \in Servers : /\ srv[s].kind = k /\ srv[s].holds = name[k]
                       /\ srv[s].at \in Live \cup {"killed", "left"}

\* OrphanedByPeer, already before a server knows the number of its object.
TakenBy(s, t) ==
  CASE srv[s].kind = "sock" -> srv[t].kind = "sock"
    [] srv[s].kind = "file" ->
         (srv[t].kind = "file" /\ ~Runs(t)) \/ srv[t].at = "unread"
    [] OTHER -> srv[t].holds = srv[s].holds /\ srv[t].at \in {"ended", "unread"}

Orphans ==
  \A s \in Servers : Busy(s) /\ ~Named(s) => \E t \in Servers \ {s} : TakenBy(s, t)

-----------------------------------------------------------------------------
(* What steps do to places, kinds, held objects and names.                 *)

Same(t) ==
  /\ srv'[t].at = srv[t].at /\ srv'[t].kind = srv[t].kind
  /\ srv'[t].holds = srv[t].holds

DomainsKept ==
  /\ DOMAIN name' = DOMAIN name /\ DOMAIN srv' = Servers
  /\ \A t \in Servers : DOMAIN srv'[t] = DOMAIN NoServer

Quiet == DomainsKept /\ name' = name /\ \A t \in Servers : Same(t)

Changes(s, at, kind, holds) ==
  /\ DomainsKept
  /\ srv'[s].at = at /\ srv'[s].kind = kind /\ srv'[s].holds = holds
  /\ \A t \in Servers \ {s} : Same(t)

Starts(s) ==
  /\ srv[s].at = "off" /\ name' = name
  /\ \E k \in Kinds : Changes(s, "start", k, None)

Creates(s) ==
  /\ srv[s].at = "start" /\ srv[s].kind # "sock"
  /\ name' = [name EXCEPT ![srv[s].kind] = IF @ = None THEN s ELSE @]
  /\ Changes(s, "opened", srv[s].kind, name'[srv[s].kind])

Clears(s) ==
  /\ srv[s].at = "start" /\ srv[s].kind = "sock"
  /\ name' = Unlinked(name, "sock")
  /\ Changes(s, "opened", "sock", None)

Binds(s) ==
  /\ srv[s].at = "opened" /\ srv[s].kind = "sock" /\ name["sock"] = None
  /\ name' = [name EXCEPT !["sock"] = s]
  /\ Changes(s, "loop", "sock", s)

Works(s) ==
  /\ Busy(s) /\ name' = name
  /\ \E at \in Working :
       /\ Changes(s, at, srv[s].kind, srv[s].holds)
       /\ at = "send" => srv[s].kind = "msg"
       /\ at = "serve" => srv[s].kind = "sock"

Ends(s, how) ==
  /\ Runs(s) /\ Changes(s, how, srv[s].kind, srv[s].holds)
  /\ \/ /\ name' = name
        /\ how \in {"killed", "left"} \/ ~Named(s) \/ srv[s].holds = None
     \/ how = "ended" /\ name' = RemoveOwn(s) /\ srv[s].kind \notin ByName
     \/ how = "ended" /\ name' = Unlinked(name, srv[s].kind) /\ srv[s].kind \in ByName
     \/ how = "unread" /\ name' = Unlinked(RemoveOwn(s), "file")
                       /\ srv[s].kind # "sock"

StepOf(s) ==
  \/ Starts(s) \/ Creates(s) \/ Clears(s) \/ Binds(s) \/ Works(s)
  \/ \E how \in Ways : Ends(s, how)

LEMMA Leaves ==
  ASSUME Shape, NEW s \in Servers, NEW how \in Ways, Leave(s, how),
         DOMAIN name' = DOMAIN name
  PROVE  Changes(s, how, srv[s].kind, srv[s].holds)
BY DEF Shape, Leave, Changes, DomainsKept, Same, NoServer

\* One lemma for every action of a server.
LEMMA StartStep ==
  ASSUME Shape, NEW s \in Servers, NEW k \in Kinds, Start(s, k)
  PROVE  StepOf(s)
<1>1. Changes(s, "start", k, None)
  BY DEF Shape, Start, Changes, DomainsKept, Same, NoServer
<1> QED BY <1>1 DEF Start, StepOf, Starts

LEMMA OpenStep ==
  ASSUME Shape, NEW s \in Servers, Open(s)
  PROVE  StepOf(s)
<1>1. /\ srv[s].at = "start" /\ srv[s].kind \in Kinds \ {"sock"}
      /\ name' = [name EXCEPT ![srv[s].kind] = IF @ = None THEN s ELSE @]
      /\ srv' = [srv EXCEPT ![s].at = "opened", ![s].holds = name'[srv[s].kind]]
  BY DEF Shape, Open, Live
<1>2. Changes(s, "opened", srv[s].kind, name'[srv[s].kind])
  BY <1>1 DEF Shape, Changes, DomainsKept, Same, NoServer
<1> QED BY <1>1, <1>2 DEF StepOf, Creates

LEMMA UnlinkStep ==
  ASSUME Shape, NEW s \in Servers, Unlink(s)
  PROVE  StepOf(s)
<1>1. Changes(s, "opened", "sock", None)
  BY DEF Shape, Unlink, Changes, DomainsKept, Same, NoServer, Unlinked
<1> QED BY <1>1 DEF StepOf, Clears, Unlink

LEMMA BindStep ==
  ASSUME Shape, NEW s \in Servers, Bind(s)
  PROVE  StepOf(s)
<1>1. CASE Leave(s, "ended") /\ name' = name
  <2>1. Runs(s) /\ srv[s].holds = None
    BY DEF Bind, Runs, Live, Shape
  <2> QED BY <1>1, <2>1, Leaves DEF StepOf, Ends, Ways
<1>2. CASE /\ name["sock"] = None /\ name' = [name EXCEPT !["sock"] = s]
           /\ srv' = [srv EXCEPT ![s].at = "loop", ![s].holds = s]
  <2>1. srv[s].at = "opened" /\ srv[s].kind = "sock"
    BY DEF Bind
  <2>2. Changes(s, "loop", "sock", s)
    BY <1>2, <2>1 DEF Shape, Changes, DomainsKept, Same, NoServer
  <2> QED BY <1>2, <2>1, <2>2 DEF StepOf, Binds
<1> QED BY <1>1, <1>2 DEF Bind

\* A step that only moves a busy server on, or ends it without touching names.
LEMMA OpenFailsStep ==
  ASSUME Shape, NEW s \in Servers, OpenFails(s)
  PROVE  StepOf(s)
<1>1. Leave(s, "ended") /\ name' = name /\ Runs(s) /\ srv[s].holds = None
  BY DEF OpenFails, Shape, Runs, Live
<1> QED BY <1>1, Leaves DEF StepOf, Ends, Ways

LEMMA AttachStep ==
  ASSUME Shape, NEW s \in Servers, Attach(s)
  PROVE  StepOf(s)
<1>1. Busy(s) /\ srv' = [srv EXCEPT ![s].at = "loop"] /\ name' = name
  BY DEF Attach, Busy
<1>2. Changes(s, "loop", srv[s].kind, srv[s].holds)
  BY <1>1 DEF Shape, Changes, DomainsKept, Same, NoServer
<1> QED BY <1>1, <1>2 DEF StepOf, Works, Working

LEMMA AttachFailsStep ==
  ASSUME Shape, NEW s \in Servers, AttachFails(s)
  PROVE  StepOf(s)
<1>1. Runs(s)
  BY DEF AttachFails, Runs, Live
<1>2. CASE srv[s].kind = "shm"
  BY <1>1, <1>2, Leaves DEF AttachFails, StepOf, Ends, Ways
<1>3. CASE srv[s].kind = "file"
  <2>1. Leave(s, "ended") /\ name' = Unlinked(name, "file")
    BY <1>3 DEF AttachFails
  <2> QED BY <1>1, <1>3, <2>1, Leaves DEF StepOf, Ends, Ways, ByName, Unlinked
<1> QED BY <1>2, <1>3 DEF AttachFails

LEMMA UpdateStep ==
  ASSUME Shape, NEW s \in Servers, Update(s)
  PROVE  StepOf(s)
<1>1. Busy(s) /\ name' = name
  BY DEF Update, Busy, Working
<1>2. CASE srv[s].kind = "msg"
  <2>1. Changes(s, "send", srv[s].kind, srv[s].holds)
    BY <1>2 DEF Update, Shape, Changes, DomainsKept, Same, NoServer
  <2> QED BY <1>1, <1>2, <2>1 DEF StepOf, Works, Working
<1>3. CASE srv[s].kind # "msg"
  <2>1. Changes(s, "copy", srv[s].kind, srv[s].holds)
    BY <1>3 DEF Update, Shape, Changes, DomainsKept, Same, NoServer
  <2> QED BY <1>1, <2>1 DEF StepOf, Works, Working
<1> QED BY <1>2, <1>3

LEMMA LoadFailsStep ==
  ASSUME Shape, NEW s \in Servers, LoadFails(s)
  PROVE  StepOf(s)
<1>1. Runs(s)
  BY DEF LoadFails, Runs, Live
<1>2. CASE srv[s].kind = "sock"
  BY <1>1, <1>2, Leaves DEF LoadFails, StepOf, Ends, Ways
<1>3. CASE srv[s].kind # "sock"
  <2>1. Leave(s, "unread") /\ name' = Unlinked(RemoveOwn(s), "file")
    BY <1>3 DEF LoadFails
  <2>2. DOMAIN name' = DOMAIN name
    BY <2>1 DEF Unlinked, RemoveOwn
  <2> QED BY <1>1, <1>3, <2>1, <2>2, Leaves DEF StepOf, Ends, Ways
<1> QED BY <1>2, <1>3

LEMMA CopyStep ==
  ASSUME Shape, NEW s \in Servers, NEW f \in Fields, Copy(s, f)
  PROVE  StepOf(s)
<1>1. Busy(s) /\ name' = name
  BY DEF Copy, Busy, Working
<1>2. PICK at \in {"loop", "copy"} :
        srv' = [srv EXCEPT ![s].todo = @ \ {f}, ![s].at = at]
  BY DEF Copy
<1>3. Changes(s, at, srv[s].kind, srv[s].holds)
  BY <1>1, <1>2 DEF Shape, Changes, DomainsKept, Same, NoServer
<1> QED BY <1>1, <1>3 DEF StepOf, Works, Working

LEMMA SendStep ==
  ASSUME Shape, NEW s \in Servers, Send(s)
  PROVE  StepOf(s)
<1>1. Busy(s) /\ Runs(s) /\ name' = name
  BY DEF Send, Busy, Working, Runs, Live
<1>2. CASE ~Named(s)
  BY <1>1, <1>2, Leaves DEF Send, StepOf, Ends, Ways
<1>3. CASE Named(s)
  <2>1. Changes(s, "loop", srv[s].kind, srv[s].holds)
    BY <1>1, <1>3 DEF Send, Shape, Changes, DomainsKept, Same, NoServer
  <2> QED BY <1>1, <2>1 DEF StepOf, Works, Working
<1> QED BY <1>2, <1>3

LEMMA AcceptStep ==
  ASSUME Shape, NEW s \in Servers, Accept(s)
  PROVE  StepOf(s)
<1>1. Busy(s) /\ name' = name /\ srv[s].kind = "sock"
  BY DEF Accept, Busy, Working
<1>2. Changes(s, "serve", srv[s].kind, srv[s].holds)
  BY <1>1 DEF Accept, Shape, Changes, DomainsKept, Same, NoServer
<1> QED BY <1>1, <1>2 DEF StepOf, Works, Working

LEMMA ServeStep ==
  ASSUME Shape, NEW s \in Servers, Serve(s)
  PROVE  StepOf(s)
<1>1. Busy(s) /\ Runs(s) /\ srv[s].kind = "sock"
  BY DEF Serve, Busy, Working, Runs, Live, Shape
<1>2. CASE srv[s].conn = None
  <2>1. Leave(s, "ended") /\ name' = Unlinked(name, "sock")
    BY <1>2 DEF Serve
  <2> QED BY <1>1, <2>1, Leaves DEF StepOf, Ends, Ways, Unlinked, ByName
<1>3. CASE srv[s].conn # None
  <2>1. name' = name
    BY <1>3 DEF Serve
  <2>2. Changes(s, "loop", srv[s].kind, srv[s].holds)
    BY <1>3, <2>1 DEF Serve, Shape, Changes, DomainsKept, Same, NoServer
  <2> QED BY <1>1, <2>1, <2>2 DEF StepOf, Works, Working
<1> QED BY <1>2, <1>3

LEMMA SignalStep ==
  ASSUME Shape, NEW s \in Servers, Signal(s)
  PROVE  StepOf(s)
<1>1. CASE Kill(s)
  BY <1>1, Leaves DEF Kill, StepOf, Ends, Ways
<1>2. CASE Handle(s)
  <2>1. Runs(s)
    BY <1>2 DEF Handle
  <2>2. CASE srv[s].kind \in ByName
    <3>1. Leave(s, "ended") /\ name' = Unlinked(name, srv[s].kind)
      BY <1>2, <2>2 DEF Handle
    <3>2. DOMAIN name' = DOMAIN name
      BY <3>1 DEF Unlinked
    <3> QED BY <2>1, <2>2, <3>1, <3>2, Leaves DEF StepOf, Ends, Ways
  <2>3. CASE srv[s].kind \notin ByName /\ srv[s].at = "opened"
    <3>1. Leave(s, "left") /\ name' = name
      BY <1>2, <2>3 DEF Handle
    <3> QED BY <2>1, <3>1, Leaves DEF StepOf, Ends, Ways
  <2>4. CASE srv[s].kind \notin ByName /\ srv[s].at # "opened"
    <3>1. Leave(s, "ended") /\ name' = RemoveOwn(s)
      BY <1>2, <2>4 DEF Handle
    <3>2. DOMAIN name' = DOMAIN name
      BY <3>1 DEF RemoveOwn
    <3> QED BY <2>1, <2>4, <3>1, <3>2, Leaves DEF StepOf, Ends, Ways
  <2> QED BY <2>2, <2>3, <2>4
<1>3. CASE Interrupted(s)
  <2>1. /\ Runs(s) /\ srv[s].kind \notin ByName
        /\ Leave(s, "ended") /\ name' = RemoveOwn(s)
    BY <1>3 DEF Interrupted, Runs, Live, Shape, ByName
  <2>2. DOMAIN name' = DOMAIN name
    BY <2>1 DEF RemoveOwn
  <2> QED BY <2>1, <2>2, Leaves DEF StepOf, Ends, Ways
<1> QED BY <1>1, <1>2, <1>3 DEF Signal

\* Clients and the clock leave servers and names alone.
LEMMA QuietStep ==
  ASSUME Shape,
         \/ Tick \/ SetBack \/ UNCHANGED vars
         \/ \E c \in Clients : ClientStep(c) \/ Connect(c) \/ Abandon(c)
                                \/ \E k \in Kinds : ClientOpen(c, k)
  PROVE  Quiet
<1> USE DEF Quiet, DomainsKept, Same, Shape
<1>1. CASE Tick \/ SetBack
  BY <1>1 DEF Tick, SetBack, SetClock
<1>2. CASE UNCHANGED vars
  BY <1>2 DEF vars
<1>3. ASSUME NEW c \in Clients, ClientStep(c)
      PROVE  Quiet
  <2>1. UNCHANGED <<name, srv>>
    BY <1>3 DEF ClientStep, HungUp, ClientAttach, ClientTake, ClientRead
  <2> QED BY <2>1
<1>4. ASSUME NEW c \in Clients, Connect(c) \/ \E k \in Kinds : ClientOpen(c, k)
      PROVE  Quiet
  BY <1>4 DEF Connect, ClientOpen
<1>5. ASSUME NEW c \in Clients, Abandon(c)
      PROVE  Quiet
  <2>1. name' = name /\ (srv' = srv \/ srv' = [srv EXCEPT ![cli[c].from].conn = None])
    BY <1>5 DEF Abandon
  <2>2. CASE srv' = srv
    BY <2>1, <2>2
  <2>3. CASE srv' = [srv EXCEPT ![cli[c].from].conn = None]
    BY <2>1, <2>3 DEF NoServer
  <2> QED BY <2>1, <2>2, <2>3
<1> QED BY <1>1, <1>2, <1>3, <1>4, <1>5

LEMMA NextStep ==
  ASSUME Shape, [Next]_vars
  PROVE  Quiet \/ \E s \in Servers : StepOf(s)
<1>1. ASSUME NEW s \in Servers, Step(s)
      PROVE  StepOf(s)
  BY <1>1, OpenStep, UnlinkStep, BindStep, OpenFailsStep, AttachStep, AttachFailsStep,
     AcceptStep, ServeStep, UpdateStep, LoadFailsStep, CopyStep, SendStep DEF Step
<1>2. ASSUME NEW s \in Servers, Signal(s) \/ \E k \in Kinds : Start(s, k)
      PROVE  StepOf(s)
  BY <1>2, SignalStep, StartStep
<1> QED BY <1>1, <1>2, QuietStep DEF Next

-----------------------------------------------------------------------------

LEMMA ShapeKept ==
  ASSUME Shape, [Next]_vars
  PROVE  Shape'
<1>1. CASE Quiet
  BY <1>1 DEF Quiet, DomainsKept, Same, Shape, Busy
<1>2. ASSUME NEW s \in Servers, Starts(s)
      PROVE  Shape'
  BY <1>2 DEF Starts, Changes, DomainsKept, Same, Shape, Busy, Live, Ways, Working
<1>3. ASSUME NEW s \in Servers, Creates(s)
      PROVE  Shape'
  <2>1. srv[s].kind \in Kinds /\ name'[srv[s].kind] # None
    BY <1>3, NumServersAssumption DEF Creates, Shape, Live, Servers, None
  <2> QED BY <1>3, <2>1 DEF Creates, Changes, DomainsKept, Same, Shape, Busy, Live, Ways, Working
<1>4. ASSUME NEW s \in Servers, Clears(s)
      PROVE  Shape'
  BY <1>4 DEF Clears, Changes, DomainsKept, Same, Shape, Busy, Live, Ways, Working, Kinds
<1>5. ASSUME NEW s \in Servers, Binds(s)
      PROVE  Shape'
  <2>1. s # None
    BY NumServersAssumption DEF Servers, None
  <2> QED BY <1>5, <2>1 DEF Binds, Changes, DomainsKept, Same, Shape, Busy, Live, Ways, Working, Kinds
<1>6. ASSUME NEW s \in Servers, Works(s)
      PROVE  Shape'
  BY <1>6 DEF Works, Changes, DomainsKept, Same, Shape, Busy, Live, Ways, Working
<1>7. ASSUME NEW s \in Servers, NEW how \in Ways, Ends(s, how)
      PROVE  Shape'
  BY <1>7 DEF Ends, Changes, DomainsKept, Same, Shape, Busy, Live, Ways, Working
<1> QED BY <1>1, <1>2, <1>3, <1>4, <1>5, <1>6, <1>7, NextStep DEF StepOf

LEMMA HeldKept ==
  ASSUME Shape, Held, [Next]_vars
  PROVE  Held'
<1>1. CASE Quiet
  BY <1>1 DEF Quiet, Same, Held
<1>2. ASSUME NEW s \in Servers, Starts(s)
      PROVE  Held'
  BY <1>2 DEF Starts, Changes, Same, Held, Live
<1>3. ASSUME NEW s \in Servers, Creates(s)
      PROVE  Held'
  BY <1>3 DEF Creates, Changes, Same, Held, Live, Shape
<1>4. ASSUME NEW s \in Servers, Clears(s)
      PROVE  Held'
  BY <1>4 DEF Clears, Changes, Same, Held, Live, Shape, Unlinked
<1>5. ASSUME NEW s \in Servers, Binds(s)
      PROVE  Held'
  BY <1>5 DEF Binds, Changes, Same, Held, Live, Shape
<1>6. ASSUME NEW s \in Servers, Works(s)
      PROVE  Held'
  BY <1>6 DEF Works, Changes, Same, Held, Live, Working
<1>7. ASSUME NEW s \in Servers, NEW how \in Ways, Ends(s, how)
      PROVE  Held'
  BY <1>7 DEF Ends, Changes, Same, Held, Live, Shape, Runs, Named, RemoveOwn, Unlinked, ByName, Ways
<1> QED BY <1>1, <1>2, <1>3, <1>4, <1>5, <1>6, <1>7, NextStep DEF StepOf

\* Who has taken an object away stays where it is.
LEMMA TakenStays ==
  ASSUME Shape, NEW u \in Servers, NEW t \in Servers, Busy(u), TakenBy(u, t),
         NEW s \in Servers, StepOf(s),
         srv'[u].kind = srv[u].kind, srv'[u].holds = srv[u].holds
  PROVE  TakenBy(u, t)'
<1>1. srv'[t].kind = srv[t].kind \/ srv[t].kind = "none"
  BY DEF Shape, StepOf, Starts, Creates, Clears, Binds, Works, Ends, Changes, Same
<1>2. CASE srv[u].kind = "sock"
  BY <1>1, <1>2 DEF TakenBy
<1>3. CASE srv[u].kind # "sock"
  <2>1. ~Runs(t) /\ srv[t].at \in Ways
    BY <1>3 DEF TakenBy, Shape, Runs, Ways, Live
  <2>2. Same(t)
    BY <2>1 DEF StepOf, Starts, Creates, Clears, Binds, Works, Ends, Changes, Busy,
                Runs, Ways, Live, Working
  <2> QED BY <1>3, <2>2 DEF TakenBy, Same, Runs
<1> QED BY <1>2, <1>3

LEMMA OrphansKept ==
  ASSUME Shape, Orphans, [Next]_vars
  PROVE  Orphans'
<1>1. CASE Quiet
  BY <1>1 DEF Quiet, Same, Orphans, Busy, Named, TakenBy, Runs
<1>2. ASSUME NEW s \in Servers, StepOf(s)
      PROVE  Orphans'
  <2> SUFFICES ASSUME NEW u \in Servers, Busy(u)', ~Named(u)'
               PROVE  \E t \in Servers \ {u} : TakenBy(u, t)'
    BY DEF Orphans
  <2>1. CASE u = s
    <3>1. Works(s)
      BY <1>2, <2>1 DEF StepOf, Starts, Creates, Clears, Binds, Ends, Changes, Busy, Named,
                        Shape, Live, Ways, Working, Kinds
    <3>2. /\ Busy(u) /\ ~Named(u)
          /\ srv'[u].kind = srv[u].kind /\ srv'[u].holds = srv[u].holds
      BY <2>1, <3>1 DEF Works, Changes, Named
    <3> QED BY <1>2, <3>2, TakenStays DEF Orphans
  <2>2. CASE u # s
    <3>1. Same(u) /\ Busy(u)
      BY <1>2, <2>2 DEF StepOf, Starts, Creates, Clears, Binds, Works, Ends, Changes, Same, Busy
    <3>2. CASE ~Named(u)
      BY <1>2, <3>1, <3>2, TakenStays DEF Orphans, Same
    <3>3. CASE Named(u)
      <4>1. name'[srv[u].kind] # name[srv[u].kind] /\ name[srv[u].kind] # None
        BY <3>1, <3>3 DEF Named, Same, Shape
      <4>2. srv[u].kind \in Kinds
        BY <3>1 DEF Shape, Busy, Live, Working
      <4>3. CASE Clears(s)
        BY <2>2, <3>1, <4>1, <4>2, <4>3 DEF Clears, Unlinked, Changes, TakenBy, Same, Shape
      <4>4. ASSUME NEW how \in Ways, Ends(s, how)
            PROVE  TakenBy(u, s)'
        <5>1. srv'[s].at = how /\ srv'[s].kind = srv[s].kind /\ srv'[s].holds = srv[s].holds
          BY <4>4 DEF Ends, Changes
        <5>2. ~Runs(s)'
          BY <5>1 DEF Runs, Ways, Live
        <5>3. CASE how = "ended" /\ name' = RemoveOwn(s) /\ srv[s].kind \notin ByName
          <6>1. srv[s].kind = srv[u].kind /\ srv[s].holds = srv[u].holds
            BY <3>3, <4>1, <4>2, <5>3 DEF RemoveOwn, Named, Shape
          <6> QED BY <3>1, <5>1, <5>3, <6>1 DEF TakenBy, ByName, Same
        <5>4. CASE how = "ended" /\ name' = Unlinked(name, srv[s].kind) /\ srv[s].kind \in ByName
          <6>1. srv[s].kind = srv[u].kind
            BY <4>1, <4>2, <5>4 DEF Unlinked, Shape
          <6> QED BY <3>1, <5>1, <5>2, <5>4, <6>1 DEF TakenBy, ByName, Same
        <5>5. CASE how = "unread" /\ name' = Unlinked(RemoveOwn(s), "file") /\ srv[s].kind # "sock"
          <6>1. \/ srv[u].kind = "file"
                \/ srv[s].kind = srv[u].kind /\ srv[s].holds = srv[u].holds
            BY <3>3, <4>1, <4>2, <5>5 DEF Unlinked, RemoveOwn, Named, Shape
          <6> QED BY <3>1, <5>1, <5>2, <5>5, <6>1 DEF TakenBy, Same
        <5> QED BY <4>1, <4>4, <5>3, <5>4, <5>5 DEF Ends
      <4>5. ~Starts(s) /\ ~Creates(s) /\ ~Works(s) /\ ~Binds(s)
        BY <4>1, <4>2 DEF Starts, Creates, Works, Binds, Shape
      <4> QED BY <1>2, <2>2, <4>3, <4>4, <4>5 DEF StepOf
    <3> QED BY <3>2, <3>3
  <2> QED BY <2>1, <2>2
<1> QED BY <1>1, <1>2, NextStep

LEMMA InitOK == Init => Shape /\ Held /\ Orphans
BY DEF Init, NoServer, Shape, Held, Orphans, Busy, Live, Ways, Working

\* What is left under a key or a name when no server runs was left by a server
\* that was killed, did not yet know its number, or could not read the load
\* (server.c:118-126, 158; unixserver.c:29), for any number of servers.
THEOREM NothingLeftCorrect == Spec => []NothingLeft
<1>1. Shape /\ Held /\ [Next]_vars => Shape' /\ Held'
  BY ShapeKept, HeldKept
<1>2. Held => NothingLeft
  BY DEF Held, NothingLeft, Runs
<1> QED BY <1>1, <1>2, InitOK, PTL DEF Spec

\* A running server that clients cannot find has lost its name to another one
\* (server.c:44, 193; unixserver.c:48, 77), for any number of servers.
THEOREM OrphansCorrect == Spec => []OrphanedByPeer
<1>1. Shape /\ Orphans /\ [Next]_vars => Shape' /\ Orphans'
  BY ShapeKept, OrphansKept
<1>2. Orphans => OrphanedByPeer
  BY DEF Orphans, OrphanedByPeer, Busy, TakenBy, Working
<1> QED BY <1>1, <1>2, InitOK, PTL DEF Spec

-----------------------------------------------------------------------------
(* What is in memory, and what a client has read of it.                    *)

\* What ReadsRegular needs to know of the variables' types.
Entry == Servers \X Nat

ObjectTypes(r) ==
  /\ DOMAIN r = DOMAIN NewObject
  /\ r.mem \in [Fields -> Nat] /\ r.whole \in Nat /\ r.hist \in Seq(Entry)

TimeTypes(r) == r.time \in Nat /\ r.start \in Nat /\ r.todo \subseteq Fields

CopyTypes(r) == r.at = "copy" => r.todo # {} /\ r.kind \in {"shm", "file"}

ClientTypes(r) ==
  /\ DOMAIN r = DOMAIN NoClient
  /\ r.at \in {"off", "opened", "wait"} \cup Fields
  /\ r.at # "off" => r.from \in Servers
  /\ r.time \in Nat /\ r.since \in Nat

Values ==
  /\ now \in Nat
  /\ name \in [Kinds -> Servers \cup {None}]
  /\ DOMAIN obj = Servers /\ \A o \in Servers : ObjectTypes(obj[o])
  /\ \A s \in Servers : /\ TimeTypes(srv[s]) /\ CopyTypes(srv[s])
                        /\ srv[s].holds \in Servers \cup {None}
  /\ DOMAIN cli = Clients /\ \A c \in Clients : ClientTypes(cli[c])

\* The time of the i-th update of h, and of memory that nobody has written.
Stored(h, i) == IF i = 0 THEN 0 ELSE h[i][2]

Known(h, t) == \E i \in 0..Len(h) : t = Stored(h, i)

Copying(h, s, t) == \E i \in 1..Len(h) : h[i][1] = s /\ t = Stored(h, i)

\* What is in memory, and what is being copied there, is from some update.
Written ==
  /\ \A o \in Servers : /\ \A f \in Fields : Known(obj[o].hist, obj[o].mem[f])
                        /\ Len(obj[o].hist) = 0 => obj[o].whole = 0
  /\ \A s \in Servers : srv[s].at = "copy" => Copying(obj[srv[s].holds].hist, s, srv[s].time)

\* One server has written the object: what it writes rises, and at most its
\* last update is not complete.
WrittenBy(h, w) == Len(h) > 0 /\ \A i \in 1..Len(h) : h[i][1] = w

Rising(h) ==
  /\ \A i \in 1..Len(h) : 0 < Stored(h, i)
  /\ \A i, j \in 1..Len(h) : i < j => Stored(h, i) < Stored(h, j)

\* The object x and the server r that has written it.
Copied(x, r) ==
  LET n == Len(x.hist)
  IN  CASE r.at = "loop" ->
             /\ r.time = Stored(x.hist, n) /\ x.whole = n
             /\ \A f \in Fields : x.mem[f] = Stored(x.hist, n)
        [] r.at = "copy" ->
             /\ r.time = Stored(x.hist, n) /\ x.whole = n - 1
             /\ \A f \in Fields :
                  x.mem[f] = Stored(x.hist, IF f \in r.todo THEN n - 1 ELSE n)
        [] OTHER ->
             /\ x.whole \in {n - 1, n}
             /\ \A f \in Fields : \E i \in {n - 1, n} :
                  i >= x.whole /\ x.mem[f] = Stored(x.hist, i)

Writer(w) == srv[w].at \in {"loop", "copy"} \cup Ways /\ srv[w].kind \in {"shm", "file"}

OneWriter ==
  \A o, w \in Servers : WrittenBy(obj[o].hist, w) =>
    Writer(w) /\ srv[w].holds = o /\ Rising(obj[o].hist) /\ Copied(obj[o], srv[w])

\* What a client knows of the object.
Seen ==
  \A c \in Clients : cli[c].at \in Fields =>
    /\ cli[c].since <= obj[cli[c].from].whole
    /\ cli[c].at = "load" => Known(obj[cli[c].from].hist, cli[c].time)

-----------------------------------------------------------------------------
(* What steps do to the memory, to those who write it and to its readers.  *)

\* A list of updates grows by one.
Grows(h, g, s, t) ==
  /\ Len(g) = Len(h) + 1 /\ g[Len(h) + 1][1] = s /\ g[Len(h) + 1][2] = t
  /\ \A i \in 1..Len(h) : g[i] = h[i]

MemoryKept ==
  /\ DOMAIN obj' = Servers
  /\ \A o \in Servers : /\ DOMAIN obj'[o] = DOMAIN NewObject
                        /\ obj'[o].hist = obj[o].hist /\ obj'[o].mem = obj[o].mem
                        /\ obj'[o].whole = obj[o].whole

Unmoved(u) ==
  /\ srv'[u].at = srv[u].at /\ srv'[u].kind = srv[u].kind /\ srv'[u].holds = srv[u].holds
  /\ srv'[u].time = srv[u].time /\ srv'[u].todo = srv[u].todo

\* A server that has written nothing yet may do anything but write.
Rests(u) ==
  \/ Unmoved(u)
  \/ srv'[u].at \in Ways /\ srv'[u].kind = srv[u].kind /\ srv'[u].holds = srv[u].holds
  \/ ~Writer(u) /\ srv'[u].at # "copy"

Aside == MemoryKept /\ \A u \in Servers : Rests(u)

\* Another update begins.
Begins(s, t) ==
  /\ srv[s].at = "loop" /\ srv[s].kind \in {"shm", "file"} /\ t > srv[s].time
  /\ obj' = [obj EXCEPT ![srv[s].holds].hist = Append(@, <<s, t>>)]
  /\ srv' = [srv EXCEPT ![s].time = t, ![s].at = "copy", ![s].todo = Fields]
  /\ cli' = cli

Looks(c) ==
  \/ cli'[c] = cli[c] \/ cli'[c].at \notin Fields
  \/ /\ cli[c].at = "opened" /\ cli'[c].at = "time" /\ cli'[c].from = cli[c].from
     /\ cli'[c].since = obj[cli[c].from].whole
  \/ /\ cli[c].at = "time" /\ cli'[c].at = "load" /\ cli'[c].from = cli[c].from
     /\ cli'[c].since = cli[c].since /\ cli'[c].time = obj[cli[c].from].mem["time"]

LEMMA LeaveRests ==
  ASSUME Shape, NEW s \in Servers, NEW how \in Ways, Leave(s, how)
  PROVE  \A u \in Servers : Rests(u)
BY DEF Shape, Leave, Rests, Unmoved, NoServer

\* A server that has a socket or a queue, or no object yet, moves on.
LEMMA OtherRests ==
  ASSUME Shape, NEW s \in Servers, ~Writer(s), srv'[s].at # "copy",
         \A u \in Servers \ {s} : srv'[u] = srv[u]
  PROVE  \A u \in Servers : Rests(u)
BY DEF Rests, Unmoved

LEMMA ServerAside ==
  ASSUME Shape, Values, NEW s \in Servers,
         \/ Signal(s) \/ \E k \in Kinds : Start(s, k)
         \/ Open(s) \/ Unlink(s) \/ Bind(s) \/ OpenFails(s) \/ Attach(s) \/ AttachFails(s)
         \/ Accept(s) \/ Serve(s) \/ LoadFails(s) \/ Send(s)
         \/ Update(s) /\ srv[s].kind = "msg"
  PROVE  Aside
<1>1. /\ DOMAIN srv = Servers /\ DOMAIN srv[s] = DOMAIN NoServer
      /\ DOMAIN obj = Servers /\ \A o \in Servers : DOMAIN obj[o] = DOMAIN NewObject
  BY DEF Shape, Values, ObjectTypes
<1>2. CASE obj' = obj
  <2>1. MemoryKept
    BY <1>1, <1>2 DEF MemoryKept
  <2> SUFFICES \A u \in Servers : Rests(u)
    BY <2>1 DEF Aside
  <2>2. CASE \E how \in Ways : Leave(s, how)
    BY <2>2, LeaveRests
  <2>3. CASE (\E k \in Kinds : Start(s, k)) \/ Open(s) \/ Unlink(s)
    <3>1. ~Writer(s)
      BY <2>3 DEF Start, Open, Unlink, Writer, Ways
    <3>2. srv'[s].at # "copy" /\ \A u \in Servers \ {s} : srv'[u] = srv[u]
      <4>1. CASE \E k \in Kinds : Start(s, k)
        <5>1. PICK k \in Kinds : Start(s, k)
          BY <4>1
        <5> QED BY <1>1, <5>1 DEF Start, NoServer
      <4>2. CASE Open(s)
        BY <1>1, <4>2 DEF Open, NoServer
      <4>3. CASE Unlink(s)
        BY <1>1, <4>3 DEF Unlink, NoServer
      <4> QED BY <2>3, <4>1, <4>2, <4>3
    <3> QED BY <3>1, <3>2, OtherRests
  <2>4. CASE Bind(s) \/ Attach(s)
    <3>1. CASE ~ \E how \in Ways : Leave(s, how)
      <4>1. ~Writer(s)
        BY <2>4 DEF Bind, Attach, Writer, Ways
      <4>2. srv'[s].at # "copy" /\ \A u \in Servers \ {s} : srv'[u] = srv[u]
        BY <1>1, <2>4, <3>1 DEF Bind, Attach, NoServer, Ways
      <4> QED BY <4>1, <4>2, OtherRests
    <3> QED BY <2>2, <3>1
  <2>5. CASE Accept(s) \/ Send(s) \/ (Update(s) /\ srv[s].kind = "msg") \/ Serve(s)
    <3>1. CASE ~ \E how \in Ways : Leave(s, how)
      <4>1. ~Writer(s)
        BY <2>5 DEF Accept, Send, Serve, Writer, Ways, Shape
      <4>2. srv'[s].at # "copy" /\ \A u \in Servers \ {s} : srv'[u] = srv[u]
        <5>1. CASE Accept(s)
          BY <1>1, <3>1, <5>1 DEF Accept, NoServer, Ways
        <5>2. CASE Send(s)
          BY <1>1, <3>1, <5>2 DEF Send, NoServer, Ways
        <5>3. CASE Update(s) /\ srv[s].kind = "msg"
          BY <1>1, <3>1, <5>3 DEF Update, NoServer, Ways
        <5>4. CASE Serve(s)
          BY <1>1, <3>1, <5>4 DEF Serve, NoServer, Ways
        <5> QED BY <2>5, <5>1, <5>2, <5>3, <5>4
      <4> QED BY <4>1, <4>2, OtherRests
    <3> QED BY <2>2, <3>1
  <2>6. CASE Signal(s) \/ OpenFails(s) \/ AttachFails(s) \/ LoadFails(s)
    BY <2>2, <2>6 DEF Signal, Interrupted, Handle, Kill, OpenFails, AttachFails, LoadFails, Ways
  <2> QED BY <2>3, <2>4, <2>5, <2>6
<1>3. CASE obj' # obj
  <2>1. CASE Attach(s)
    <3>1. obj' = [obj EXCEPT ![srv[s].holds].sized = TRUE]
      BY <1>3, <2>1 DEF Attach
    <3>2. MemoryKept
      BY <1>1, <3>1 DEF MemoryKept, NewObject
    <3>3. ~Writer(s)
      BY <2>1 DEF Attach, Writer, Ways
    <3>4. srv'[s].at # "copy" /\ \A u \in Servers \ {s} : srv'[u] = srv[u]
      BY <1>1, <2>1 DEF Attach, NoServer
    <3> QED BY <3>2, <3>3, <3>4, OtherRests DEF Aside
  <2>2. CASE AttachFails(s)
    <3>1. obj' = [obj EXCEPT ![srv[s].holds].sized = TRUE] /\ \E how \in Ways : Leave(s, how)
      BY <1>3, <2>2 DEF AttachFails, Ways
    <3>2. MemoryKept
      BY <1>1, <3>1 DEF MemoryKept, NewObject
    <3> QED BY <3>1, <3>2, LeaveRests DEF Aside
  <2>3. CASE Accept(s) \/ Send(s)
    <3>1. PICK o, m : obj' = [obj EXCEPT ![o].msgs = m]
      BY <1>3, <2>3 DEF Accept, Send
    <3>2. MemoryKept
      BY <1>1, <3>1 DEF MemoryKept, NewObject
    <3>3. ~Writer(s)
      BY <2>3 DEF Accept, Send, Writer, Ways, Shape
    <3>4. srv'[s].at # "copy" /\ \A u \in Servers \ {s} : srv'[u] = srv[u]
      BY <1>1, <1>3, <2>3 DEF Accept, Send, NoServer
    <3> QED BY <3>2, <3>3, <3>4, OtherRests DEF Aside
  <2> QED BY <1>3, <2>1, <2>2, <2>3
          DEF Signal, Interrupted, Handle, Kill, Start, Open, Unlink, Bind, OpenFails, Serve,
              LoadFails, Update
<1> QED BY <1>2, <1>3

LEMMA ClientAside ==
  ASSUME Shape, Values, NEW c \in Clients,
         ClientStep(c) \/ Connect(c) \/ Abandon(c) \/ \E k \in Kinds : ClientOpen(c, k)
  PROVE  Aside
<1>1. /\ DOMAIN obj = Servers /\ \A o \in Servers : DOMAIN obj[o] = DOMAIN NewObject
      /\ DOMAIN srv = Servers /\ \A s \in Servers : DOMAIN srv[s] = DOMAIN NoServer
  BY DEF Shape, Values, ObjectTypes
<1>2. MemoryKept
  <2>1. obj' = obj \/ \E o, m : obj' = [obj EXCEPT ![o].msgs = m]
    BY DEF ClientStep, HungUp, ClientAttach, ClientTake, ClientRead, Connect, Abandon, ClientOpen
  <2> QED BY <1>1, <2>1 DEF MemoryKept, NewObject
<1>3. ASSUME NEW u \in Servers
      PROVE  Unmoved(u)
  <2>1. srv' = srv \/ \E o : srv' = [srv EXCEPT ![o].conn = None]
    BY DEF ClientStep, HungUp, ClientAttach, ClientTake, ClientRead, Connect, Abandon, ClientOpen
  <2> QED BY <1>1, <2>1 DEF Unmoved, NoServer
<1> QED BY <1>2, <1>3 DEF Aside, Rests

LEMMA UpdateBegins ==
  ASSUME Shape, Values, NEW s \in Servers, Update(s), srv[s].kind # "msg"
  PROVE  \E t \in Nat : Begins(s, t)
<1> DEFINE t == now - srv[s].start
<1>1. t > srv[s].time /\ t \in Nat
  <2>1. t > srv[s].time
    BY DEF Update, Due
  <2> QED BY <2>1 DEF Values, TimeTypes
<1>2. srv[s].kind \in {"shm", "file"}
  BY DEF Update, Shape, Live, Kinds
<1>3. Begins(s, t)
  BY <1>1, <1>2 DEF Update, Begins
<1> QED BY <1>1, <1>3

\* Every step is one of these.
LEMMA MemoryStep ==
  ASSUME Shape, Values, [Next]_vars
  PROVE  \/ Aside
         \/ \E s \in Servers : (\E t \in Nat : Begins(s, t)) \/ \E f \in Fields : Copy(s, f)
<1>1. CASE Tick \/ SetBack \/ UNCHANGED vars
  BY <1>1 DEF Tick, SetBack, SetClock, vars, Aside, MemoryKept, Rests, Unmoved, Values,
              ObjectTypes
<1>2. CASE \E c \in Clients : ClientStep(c) \/ Connect(c) \/ Abandon(c)
                                \/ \E k \in Kinds : ClientOpen(c, k)
  BY <1>2, ClientAside
<1>3. ASSUME NEW s \in Servers, Step(s) \/ Signal(s) \/ \E k \in Kinds : Start(s, k)
      PROVE  \/ Aside
             \/ (\E t \in Nat : Begins(s, t)) \/ \E f \in Fields : Copy(s, f)
  BY <1>3, ServerAside, UpdateBegins DEF Step
<1> QED BY <1>1, <1>2, <1>3 DEF Next

LEMMA NamesKept ==
  ASSUME Shape, Values, [Next]_vars
  PROVE  /\ name' \in [Kinds -> Servers \cup {None}]
         /\ \A s \in Servers : srv'[s].holds \in Servers \cup {None}
<1>1. /\ name \in [Kinds -> Servers \cup {None}]
      /\ \A s \in Servers : srv[s].holds \in Servers \cup {None}
  BY DEF Values
<1>2. CASE Quiet
  BY <1>1, <1>2 DEF Quiet, Same
<1>3. ASSUME NEW s \in Servers, Starts(s) \/ Works(s)
      PROVE  /\ name' \in [Kinds -> Servers \cup {None}]
             /\ \A u \in Servers : srv'[u].holds \in Servers \cup {None}
  BY <1>1, <1>3 DEF Starts, Works, Changes, Same
<1>4. ASSUME NEW s \in Servers, Creates(s)
      PROVE  /\ name' \in [Kinds -> Servers \cup {None}]
             /\ \A u \in Servers : srv'[u].holds \in Servers \cup {None}
  <2>1. srv[s].kind \in Kinds
    BY <1>4 DEF Creates, Shape, Live
  <2>2. name' \in [Kinds -> Servers \cup {None}]
    BY <1>1, <1>4, <2>1 DEF Creates
  <2> QED BY <1>1, <1>4, <2>1, <2>2 DEF Creates, Changes, Same
<1>5. ASSUME NEW s \in Servers, Clears(s) \/ Binds(s)
      PROVE  /\ name' \in [Kinds -> Servers \cup {None}]
             /\ \A u \in Servers : srv'[u].holds \in Servers \cup {None}
  BY <1>1, <1>5 DEF Clears, Binds, Unlinked, Changes, Same
<1>6. ASSUME NEW s \in Servers, NEW how \in Ways, Ends(s, how)
      PROVE  /\ name' \in [Kinds -> Servers \cup {None}]
             /\ \A u \in Servers : srv'[u].holds \in Servers \cup {None}
  <2>1. name' \in [Kinds -> Servers \cup {None}]
    BY <1>1, <1>6 DEF Ends, RemoveOwn, Unlinked
  <2> QED BY <1>1, <1>6, <2>1 DEF Ends, Changes, Same
<1> QED BY <1>2, <1>3, <1>4, <1>5, <1>6, NextStep DEF StepOf

LEMMA TimesKept ==
  ASSUME Shape, Values, [Next]_vars
  PROVE  now' \in Nat /\ \A s \in Servers : TimeTypes(srv'[s])
<1>1. /\ now \in Nat /\ MaxTime \in Nat /\ DOMAIN srv = Servers
      /\ \A s \in Servers : DOMAIN srv[s] = DOMAIN NoServer /\ TimeTypes(srv[s])
  BY MaxTimeAssumption DEF Values, Shape
<1>2. CASE Tick \/ SetBack \/ UNCHANGED vars
  BY <1>1, <1>2 DEF Tick, SetBack, SetClock, vars
<1>3. ASSUME NEW c \in Clients,
             ClientStep(c) \/ Connect(c) \/ Abandon(c) \/ \E k \in Kinds : ClientOpen(c, k)
      PROVE  now' \in Nat /\ \A s \in Servers : TimeTypes(srv'[s])
  <2>1. now' = now /\ (srv' = srv \/ \E o : srv' = [srv EXCEPT ![o].conn = None])
    BY <1>3 DEF ClientStep, HungUp, ClientAttach, ClientTake, ClientRead, Connect, Abandon,
                ClientOpen
  <2> QED BY <1>1, <2>1 DEF TimeTypes, NoServer
<1>4. ASSUME NEW s \in Servers, Step(s) \/ Signal(s) \/ \E k \in Kinds : Start(s, k)
      PROVE  now' \in Nat /\ \A u \in Servers : TimeTypes(srv'[u])
  <2>1. now' = now
    BY <1>4 DEF Step, Signal, Start, Open, Unlink, Bind, OpenFails, Attach, AttachFails, Accept,
                Serve, Update, LoadFails, Copy, Send, Interrupted, Handle, Kill
  <2>2. CASE \E how \in Ways : Leave(s, how)
    BY <1>1, <2>1, <2>2 DEF Leave, TimeTypes, NoServer
  <2>3. CASE \E k \in Kinds : Start(s, k)
    BY <1>1, <2>1, <2>3 DEF Start, TimeTypes, NoServer
  <2>4. CASE Open(s)
    BY <1>1, <2>1, <2>4 DEF Open, TimeTypes, NoServer
  <2>5. CASE Unlink(s) \/ Bind(s) \/ Attach(s)
    BY <1>1, <2>1, <2>2, <2>5 DEF Unlink, Bind, Attach, TimeTypes, NoServer, Ways
  <2>6. CASE Accept(s) \/ Send(s)
    BY <1>1, <2>1, <2>2, <2>6 DEF Accept, Send, TimeTypes, NoServer, Ways
  <2>7. CASE Serve(s)
    <3>1. now - srv[s].start \in Nat
      BY <1>1, <2>7 DEF Serve, Due, TimeTypes
    <3> QED BY <1>1, <2>1, <2>2, <2>7, <3>1 DEF Serve, TimeTypes, NoServer, Ways
  <2>8. CASE Update(s)
    <3>1. now - srv[s].start \in Nat
      BY <1>1, <2>8 DEF Update, Due, TimeTypes
    <3>2. PICK t \in Nat, a \in {"send", "copy"}, d \in {srv[s].todo, Fields} :
            srv' = [srv EXCEPT ![s].time = t, ![s].at = a, ![s].todo = d]
      <4>1. CASE srv[s].kind = "msg"
        <5>1. srv' = [srv EXCEPT ![s].time = now - srv[s].start, ![s].at = "send"]
          BY <2>8, <4>1 DEF Update
        <5>2. srv' = [srv EXCEPT ![s].time = now - srv[s].start, ![s].at = "send",
                                 ![s].todo = srv[s].todo]
          BY <1>1, <5>1 DEF NoServer
        <5> QED BY <3>1, <5>2
      <4>2. CASE srv[s].kind # "msg"
        <5>1. srv' = [srv EXCEPT ![s].time = now - srv[s].start, ![s].at = "copy",
                                 ![s].todo = Fields]
          BY <2>8, <4>2 DEF Update
        <5> QED BY <3>1, <5>1
      <4> QED BY <4>1, <4>2
    <3> QED BY <1>1, <2>1, <3>2 DEF TimeTypes, NoServer
  <2>9. CASE \E f \in Fields : Copy(s, f)
    <3>1. PICK f \in Fields, a \in {"loop", "copy"} :
            srv' = [srv EXCEPT ![s].todo = @ \ {f}, ![s].at = a]
      BY <2>9 DEF Copy
    <3> QED BY <1>1, <2>1, <3>1 DEF TimeTypes, NoServer
  <2>10. CASE Signal(s) \/ OpenFails(s) \/ AttachFails(s) \/ LoadFails(s)
    BY <2>2, <2>10 DEF Signal, Interrupted, Handle, Kill, OpenFails, AttachFails, LoadFails, Ways
  <2> QED BY <1>4, <2>3, <2>4, <2>5, <2>6, <2>7, <2>8, <2>9, <2>10 DEF Step
<1> QED BY <1>2, <1>3, <1>4 DEF Next

LEMMA ClientsKept ==
  ASSUME Shape, Values, [Next]_vars
  PROVE  DOMAIN cli' = Clients /\ \A c \in Clients : ClientTypes(cli'[c]) /\ Looks(c)
<1>1. /\ DOMAIN cli = Clients /\ (\A c \in Clients : ClientTypes(cli[c]))
      /\ name \in [Kinds -> Servers \cup {None}]
      /\ \A o \in Servers : obj[o].mem \in [Fields -> Nat] /\ obj[o].whole \in Nat
  BY DEF Values, ObjectTypes
<1>2. CASE cli' = cli
  BY <1>1, <1>2 DEF Looks
<1>3. CASE \E d : cli' = [cli EXCEPT ![d] = NoClient]
  BY <1>1, <1>3 DEF Looks, ClientTypes, NoClient, Fields
<1>4. ASSUME NEW d \in Clients, Connect(d) \/ \E k \in Kinds : ClientOpen(d, k)
      PROVE  DOMAIN cli' = Clients /\ \A c \in Clients : ClientTypes(cli'[c]) /\ Looks(c)
  <2>1. PICK r :
          /\ cli' = [cli EXCEPT ![d] = r]
          /\ DOMAIN r = DOMAIN NoClient /\ r.at \in {"opened", "wait"} /\ r.from \in Servers
          /\ r.time = 0 /\ r.since = 0
    <3>1. CASE Connect(d)
      <4>1. name["sock"] \in Servers
        BY <1>1, <3>1 DEF Connect, Kinds
      <4> DEFINE r == [NoClient EXCEPT !.at = "wait", !.from = name["sock"]]
      <4>2. cli' = [cli EXCEPT ![d] = r]
        BY <3>1 DEF Connect
      <4>3. /\ DOMAIN r = DOMAIN NoClient /\ r.at = "wait" /\ r.from \in Servers
            /\ r.time = 0 /\ r.since = 0
        BY <4>1 DEF NoClient
      <4> QED BY <4>2, <4>3
    <3>2. ASSUME NEW k \in Kinds, ClientOpen(d, k)
          PROVE  \E r : /\ cli' = [cli EXCEPT ![d] = r]
                        /\ DOMAIN r = DOMAIN NoClient /\ r.at = "opened" /\ r.from \in Servers
                        /\ r.time = 0 /\ r.since = 0
      <4> DEFINE r == [NoClient EXCEPT !.at = "opened", !.kind = k, !.from = name[k]]
      <4>1. cli' = [cli EXCEPT ![d] = r]
        BY <3>2 DEF ClientOpen
      <4>2. name[k] \in Servers
        BY <1>1, <3>2 DEF ClientOpen
      <4>3. /\ DOMAIN r = DOMAIN NoClient /\ r.at = "opened" /\ r.from \in Servers
            /\ r.time = 0 /\ r.since = 0
        BY <4>2 DEF NoClient
      <4> QED BY <4>1, <4>3
    <3> QED BY <1>4, <3>1, <3>2
  <2> QED BY <1>1, <2>1 DEF Looks, ClientTypes, Fields
<1>5. ASSUME NEW d \in Clients, ClientAttach(d), ~ \E e : cli' = [cli EXCEPT ![e] = NoClient]
      PROVE  DOMAIN cli' = Clients /\ \A c \in Clients : ClientTypes(cli'[c]) /\ Looks(c)
  <2>1. /\ cli[d].at = "opened" /\ cli[d].from \in Servers
        /\ cli' = [cli EXCEPT ![d].at = "time", ![d].since = obj[cli[d].from].whole]
    BY <1>1, <1>5 DEF ClientAttach, Returns, ClientTypes
  <2> QED BY <1>1, <2>1 DEF Looks, ClientTypes, NoClient, Fields
<1>6. ASSUME NEW d \in Clients, NEW f \in Fields, ClientRead(d, f),
             ~ \E e : cli' = [cli EXCEPT ![e] = NoClient]
      PROVE  DOMAIN cli' = Clients /\ \A c \in Clients : ClientTypes(cli'[c]) /\ Looks(c)
  <2>1. /\ cli[d].at = "time" /\ cli[d].from \in Servers
        /\ cli' = [cli EXCEPT ![d].at = "load", ![d].time = obj[cli[d].from].mem["time"]]
    BY <1>1, <1>6 DEF ClientRead, Returns, ClientTypes, Fields
  <2>2. obj[cli[d].from].mem["time"] \in Nat
    BY <1>1, <2>1 DEF Fields
  <2> QED BY <1>1, <2>1, <2>2 DEF Looks, ClientTypes, NoClient, Fields
<1>7. ASSUME NEW d \in Clients, ClientStep(d) \/ Abandon(d)
      PROVE  DOMAIN cli' = Clients /\ \A c \in Clients : ClientTypes(cli'[c]) /\ Looks(c)
  BY <1>3, <1>5, <1>6, <1>7 DEF ClientStep, HungUp, ClientTake, Abandon, Returns
<1>8. ASSUME NEW s \in Servers, Step(s) \/ Signal(s) \/ \E k \in Kinds : Start(s, k)
      PROVE  cli' = cli \/ \E d : cli' = [cli EXCEPT ![d] = NoClient]
  BY <1>8 DEF Step, Signal, Start, Open, Unlink, Bind, OpenFails, Attach, AttachFails, Accept,
              Serve, Update, LoadFails, Copy, Send, Interrupted, Handle, Kill
<1>9. CASE Tick \/ SetBack \/ UNCHANGED vars
  BY <1>2, <1>9 DEF Tick, SetBack, SetClock, vars
<1> QED BY <1>2, <1>3, <1>4, <1>7, <1>8, <1>9 DEF Next

\* The object of a server that writes to it or has written to it.
LEMMA WriterHolds ==
  ASSUME Shape, Values, NEW s \in Servers, srv[s].at \in {"loop", "copy"}
  PROVE  srv[s].holds \in Servers
BY DEF Shape, Values, Busy, Working

\* What the beginning of an update makes of the variables.
LEMMA BeginsEffect ==
  ASSUME Shape, Values, NEW s \in Servers, NEW t \in Nat, Begins(s, t), NEW o, o = srv[s].holds
  PROVE  /\ o \in Servers /\ DOMAIN obj' = Servers
         /\ obj'[o].hist \in Seq(Entry) /\ Grows(obj[o].hist, obj'[o].hist, s, t)
         /\ \A p \in Servers : /\ DOMAIN obj'[p] = DOMAIN NewObject
                               /\ obj'[p].mem = obj[p].mem /\ obj'[p].whole = obj[p].whole
         /\ \A p \in Servers \ {o} : obj'[p] = obj[p]
         /\ srv'[s].at = "copy" /\ srv'[s].time = t /\ srv'[s].todo = Fields
         /\ srv'[s].kind = srv[s].kind /\ srv'[s].holds = o
         /\ \A u \in Servers \ {s} : srv'[u] = srv[u]
<1>1. o \in Servers
  BY WriterHolds DEF Begins
<1>2. obj[o].hist \in Seq(Entry) /\ <<s, t>> \in Entry
  BY <1>1 DEF Values, ObjectTypes, Entry
<1>3. /\ DOMAIN obj' = Servers /\ obj'[o].hist = Append(obj[o].hist, <<s, t>>)
      /\ \A p \in Servers : /\ DOMAIN obj'[p] = DOMAIN NewObject
                            /\ obj'[p].mem = obj[p].mem /\ obj'[p].whole = obj[p].whole
      /\ \A p \in Servers \ {o} : obj'[p] = obj[p]
  BY <1>1 DEF Begins, Values, ObjectTypes, NewObject
<1>4. /\ srv'[s].at = "copy" /\ srv'[s].time = t /\ srv'[s].todo = Fields
      /\ srv'[s].kind = srv[s].kind /\ srv'[s].holds = o
      /\ \A u \in Servers \ {s} : srv'[u] = srv[u]
  BY DEF Begins, Shape, NoServer
<1>5. PICK e \in Entry : e = <<s, t>>
  BY <1>2
<1>6. /\ Append(obj[o].hist, e) \in Seq(Entry)
      /\ Len(Append(obj[o].hist, e)) = Len(obj[o].hist) + 1
      /\ Append(obj[o].hist, e)[Len(obj[o].hist) + 1] = e
      /\ \A i \in 1..Len(obj[o].hist) : Append(obj[o].hist, e)[i] = obj[o].hist[i]
  <2>1. PICK h \in Seq(Entry) : h = obj[o].hist
    BY <1>2
  <2>2. /\ Append(h, e) \in Seq(Entry)
        /\ Len(Append(h, e)) = Len(h) + 1
        /\ Append(h, e)[Len(h) + 1] = e
        /\ \A i \in 1..Len(h) : Append(h, e)[i] = h[i]
    BY AppendProperties
  <2> QED BY <2>1, <2>2
<1>7. obj'[o].hist = Append(obj[o].hist, e)
  BY <1>3, <1>5
<1>8. obj'[o].hist \in Seq(Entry) /\ Grows(obj[o].hist, obj'[o].hist, s, t)
  <2>1. <<s, t>>[1] = s /\ <<s, t>>[2] = t
    OBVIOUS
  <2>2. e[1] = s /\ e[2] = t
    BY <1>5, <2>1
  <2> QED BY <1>6, <1>7, <2>2 DEF Grows
<1> QED BY <1>1, <1>2, <1>3, <1>4, <1>8

\* What the copy of one field makes of them.
LEMMA CopyEffect ==
  ASSUME Shape, Values, NEW s \in Servers, NEW f \in Fields, Copy(s, f), NEW o, o = srv[s].holds
  PROVE  /\ o \in Servers /\ DOMAIN obj' = Servers /\ cli' = cli
         /\ srv[s].at = "copy" /\ f \in srv[s].todo /\ srv[s].kind \in {"shm", "file"}
         /\ \A p \in Servers : /\ DOMAIN obj'[p] = DOMAIN NewObject
                               /\ obj'[p].hist = obj[p].hist
         /\ obj'[o].mem = [obj[o].mem EXCEPT ![f] = srv[s].time]
         /\ obj'[o].whole = IF srv[s].todo = {f} THEN obj[o].whole + 1 ELSE obj[o].whole
         /\ \A p \in Servers \ {o} : obj'[p] = obj[p]
         /\ srv'[s].at = IF srv[s].todo = {f} THEN "loop" ELSE "copy"
         /\ srv'[s].todo = srv[s].todo \ {f}
         /\ srv'[s].kind = srv[s].kind /\ srv'[s].holds = o /\ srv'[s].time = srv[s].time
         /\ \A u \in Servers \ {s} : srv'[u] = srv[u]
<1>1. o \in Servers /\ srv[s].at = "copy" /\ f \in srv[s].todo /\ srv[s].kind \in {"shm", "file"}
  BY WriterHolds DEF Copy, Values, CopyTypes
<1>2. /\ DOMAIN obj = Servers /\ \A p \in Servers : DOMAIN obj[p] = DOMAIN NewObject
      /\ DOMAIN srv = Servers /\ DOMAIN srv[s] = DOMAIN NoServer
  BY DEF Values, ObjectTypes, Shape
<1>3. PICK w : /\ w = IF srv[s].todo = {f} THEN obj[o].whole + 1 ELSE obj[o].whole
               /\ obj' = [obj EXCEPT ![o].mem[f] = srv[s].time, ![o].whole = w]
  BY <1>1, <1>2 DEF Copy, NewObject
<1>4. PICK a : /\ a = IF srv[s].todo = {f} THEN "loop" ELSE "copy"
               /\ srv' = [srv EXCEPT ![s].todo = @ \ {f}, ![s].at = a]
  BY DEF Copy
<1>5. /\ DOMAIN obj' = Servers
      /\ \A p \in Servers : DOMAIN obj'[p] = DOMAIN NewObject /\ obj'[p].hist = obj[p].hist
      /\ obj'[o].mem = [obj[o].mem EXCEPT ![f] = srv[s].time] /\ obj'[o].whole = w
      /\ \A p \in Servers \ {o} : obj'[p] = obj[p]
  BY <1>1, <1>2, <1>3 DEF NewObject
<1>6. /\ srv'[s].at = a /\ srv'[s].todo = srv[s].todo \ {f}
      /\ srv'[s].kind = srv[s].kind /\ srv'[s].holds = o /\ srv'[s].time = srv[s].time
      /\ \A u \in Servers \ {s} : srv'[u] = srv[u]
  BY <1>2, <1>4 DEF NoServer
<1>7. cli' = cli
  BY DEF Copy
<1> QED BY <1>1, <1>3, <1>4, <1>5, <1>6, <1>7

LEMMA ObjectsKept ==
  ASSUME Shape, Values, [Next]_vars
  PROVE  /\ DOMAIN obj' = Servers /\ \A o \in Servers : ObjectTypes(obj'[o])
         /\ \A s \in Servers : CopyTypes(srv'[s])
<1>1. /\ \A o \in Servers : ObjectTypes(obj[o])
      /\ \A s \in Servers : srv[s].time \in Nat /\ CopyTypes(srv[s])
  BY DEF Values, TimeTypes
<1>2. CASE Aside
  <2>1. DOMAIN obj' = Servers /\ \A o \in Servers : ObjectTypes(obj'[o])
    BY <1>1, <1>2 DEF Aside, MemoryKept, ObjectTypes
  <2>2. \A s \in Servers : CopyTypes(srv'[s])
    BY <1>1, <1>2 DEF Aside, Rests, Unmoved, Ways, CopyTypes
  <2> QED BY <2>1, <2>2
<1>3. ASSUME NEW s \in Servers, NEW t \in Nat, Begins(s, t)
      PROVE  /\ DOMAIN obj' = Servers /\ \A o \in Servers : ObjectTypes(obj'[o])
             /\ \A u \in Servers : CopyTypes(srv'[u])
  <2>1. PICK o : o = srv[s].holds
    OBVIOUS
  <2>2. DOMAIN obj' = Servers /\ \A p \in Servers : ObjectTypes(obj'[p])
    <3>1. ObjectTypes(obj'[o])
      BY <1>1, <1>3, <2>1, BeginsEffect DEF ObjectTypes
    <3>2. DOMAIN obj' = Servers /\ \A p \in Servers \ {o} : obj'[p] = obj[p]
      BY <1>3, <2>1, BeginsEffect
    <3> QED BY <1>1, <3>1, <3>2
  <2>3. srv[s].kind \in {"shm", "file"} /\ Fields # {}
    BY <1>3 DEF Begins, Fields
  <2>4. /\ srv'[s].todo = Fields /\ srv'[s].kind = srv[s].kind
        /\ \A u \in Servers \ {s} : srv'[u] = srv[u]
    BY <1>3, <2>1, BeginsEffect
  <2> QED BY <1>1, <2>2, <2>3, <2>4 DEF CopyTypes
<1>4. ASSUME NEW s \in Servers, NEW f \in Fields, Copy(s, f)
      PROVE  /\ DOMAIN obj' = Servers /\ \A o \in Servers : ObjectTypes(obj'[o])
             /\ \A u \in Servers : CopyTypes(srv'[u])
  <2> DEFINE o == srv[s].holds
  <2>1. /\ o \in Servers /\ DOMAIN obj' = Servers /\ cli' = cli
        /\ srv[s].at = "copy" /\ f \in srv[s].todo /\ srv[s].kind \in {"shm", "file"}
        /\ \A p \in Servers : /\ DOMAIN obj'[p] = DOMAIN NewObject
                              /\ obj'[p].hist = obj[p].hist
        /\ obj'[o].mem = [obj[o].mem EXCEPT ![f] = srv[s].time]
        /\ obj'[o].whole = IF srv[s].todo = {f} THEN obj[o].whole + 1 ELSE obj[o].whole
        /\ \A p \in Servers \ {o} : obj'[p] = obj[p]
        /\ srv'[s].at = IF srv[s].todo = {f} THEN "loop" ELSE "copy"
        /\ srv'[s].todo = srv[s].todo \ {f}
        /\ srv'[s].kind = srv[s].kind /\ srv'[s].holds = o /\ srv'[s].time = srv[s].time
        /\ \A u \in Servers \ {s} : srv'[u] = srv[u]
    BY <1>4, CopyEffect, ZenonT(60)
  <2> HIDE DEF o
  <2>2. DOMAIN obj' = Servers /\ \A p \in Servers : ObjectTypes(obj'[p])
    <3>1. ObjectTypes(obj'[o])
      BY <1>1, <2>1 DEF ObjectTypes
    <3> QED BY <1>1, <2>1, <3>1
  <2>3. /\ srv[s].kind \in {"shm", "file"} /\ f \in srv[s].todo
        /\ srv'[s].at = IF srv[s].todo = {f} THEN "loop" ELSE "copy"
        /\ srv'[s].todo = srv[s].todo \ {f} /\ srv'[s].kind = srv[s].kind
        /\ \A u \in Servers \ {s} : srv'[u] = srv[u]
    BY <2>1
  <2>4. CopyTypes(srv'[s])
    BY <2>3 DEF CopyTypes
  <2> QED BY <1>1, <2>2, <2>3, <2>4
<1> QED BY <1>2, <1>3, <1>4, MemoryStep

LEMMA ValuesKept ==
  ASSUME Shape, Values, [Next]_vars
  PROVE  Values'
BY NamesKept, TimesKept, ObjectsKept, ClientsKept DEF Values

-----------------------------------------------------------------------------
(* Lists of updates.                                                       *)

LEMMA GrownStored ==
  ASSUME NEW h \in Seq(Entry), NEW g \in Seq(Entry), NEW s, NEW t, Grows(h, g, s, t)
  PROVE  /\ Len(h) \in Nat /\ Stored(g, Len(h) + 1) = t
         /\ \A i \in 0..Len(h) : Stored(g, i) = Stored(h, i)
<1>1. Len(h) \in Nat
  BY LenProperties
<1> QED BY <1>1 DEF Grows, Stored

LEMMA GrownKnown ==
  ASSUME NEW h \in Seq(Entry), NEW g \in Seq(Entry), NEW s, NEW t, Grows(h, g, s, t)
  PROVE  /\ \A v : Known(h, v) => Known(g, v)
         /\ \A u, v : Copying(h, u, v) => Copying(g, u, v)
         /\ Copying(g, s, t)
<1>1. /\ Len(h) \in Nat /\ Stored(g, Len(h) + 1) = t
      /\ \A i \in 0..Len(h) : Stored(g, i) = Stored(h, i)
  BY GrownStored
<1>2. /\ Len(g) = Len(h) + 1 /\ g[Len(h) + 1][1] = s
      /\ \A i \in 1..Len(h) : g[i] = h[i]
  BY DEF Grows
<1>3. ASSUME NEW v, Known(h, v)
      PROVE  Known(g, v)
  BY <1>1, <1>2, <1>3 DEF Known
<1>4. ASSUME NEW u, NEW v, Copying(h, u, v)
      PROVE  Copying(g, u, v)
  <2>1. PICK i \in 1..Len(h) : h[i][1] = u /\ v = Stored(h, i)
    BY <1>4 DEF Copying
  <2>2. i \in 1..Len(g) /\ g[i][1] = u /\ v = Stored(g, i)
    BY <1>1, <1>2, <2>1
  <2> QED BY <2>2 DEF Copying
<1>5. Copying(g, s, t)
  <2>1. Len(h) + 1 \in 1..Len(g)
    BY <1>1, <1>2
  <2> QED BY <1>1, <1>2, <2>1 DEF Copying
<1> QED BY <1>3, <1>4, <1>5

LEMMA CopyingKnown ==
  ASSUME NEW h, NEW s, NEW t, Copying(h, s, t)
  PROVE  Known(h, t)
BY DEF Copying, Known

\* The writer goes on with a time that is later than its last one.
LEMMA GrownRising ==
  ASSUME NEW h \in Seq(Entry), NEW g \in Seq(Entry), NEW s, NEW t \in Nat, Grows(h, g, s, t),
         Rising(h) \/ Len(h) = 0, t > Stored(h, Len(h)), Stored(h, Len(h)) \in Nat
  PROVE  Rising(g)
<1>1. /\ Len(h) \in Nat /\ Stored(g, Len(h) + 1) = t /\ Len(g) = Len(h) + 1
      /\ \A i \in 0..Len(h) : Stored(g, i) = Stored(h, i)
  BY GrownStored DEF Grows
<1>2. \A i \in 1..Len(h) : Stored(h, i) \in Nat
  <2>1. \A i \in 1..Len(h) : h[i] \in Entry
    BY ElementOfSeq
  <2> QED BY <1>1, <2>1 DEF Stored, Entry
<1>3. ASSUME NEW i \in 1..Len(g)
      PROVE  0 < Stored(g, i)
  <2>1. CASE i = Len(h) + 1
    BY <1>1, <2>1
  <2>2. CASE i # Len(h) + 1
    <3>1. i \in 1..Len(h)
      BY <1>1, <2>2
    <3> QED BY <1>1, <3>1 DEF Rising
  <2> QED BY <2>1, <2>2
<1>4. ASSUME NEW i \in 1..Len(g), NEW j \in 1..Len(g), i < j
      PROVE  Stored(g, i) < Stored(g, j)
  <2>1. i \in 1..Len(h) /\ Stored(g, i) = Stored(h, i) /\ Rising(h)
    BY <1>1, <1>4
  <2>2. CASE j = Len(h) + 1
    <3>1. i = Len(h) \/ Stored(h, i) < Stored(h, Len(h))
      BY <1>1, <2>1 DEF Rising
    <3> QED BY <1>1, <1>2, <2>1, <2>2, <3>1
  <2>3. CASE j # Len(h) + 1
    <3>1. j \in 1..Len(h) /\ Stored(g, j) = Stored(h, j)
      BY <1>1, <2>3
    <3> QED BY <1>4, <2>1, <3>1 DEF Rising
  <2> QED BY <2>2, <2>3
<1> QED BY <1>3, <1>4 DEF Rising

LEMMA GrownBy ==
  ASSUME NEW h \in Seq(Entry), NEW g \in Seq(Entry), NEW s, NEW t, Grows(h, g, s, t),
         NEW w, WrittenBy(g, w)
  PROVE  w = s /\ (Len(h) = 0 \/ WrittenBy(h, w))
<1>1. Len(h) \in Nat
  BY LenProperties
<1> QED BY <1>1 DEF Grows, WrittenBy

-----------------------------------------------------------------------------

\* Updates are not forgotten, nor are complete ones undone.
LEMMA HistoryKept ==
  ASSUME Shape, Values, [Next]_vars, NEW o \in Servers
  PROVE  /\ obj[o].whole <= obj'[o].whole
         /\ \A t : Known(obj[o].hist, t) => Known(obj'[o].hist, t)
<1>1. obj[o].whole \in Nat /\ obj[o].hist \in Seq(Entry)
  BY DEF Values, ObjectTypes
<1>2. CASE Aside
  BY <1>1, <1>2 DEF Aside, MemoryKept
<1>3. ASSUME NEW s \in Servers, NEW t \in Nat, Begins(s, t)
      PROVE  /\ obj[o].whole <= obj'[o].whole
             /\ \A v : Known(obj[o].hist, v) => Known(obj'[o].hist, v)
  <2>1. PICK p : p = srv[s].holds
    OBVIOUS
  <2>2. /\ obj'[o].whole = obj[o].whole
        /\ o # p => obj'[o] = obj[o]
        /\ obj'[p].hist \in Seq(Entry) /\ Grows(obj[p].hist, obj'[p].hist, s, t)
    BY <1>3, <2>1, BeginsEffect
  <2>3. CASE o = p
    BY <1>1, <2>2, <2>3, GrownKnown
  <2>4. CASE o # p
    BY <1>1, <2>2, <2>4
  <2> QED BY <2>3, <2>4
<1>4. ASSUME NEW s \in Servers, NEW f \in Fields, Copy(s, f)
      PROVE  /\ obj[o].whole <= obj'[o].whole
             /\ \A v : Known(obj[o].hist, v) => Known(obj'[o].hist, v)
  <2>1. PICK p : p = srv[s].holds
    OBVIOUS
  <2>2. obj'[o].hist = obj[o].hist /\ obj'[o].whole \in {obj[o].whole, obj[o].whole + 1}
    BY <1>4, <2>1, CopyEffect
  <2> QED BY <1>1, <2>2
<1> QED BY <1>2, <1>3, <1>4, MemoryStep

LEMMA WrittenKept ==
  ASSUME Shape, Values, Written, [Next]_vars
  PROVE  Written'
<1>1. \A o \in Servers : \A f \in Fields : Known(obj'[o].hist, obj[o].mem[f])
  BY HistoryKept DEF Written
<1>2. CASE Aside
  <2>1. \A o \in Servers : obj'[o].mem = obj[o].mem /\ obj'[o].whole = obj[o].whole
                             /\ obj'[o].hist = obj[o].hist
    BY <1>2 DEF Aside, MemoryKept
  <2>2. ASSUME NEW s \in Servers, srv'[s].at = "copy"
        PROVE  Copying(obj'[srv'[s].holds].hist, s, srv'[s].time)
    <3>1. srv[s].at = "copy" /\ srv'[s].holds = srv[s].holds /\ srv'[s].time = srv[s].time
      BY <1>2, <2>2 DEF Aside, Rests, Unmoved, Ways
    <3>2. srv[s].holds \in Servers
      BY <3>1, WriterHolds
    <3> QED BY <2>1, <3>1, <3>2 DEF Written
  <2> QED BY <2>1, <2>2 DEF Written
<1>3. ASSUME NEW s \in Servers, NEW t \in Nat, Begins(s, t)
      PROVE  Written'
  <2>1. PICK o : o = srv[s].holds
    OBVIOUS
  <2>2. /\ o \in Servers /\ obj'[o].hist \in Seq(Entry)
        /\ Grows(obj[o].hist, obj'[o].hist, s, t)
        /\ \A p \in Servers : obj'[p].mem = obj[p].mem /\ obj'[p].whole = obj[p].whole
        /\ \A p \in Servers \ {o} : obj'[p] = obj[p]
    BY <1>3, <2>1, BeginsEffect
  <2>3. /\ srv'[s].time = t /\ srv'[s].holds = o
        /\ \A u \in Servers \ {s} : srv'[u] = srv[u]
    BY <1>3, <2>1, BeginsEffect
  <2>4. obj[o].hist \in Seq(Entry)
    BY <2>2 DEF Values, ObjectTypes
  <2>5. ASSUME NEW u \in Servers, srv'[u].at = "copy"
        PROVE  Copying(obj'[srv'[u].holds].hist, u, srv'[u].time)
    <3>1. CASE u = s
      BY <2>2, <2>3, <2>4, <3>1, GrownKnown
    <3>2. CASE u # s
      <4>1. srv[u].at = "copy" /\ srv'[u].holds = srv[u].holds /\ srv'[u].time = srv[u].time
        BY <2>3, <2>5, <3>2
      <4>2. srv[u].holds \in Servers
        BY <4>1, WriterHolds
      <4>3. Copying(obj[srv[u].holds].hist, u, srv[u].time)
        BY <4>1 DEF Written
      <4>4. CASE srv[u].holds = o
        BY <2>2, <2>4, <4>1, <4>3, <4>4, GrownKnown
      <4>5. CASE srv[u].holds # o
        BY <2>2, <4>1, <4>2, <4>3, <4>5
      <4> QED BY <4>4, <4>5
    <3> QED BY <3>1, <3>2
  <2>6. \A p \in Servers : Len(obj'[p].hist) = 0 => obj'[p].whole = 0
    <3>1. Len(obj[o].hist) \in Nat /\ Len(obj'[o].hist) = Len(obj[o].hist) + 1
      BY <2>2, <2>4, LenProperties DEF Grows
    <3> QED BY <2>2, <3>1 DEF Written
  <2> QED BY <1>1, <2>2, <2>5, <2>6 DEF Written
<1>4. ASSUME NEW s \in Servers, NEW f \in Fields, Copy(s, f)
      PROVE  Written'
  <2>1. PICK o : o = srv[s].holds
    OBVIOUS
  <2>2. /\ o \in Servers /\ srv[s].at = "copy"
        /\ \A p \in Servers : obj'[p].hist = obj[p].hist
        /\ obj'[o].mem = [obj[o].mem EXCEPT ![f] = srv[s].time]
        /\ \A p \in Servers \ {o} : obj'[p] = obj[p]
    BY <1>4, <2>1, CopyEffect
  <2>3. /\ srv'[s].holds = o /\ srv'[s].time = srv[s].time
        /\ \A u \in Servers \ {s} : srv'[u] = srv[u]
    BY <1>4, <2>1, CopyEffect
  <2>4. Copying(obj[o].hist, s, srv[s].time)
    BY <2>1, <2>2 DEF Written
  <2>5. ASSUME NEW p \in Servers, NEW g \in Fields
        PROVE  Known(obj'[p].hist, obj'[p].mem[g])
    <3>1. CASE p = o /\ g = f
      <4>1. obj'[p].mem[g] = srv[s].time
        BY <2>2, <3>1 DEF Values, ObjectTypes
      <4> QED BY <2>2, <2>4, <3>1, <4>1, CopyingKnown
    <3>2. CASE ~ (p = o /\ g = f)
      <4>1. obj'[p].mem[g] = obj[p].mem[g]
        BY <2>2, <3>2 DEF Values, ObjectTypes
      <4> QED BY <1>1, <4>1
    <3> QED BY <3>1, <3>2
  <2>6. ASSUME NEW u \in Servers, srv'[u].at = "copy"
        PROVE  Copying(obj'[srv'[u].holds].hist, u, srv'[u].time)
    <3>1. srv[u].at = "copy" /\ srv'[u].holds = srv[u].holds /\ srv'[u].time = srv[u].time
      BY <2>1, <2>2, <2>3, <2>6
    <3>2. srv[u].holds \in Servers
      BY <3>1, WriterHolds
    <3> QED BY <2>2, <3>1, <3>2 DEF Written
  <2>7. ASSUME NEW p \in Servers, Len(obj'[p].hist) = 0
        PROVE  obj'[p].whole = 0
    <3>1. Len(obj[o].hist) # 0
      <4>1. PICK i \in 1..Len(obj[o].hist) : TRUE
        BY <2>4 DEF Copying
      <4> QED BY <4>1
    <3> QED BY <2>2, <2>7, <3>1 DEF Written
  <2> QED BY <2>5, <2>6, <2>7 DEF Written
<1> QED BY <1>2, <1>3, <1>4, MemoryStep

\* The writer of an object, when a step leaves the memory alone.
LEMMA CopiedStays ==
  ASSUME NEW x, NEW y, NEW r, NEW q, Len(x.hist) \in Nat, Copied(x, r),
         y.hist = x.hist, y.mem = x.mem, y.whole = x.whole,
         \/ q.at \in Ways
         \/ q.at = r.at /\ q.time = r.time /\ q.todo = r.todo
  PROVE  Copied(y, q)
<1> DEFINE n == Len(x.hist)
<1>1. n \in Nat /\ Len(y.hist) = n
  OBVIOUS
<1>2. CASE q.at = r.at /\ q.time = r.time /\ q.todo = r.todo
  BY <1>2 DEF Copied
<1>3. CASE q.at \in Ways
  <2>1. q.at # "loop" /\ q.at # "copy"
    BY <1>3 DEF Ways
  <2>2. /\ x.whole \in {n - 1, n}
        /\ \A f \in Fields : \E i \in {n - 1, n} : i >= x.whole /\ x.mem[f] = Stored(x.hist, i)
    <3>1. CASE r.at = "loop"
      BY <1>1, <3>1 DEF Copied
    <3>2. CASE r.at = "copy"
      BY <1>1, <3>2 DEF Copied
    <3>3. CASE r.at \notin {"loop", "copy"}
      BY <3>3 DEF Copied
    <3> QED BY <3>1, <3>2, <3>3
  <2> QED BY <2>1, <2>2 DEF Copied
<1> QED BY <1>2, <1>3

\* The writer begins another update, perhaps its first.
LEMMA CopiedBegins ==
  ASSUME NEW x, NEW y, NEW r, NEW q, NEW s, NEW t \in Nat,
         x.hist \in Seq(Entry), y.hist \in Seq(Entry), Grows(x.hist, y.hist, s, t),
         y.mem = x.mem, y.whole = x.whole, q.at = "copy", q.time = t, q.todo = Fields,
         \/ r.at = "loop" /\ Copied(x, r)
         \/ /\ Len(x.hist) = 0 /\ x.whole = 0
            /\ \A f \in Fields : Known(x.hist, x.mem[f])
  PROVE  Copied(y, q)
<1>1. /\ Len(x.hist) \in Nat /\ Len(y.hist) = Len(x.hist) + 1
      /\ Stored(y.hist, Len(x.hist) + 1) = t
      /\ \A i \in 0..Len(x.hist) : Stored(y.hist, i) = Stored(x.hist, i)
  <2>1. Len(y.hist) = Len(x.hist) + 1
    BY DEF Grows
  <2> QED BY <2>1, GrownStored
<1>2. /\ x.whole = Len(x.hist)
      /\ \A f \in Fields : x.mem[f] = Stored(x.hist, Len(x.hist))
  <2>1. CASE r.at = "loop" /\ Copied(x, r)
    BY <2>1 DEF Copied
  <2>2. CASE Len(x.hist) = 0 /\ x.whole = 0 /\ \A f \in Fields : Known(x.hist, x.mem[f])
    <3>1. 0..Len(x.hist) = {0}
      BY <2>2
    <3> QED BY <2>2, <3>1 DEF Known
  <2> QED BY <2>1, <2>2
<1>3. Len(y.hist) - 1 = Len(x.hist) /\ Len(x.hist) \in 0..Len(x.hist)
  BY <1>1
<1>4. \A f \in Fields : y.mem[f] = Stored(y.hist, Len(y.hist) - 1)
  BY <1>1, <1>2, <1>3
<1>5. y.whole = Len(y.hist) - 1 /\ q.time = Stored(y.hist, Len(y.hist))
  BY <1>1, <1>2, <1>3
<1> QED BY <1>4, <1>5 DEF Copied

\* One more field is copied, perhaps the last.
LEMMA CopiedGoesOn ==
  ASSUME NEW x, NEW y, NEW r, NEW q, NEW f \in Fields, Len(x.hist) \in Nat,
         x.mem \in [Fields -> Nat], r.at = "copy", f \in r.todo, r.todo \subseteq Fields,
         Copied(x, r), y.hist = x.hist, y.mem = [x.mem EXCEPT ![f] = r.time],
         y.whole = IF r.todo = {f} THEN x.whole + 1 ELSE x.whole,
         q.at = (IF r.todo = {f} THEN "loop" ELSE "copy"),
         q.time = r.time, q.todo = r.todo \ {f}
  PROVE  Copied(y, q)
<1> DEFINE n == Len(x.hist)
<1>1. /\ r.time = Stored(x.hist, n) /\ x.whole = n - 1
      /\ \A g \in Fields : x.mem[g] = Stored(x.hist, IF g \in r.todo THEN n - 1 ELSE n)
  BY DEF Copied
<1>2. \A g \in Fields : y.mem[g] = Stored(x.hist, IF g \in r.todo \ {f} THEN n - 1 ELSE n)
  BY <1>1
<1>3. CASE r.todo = {f}
  <2>1. y.whole = n /\ q.at = "loop" /\ \A g \in Fields : y.mem[g] = Stored(x.hist, n)
    BY <1>1, <1>2, <1>3
  <2> QED BY <1>1, <2>1 DEF Copied
<1>4. CASE r.todo # {f}
  <2>1. y.whole = n - 1 /\ q.at = "copy"
    BY <1>1, <1>4
  <2> QED BY <1>1, <1>2, <2>1 DEF Copied
<1> QED BY <1>3, <1>4

LEMMA OneWriterKept ==
  ASSUME Shape, Values, Written, OneWriter, [Next]_vars
  PROVE  OneWriter'
<1> SUFFICES ASSUME NEW o \in Servers, NEW w \in Servers, WrittenBy(obj'[o].hist, w)
             PROVE  /\ Writer(w)' /\ srv'[w].holds = o
                    /\ Rising(obj'[o].hist) /\ Copied(obj'[o], srv'[w])
  BY DEF OneWriter
<1> DEFINE Goal == /\ Writer(w)' /\ srv'[w].holds = o
                   /\ Rising(obj'[o].hist) /\ Copied(obj'[o], srv'[w])
<1>1. obj[o].hist \in Seq(Entry) /\ Len(obj[o].hist) \in Nat /\ obj[o].mem \in [Fields -> Nat]
  BY LenProperties DEF Values, ObjectTypes
<1>2. WrittenBy(obj[o].hist, w) =>
        Writer(w) /\ srv[w].holds = o /\ Rising(obj[o].hist) /\ Copied(obj[o], srv[w])
  BY DEF OneWriter
<1>3. CASE Aside
  <2>1. obj'[o].hist = obj[o].hist /\ obj'[o].mem = obj[o].mem /\ obj'[o].whole = obj[o].whole
    BY <1>3 DEF Aside, MemoryKept
  <2>2. Writer(w) /\ srv[w].holds = o /\ Rising(obj[o].hist) /\ Copied(obj[o], srv[w])
    BY <1>2, <2>1
  <2>3. Rests(w)
    BY <1>3 DEF Aside
  <2>4. /\ srv'[w].kind = srv[w].kind /\ srv'[w].holds = srv[w].holds
        /\ \/ srv'[w].at \in Ways
           \/ /\ srv'[w].at = srv[w].at /\ srv'[w].time = srv[w].time
              /\ srv'[w].todo = srv[w].todo
    BY <2>2, <2>3 DEF Rests, Unmoved
  <2>5. Copied(obj'[o], srv'[w])
    BY <1>1, <2>1, <2>2, <2>4, CopiedStays
  <2> QED BY <2>1, <2>2, <2>4, <2>5 DEF Writer
<1>4. ASSUME NEW s \in Servers, NEW t \in Nat, Begins(s, t)
      PROVE  Goal
  <2>1. PICK p : p = srv[s].holds
    OBVIOUS
  <2>2. /\ p \in Servers /\ obj'[p].hist \in Seq(Entry)
        /\ Grows(obj[p].hist, obj'[p].hist, s, t)
        /\ obj'[p].mem = obj[p].mem /\ obj'[p].whole = obj[p].whole
        /\ \A u \in Servers \ {p} : obj'[u] = obj[u]
    BY <1>4, <2>1, BeginsEffect
  <2>3. /\ srv'[s].at = "copy" /\ srv'[s].time = t /\ srv'[s].todo = Fields
        /\ srv'[s].kind = srv[s].kind /\ srv'[s].holds = p
        /\ \A u \in Servers \ {s} : srv'[u] = srv[u]
    BY <1>4, <2>1, BeginsEffect
  <2>4. srv[s].at = "loop" /\ srv[s].kind \in {"shm", "file"} /\ t > srv[s].time
        /\ srv[s].time \in Nat
    BY <1>4 DEF Begins, Values, TimeTypes
  <2>5. CASE o # p
    <3>1. obj'[o] = obj[o]
      BY <2>2, <2>5
    <3>2. Writer(w) /\ srv[w].holds = o /\ Rising(obj[o].hist) /\ Copied(obj[o], srv[w])
      BY <1>2, <3>1
    <3>3. srv'[w] = srv[w]
      BY <2>1, <2>3, <2>5, <3>2
    <3> QED BY <3>1, <3>2, <3>3 DEF Writer
  <2>6. CASE o = p
    <3>1. w = s /\ (Len(obj[o].hist) = 0 \/ WrittenBy(obj[o].hist, s))
      BY <1>1, <2>2, <2>6, GrownBy
    <3>2. Writer(w)'
      BY <2>3, <2>4, <3>1 DEF Writer
    <3>3. CASE WrittenBy(obj[o].hist, s)
      <4>1. Rising(obj[o].hist) /\ Copied(obj[o], srv[s])
        BY <1>2, <3>1, <3>3
      <4>2. srv[s].time = Stored(obj[o].hist, Len(obj[o].hist))
        BY <2>4, <4>1 DEF Copied
      <4>3. Rising(obj'[o].hist)
        BY <1>1, <2>2, <2>4, <2>6, <4>1, <4>2, GrownRising
      <4>4. Copied(obj'[o], srv'[s])
        BY <1>1, <2>2, <2>3, <2>4, <2>6, <4>1, CopiedBegins
      <4> QED BY <2>3, <2>6, <3>1, <3>2, <4>3, <4>4
    <3>4. CASE Len(obj[o].hist) = 0
      <4>1. Stored(obj[o].hist, Len(obj[o].hist)) = 0
        BY <3>4 DEF Stored
      <4>2. t > 0
        BY <2>4
      <4>3. Rising(obj'[o].hist)
        BY <1>1, <2>2, <2>6, <3>4, <4>1, <4>2, GrownRising
      <4>4. obj[o].whole = 0 /\ \A f \in Fields : Known(obj[o].hist, obj[o].mem[f])
        BY <3>4 DEF Written
      <4>5. Copied(obj'[o], srv'[s])
        BY <1>1, <2>2, <2>3, <2>6, <3>4, <4>4, CopiedBegins
      <4> QED BY <2>3, <2>6, <3>1, <3>2, <4>3, <4>5
    <3> QED BY <3>1, <3>3, <3>4
  <2> QED BY <2>5, <2>6
<1>5. ASSUME NEW s \in Servers, NEW f \in Fields, Copy(s, f)
      PROVE  Goal
  <2>1. PICK p : p = srv[s].holds
    OBVIOUS
  <2>2. /\ p \in Servers /\ srv[s].at = "copy" /\ f \in srv[s].todo
        /\ srv[s].kind \in {"shm", "file"}
        /\ obj'[o].hist = obj[o].hist
        /\ obj'[p].mem = [obj[p].mem EXCEPT ![f] = srv[s].time]
        /\ obj'[p].whole = IF srv[s].todo = {f} THEN obj[p].whole + 1 ELSE obj[p].whole
        /\ \A u \in Servers \ {p} : obj'[u] = obj[u]
    BY <1>5, <2>1, CopyEffect
  <2>3. /\ srv'[s].at = IF srv[s].todo = {f} THEN "loop" ELSE "copy"
        /\ srv'[s].todo = srv[s].todo \ {f}
        /\ srv'[s].kind = srv[s].kind /\ srv'[s].holds = p /\ srv'[s].time = srv[s].time
        /\ \A u \in Servers \ {s} : srv'[u] = srv[u]
    BY <1>5, <2>1, CopyEffect
  <2>4. Writer(w) /\ srv[w].holds = o /\ Rising(obj[o].hist) /\ Copied(obj[o], srv[w])
    BY <1>2, <2>2
  <2>5. CASE o # p
    <3>1. srv'[w] = srv[w] /\ obj'[o] = obj[o]
      BY <2>1, <2>2, <2>3, <2>4, <2>5
    <3> QED BY <2>4, <3>1 DEF Writer
  <2>6. CASE o = p
    <3>1. w = s
      <4>1. Copying(obj[o].hist, s, srv[s].time)
        BY <2>1, <2>2, <2>6 DEF Written
      <4>2. PICK i \in 1..Len(obj[o].hist) : obj[o].hist[i][1] = s
        BY <4>1 DEF Copying
      <4> QED BY <2>2, <4>2 DEF WrittenBy
    <3>2. srv[s].todo \subseteq Fields
      BY DEF Values, TimeTypes
    <3>3. Copied(obj'[o], srv'[s])
      <4>1. /\ srv[s].at = "copy" /\ f \in srv[s].todo /\ Copied(obj[o], srv[s])
            /\ obj'[o].hist = obj[o].hist
            /\ obj'[o].mem = [obj[o].mem EXCEPT ![f] = srv[s].time]
            /\ obj'[o].whole = IF srv[s].todo = {f} THEN obj[o].whole + 1 ELSE obj[o].whole
        BY <2>2, <2>4, <2>6, <3>1
      <4>2. /\ srv'[s].at = (IF srv[s].todo = {f} THEN "loop" ELSE "copy")
            /\ srv'[s].time = srv[s].time /\ srv'[s].todo = srv[s].todo \ {f}
        BY <2>3
      <4> HIDE DEF Goal
      <4> QED BY <1>1, <3>2, <4>1, <4>2, CopiedGoesOn
    <3>4. Writer(w)'
      BY <2>2, <2>3, <3>1 DEF Writer
    <3> QED BY <2>2, <2>3, <2>4, <2>6, <3>1, <3>3, <3>4
  <2> QED BY <2>5, <2>6
<1> QED BY <1>3, <1>4, <1>5, MemoryStep

LEMMA SeenKept ==
  ASSUME Shape, Values, Written, Seen, [Next]_vars
  PROVE  Seen'
<1> SUFFICES ASSUME NEW c \in Clients, cli'[c].at \in Fields
             PROVE  /\ cli'[c].since <= obj'[cli'[c].from].whole
                    /\ cli'[c].at = "load" => Known(obj'[cli'[c].from].hist, cli'[c].time)
  BY DEF Seen
<1>1. Looks(c) /\ ClientTypes(cli[c])
  BY ClientsKept DEF Values
<1>2. cli[c].at # "off" /\ cli'[c].from = cli[c].from
  BY <1>1 DEF Looks, Fields
<1>3. PICK o \in Servers : o = cli[c].from
  BY <1>1, <1>2 DEF ClientTypes
<1>4. /\ obj[o].whole <= obj'[o].whole
      /\ \A t : Known(obj[o].hist, t) => Known(obj'[o].hist, t)
  BY HistoryKept
<1>5. obj[o].whole \in Nat /\ obj'[o].whole \in Nat /\ cli[c].since \in Nat
  BY <1>1, ObjectsKept DEF Values, ObjectTypes, ClientTypes
<1>6. cli[c].at \in Fields => /\ cli[c].since <= obj[o].whole
                              /\ cli[c].at = "load" => Known(obj[o].hist, cli[c].time)
  BY <1>3 DEF Seen
<1>7. CASE cli'[c] = cli[c]
  BY <1>3, <1>4, <1>5, <1>6, <1>7
<1>8. CASE /\ cli[c].at = "opened" /\ cli'[c].at = "time"
           /\ cli'[c].since = obj[cli[c].from].whole
  BY <1>2, <1>3, <1>4, <1>8
<1>9. CASE /\ cli[c].at = "time" /\ cli'[c].at = "load"
           /\ cli'[c].since = cli[c].since
           /\ cli'[c].time = obj[cli[c].from].mem["time"]
  <2>1. Known(obj[o].hist, obj[o].mem["time"])
    BY DEF Written, Fields
  <2> QED BY <1>2, <1>3, <1>4, <1>5, <1>6, <1>9, <2>1 DEF Fields
<1> QED BY <1>1, <1>7, <1>8, <1>9 DEF Looks

-----------------------------------------------------------------------------
(* Positions of times in the list of updates.                              *)

LEMMA PositionOf ==
  ASSUME NEW o, NEW n, obj[o].hist \in Seq(Entry), n = Len(obj[o].hist),
         Rising(obj[o].hist), NEW i \in 0..n
  PROVE  Position(o, Stored(obj[o].hist, i)) = i
<1>1. n \in Nat /\ DOMAIN obj[o].hist = 1..n
  BY LenProperties
<1>2. \A j \in 1..n : /\ Stored(obj[o].hist, j) = obj[o].hist[j][2]
                      /\ Stored(obj[o].hist, j) \in Nat /\ Stored(obj[o].hist, j) > 0
  <2>1. \A j \in 1..n : obj[o].hist[j] \in Entry
    BY ElementOfSeq
  <2>2. \A j \in 1..n : 0 < Stored(obj[o].hist, j)
    BY DEF Rising
  <2> QED BY <1>1, <2>1, <2>2 DEF Stored, Entry
<1>3. CASE i = 0
  BY <1>3 DEF Stored, Position
<1>4. CASE i # 0
  <2>1. i \in 1..n
    BY <1>1, <1>4
  <2>2. ASSUME NEW j \in 1..n, obj[o].hist[j][2] = Stored(obj[o].hist, i)
        PROVE  j = i
    <3>1. Stored(obj[o].hist, j) = Stored(obj[o].hist, i)
      BY <1>2, <2>2
    <3>2. \A a, b \in 1..n : a < b => Stored(obj[o].hist, a) < Stored(obj[o].hist, b)
      BY DEF Rising
    <3> QED BY <1>1, <1>2, <2>1, <3>1, <3>2
  <2>3. Stored(obj[o].hist, i) # 0 /\ obj[o].hist[i][2] = Stored(obj[o].hist, i)
    BY <1>2, <2>1
  <2> QED BY <1>1, <2>1, <2>2, <2>3 DEF Position
<1> QED BY <1>3, <1>4

LEMMA KnownPosition ==
  ASSUME NEW o, NEW n, obj[o].hist \in Seq(Entry), n = Len(obj[o].hist),
         Rising(obj[o].hist), NEW t, Known(obj[o].hist, t)
  PROVE  Position(o, t) \in 0..n
<1>1. PICK i \in 0..n : t = Stored(obj[o].hist, i)
  BY DEF Known
<1> QED BY <1>1, PositionOf

\* Each field is from an update that is complete, or from the one after it, and
\* at most one update is not.
LEMMA CopiedRecent ==
  ASSUME NEW x, NEW r, NEW n, n = Len(x.hist), n \in Nat \ {0}, Copied(x, r), NEW f \in Fields
  PROVE  \E i \in 0..n : x.mem[f] = Stored(x.hist, i) /\ i >= x.whole /\ i >= n - 1
<1>1. CASE r.at = "loop"
  BY <1>1 DEF Copied
<1>2. CASE r.at = "copy"
  <2>1. /\ x.whole = n - 1
        /\ \A g \in Fields : x.mem[g] = Stored(x.hist, IF g \in r.todo THEN n - 1 ELSE n)
    BY <1>2 DEF Copied
  <2>2. PICK i \in {n - 1, n} : x.mem[f] = Stored(x.hist, i)
    BY <2>1
  <2> QED BY <2>1, <2>2
<1>3. CASE r.at \notin {"loop", "copy"}
  <2>1. \A g \in Fields : \E i \in {n - 1, n} :
          i >= x.whole /\ x.mem[g] = Stored(x.hist, i)
    BY <1>3 DEF Copied
  <2>2. PICK i \in {n - 1, n} : i >= x.whole /\ x.mem[f] = Stored(x.hist, i)
    BY <2>1
  <2> QED BY <2>2
<1> QED BY <1>1, <1>2, <1>3

LEMMA WritersOne ==
  ASSUME NEW o, obj[o].hist \in Seq(Entry), Cardinality(Writers(o)) = 1
  PROVE  \E w \in Servers : WrittenBy(obj[o].hist, w)
<1>1. Len(obj[o].hist) \in Nat /\ DOMAIN obj[o].hist = 1..Len(obj[o].hist)
  BY LenProperties
<1>2. \A i \in 1..Len(obj[o].hist) : obj[o].hist[i][1] \in Servers
  <2>1. \A i \in 1..Len(obj[o].hist) : obj[o].hist[i] \in Entry
    BY ElementOfSeq
  <2> QED BY <2>1 DEF Entry
<1>3. IsFiniteSet(Writers(o))
  <2>1. Writers(o) \in SUBSET Servers
    BY <1>1, <1>2 DEF Writers
  <2>2. IsFiniteSet(Servers)
    BY FS_Interval, NumServersAssumption DEF Servers
  <2> QED BY <2>1, <2>2, FS_Subset
<1>4. PICK w : Writers(o) = {w}
  BY <1>3, FS_Singleton
<1>5. \A i \in 1..Len(obj[o].hist) : obj[o].hist[i][1] = w
  BY <1>1, <1>4 DEF Writers
<1>6. PICK i \in 1..Len(obj[o].hist) : TRUE
  BY <1>1, <1>4 DEF Writers
<1>7. w \in Servers /\ Len(obj[o].hist) > 0
  BY <1>1, <1>2, <1>5, <1>6
<1> QED BY <1>5, <1>7 DEF WrittenBy

-----------------------------------------------------------------------------

\* The memory and its readers, in one invariant.
Memory == Values /\ Written /\ OneWriter /\ Seen

LEMMA InitMemory == Init => Memory
<1> SUFFICES ASSUME Init PROVE Memory
  OBVIOUS
<1>1. /\ now = 0 /\ name = [k \in Kinds |-> None] /\ obj = [s \in Servers |-> NewObject]
      /\ srv = [s \in Servers |-> NoServer] /\ cli = [c \in Clients |-> NoClient]
  BY DEF Init
<1>2. /\ NewObject.hist = <<>> /\ NewObject.whole = 0
      /\ NewObject.mem \in [Fields -> Nat] /\ \A f \in Fields : NewObject.mem[f] = 0
  BY DEF NewObject
<1>3. <<>> \in Seq(Entry) /\ Len(<<>>) = 0
  BY EmptySeq
<1>4. Values
  <2>1. ObjectTypes(NewObject)
    BY <1>2, <1>3 DEF ObjectTypes
  <2>2. TimeTypes(NoServer) /\ CopyTypes(NoServer) /\ NoServer.holds = None
    BY DEF NoServer, TimeTypes, CopyTypes
  <2>3. ClientTypes(NoClient)
    BY DEF NoClient, ClientTypes, Fields
  <2> QED BY <1>1, <2>1, <2>2, <2>3 DEF Values
<1>5. Written
  <2>1. Known(NewObject.hist, 0)
    BY <1>2, <1>3 DEF Known, Stored
  <2> QED BY <1>1, <1>2, <2>1 DEF Written, NoServer
<1>6. OneWriter
  BY <1>1, <1>2, <1>3 DEF OneWriter, WrittenBy
<1>7. Seen
  BY <1>1 DEF Seen, NoClient, Fields
<1> QED BY <1>4, <1>5, <1>6, <1>7 DEF Memory

LEMMA MemoryInvariant == Spec => [](Shape /\ Memory)
<1>1. Shape /\ Memory /\ [Next]_vars => Shape' /\ Memory'
  BY ShapeKept, ValuesKept, WrittenKept, OneWriterKept, SeenKept DEF Memory
<1>2. Init => Shape /\ Memory
  BY InitOK, InitMemory
<1> QED BY <1>1, <1>2, PTL DEF Spec

\* A client that reads a field of an object with one writer.
LEMMA ReadRecent ==
  ASSUME Memory, NEW c \in Clients, NEW f \in Fields, NEW o, o = cli[c].from,
         ClientRead(c, f), Cardinality(Writers(o)) = 1
  PROVE  /\ Position(o, obj[o].mem[f]) >= cli[c].since
         /\ f = "load" => Position(o, obj[o].mem[f]) >= Position(o, cli[c].time) - 1
<1>1. cli[c].at = f /\ o \in Servers /\ cli[c].since \in Nat
  BY DEF Memory, Values, ClientTypes, ClientRead, Fields
<1>2. obj[o].hist \in Seq(Entry) /\ obj[o].whole \in Nat
  BY <1>1 DEF Memory, Values, ObjectTypes
<1>3. PICK n : n = Len(obj[o].hist)
  OBVIOUS
<1>4. PICK w \in Servers : WrittenBy(obj[o].hist, w)
  BY <1>2, WritersOne
<1>5. n \in Nat \ {0}
  BY <1>2, <1>3, <1>4, LenProperties DEF WrittenBy
<1>6. Rising(obj[o].hist) /\ Copied(obj[o], srv[w])
  BY <1>1, <1>4 DEF Memory, OneWriter
<1>7. PICK i \in 0..n : /\ obj[o].mem[f] = Stored(obj[o].hist, i)
                        /\ i >= obj[o].whole /\ i >= n - 1
  BY <1>3, <1>5, <1>6, CopiedRecent
<1>8. Position(o, obj[o].mem[f]) = i
  BY <1>2, <1>3, <1>6, <1>7, PositionOf
<1>9. /\ cli[c].since <= obj[o].whole
      /\ cli[c].at = "load" => Known(obj[o].hist, cli[c].time)
  BY <1>1 DEF Memory, Seen
<1>10. i >= cli[c].since
  BY <1>1, <1>2, <1>5, <1>7, <1>9
<1>11. ASSUME f = "load"
       PROVE  i >= Position(o, cli[c].time) - 1
  <2>1. Known(obj[o].hist, cli[c].time)
    BY <1>1, <1>9, <1>11
  <2>2. Position(o, cli[c].time) \in 0..n
    BY <1>2, <1>3, <1>6, <2>1, KnownPosition
  <2> QED BY <1>5, <1>7, <2>2
<1> QED BY <1>8, <1>10, <1>11

\* What a client prints is at least as new as the last update that was complete
\* when it attached, and the load at most one update behind the time (client.c:
\* 50-55, server.c:138, 228), for any number of servers and clients, as long as
\* one server writes.
THEOREM ReadsCorrect == Spec => ReadsRegular
<1>1. Memory /\ Next =>
        \A c \in Clients, f \in Fields :
          LET o == cli[c].from
              p == Position(o, obj[o].mem[f])
          IN  ClientRead(c, f) /\ Cardinality(Writers(o)) = 1 =>
                /\ p >= cli[c].since
                /\ f = "load" => p >= Position(o, cli[c].time) - 1
  BY ReadRecent
<1> QED BY <1>1, MemoryInvariant, PTL DEF Spec, ReadsRegular
=============================================================================
