---------------------------- MODULE IntakeProofs ----------------------------
(***************************************************************************)
(* Proofs about Intake, for any requests, browsers, users and keys, any    *)
(* limits and any number of sessions and faults.                           *)
(*                                                                         *)
(* What a request has read is worth something only because of what cannot  *)
(* change meanwhile: a session that has an owner keeps it (OwnersKeep), a  *)
(* request is the only one to change its stage, session and ask, and the   *)
(* advisory lock keeps others of the same scope out between the reads of   *)
(* the transaction and its inserts (Alone).                                *)
(***************************************************************************)
EXTENDS Intake, FiniteSetTheorems, TLAPS

Row == [state : {"unused", "live", "expired", "gone"}, owner : Users \cup {Nobody}]
Req == [stage : {"idle", "identify", "look", "admit", "insert", "publish", "respond", "done"},
        ask : Asks \cup {NoAsk}, session : Sessions \cup {NoSession},
        owner : Users \cup {Nobody}, new : BOOLEAN]
Job == [state : Active \cup {"none", "unserved", "ended", "gone"},
        session : Sessions \cup {NoSession}, user : Users \cup {Nobody}, recent : BOOLEAN]

-----------------------------------------------------------------------------
(* What the operators on rows write.                                       *)

\* A new session has a row nobody used.
LEMMA FreshUnused ==
  ASSUME Unused # {}
  PROVE  Fresh \in Sessions /\ session[Fresh].state = "unused"
BY DEF Fresh, Unused

\* The owner and the state of a session are written apart.
LEMMA AttachedRows ==
  ASSUME session \in [Sessions -> Row], NEW s \in Sessions, NEW u \in Users
  PROVE  /\ Attached(s, u) \in [Sessions -> Row]
         /\ Attached(s, u)[s].owner = u
         /\ \A t \in Sessions : Attached(s, u)[t].state = session[t].state
         /\ \A t \in Sessions \ {s} : Attached(s, u)[t] = session[t]
<1>1. session[s] \in Row
  OBVIOUS
<1>2. [session[s] EXCEPT !.owner = u] = [state |-> session[s].state, owner |-> u]
  BY <1>1 DEF Row
<1>. DEFINE row == [state |-> session[s].state, owner |-> u]
<1>3. row \in Row
  BY <1>1 DEF Row
<1>4. Attached(s, u) = [session EXCEPT ![s] = row]
  BY <1>2 DEF Attached
<1>. HIDE DEF row
<1>5. /\ Attached(s, u) \in [Sessions -> Row]
      /\ Attached(s, u)[s] = row
      /\ \A t \in Sessions \ {s} : Attached(s, u)[t] = session[t]
  BY <1>3, <1>4
<1>. QED  BY <1>5 DEF row

\* A revoked session keeps its owner, and none becomes unused.
LEMMA RevokedRows ==
  ASSUME session \in [Sessions -> Row], NEW s \in Sessions
  PROVE  /\ Revoked(s) \in [Sessions -> Row]
         /\ \A t \in Sessions : /\ Revoked(s)[t].owner = session[t].owner
                                /\ (Revoked(s)[t].state = "unused") = (session[t].state = "unused")
<1>1. session[s] \in Row
  OBVIOUS
<1>. DEFINE row == [state |-> "expired", owner |-> session[s].owner]
<1>2. [session[s] EXCEPT !.state = "expired"] = row
  BY <1>1 DEF Row
<1>3. row \in Row
  BY <1>1 DEF Row
<1>4. CASE session[s].state = "live"
  <2>1. Revoked(s) = [session EXCEPT ![s] = row]
    BY <1>2, <1>4 DEF Revoked
  <2>. HIDE DEF row
  <2>2. Revoked(s) \in [Sessions -> Row] /\ Revoked(s)[s] = row
        /\ \A t \in Sessions \ {s} : Revoked(s)[t] = session[t]
    BY <2>1, <1>3
  <2>. QED  BY <2>2, <1>4 DEF row
<1>5. CASE session[s].state # "live"
  BY <1>5 DEF Revoked
<1>. QED  BY <1>4, <1>5

\* A request that goes on keeps what it asks, and its session unless it is given one.
LEMMA GoingIn ==
  ASSUME req \in [Requests -> Req], NEW r \in Requests, NEW s \in Sessions \cup {NoSession},
         NEW stage \in {"look", "admit", "insert", "publish", "respond", "done"},
         NEW new \in BOOLEAN, GoesIn(r, stage, s, new)
  PROVE  /\ req' \in [Requests -> Req]
         /\ req'[r].stage = stage /\ req'[r].ask = req[r].ask /\ req'[r].session = s
         /\ \A t \in Requests \ {r} : req'[t] = req[t]
<1>. DEFINE row == [stage |-> stage, ask |-> req[r].ask, session |-> s, owner |-> Nobody,
                    new |-> new]
<1>1. row \in Req
  BY DEF Req
<1>2. req' = [req EXCEPT ![r] = row]
  BY DEF GoesIn, Asked
<1>. HIDE DEF row
<1>3. req' \in [Requests -> Req] /\ req'[r] = row
      /\ \A t \in Requests \ {r} : req'[t] = req[t]
  BY <1>1, <1>2
<1>. QED  BY <1>3 DEF row

\* A request that goes on in its own session.
LEMMA Going ==
  ASSUME req \in [Requests -> Req], NEW r \in Requests,
         NEW stage \in {"look", "admit", "insert", "publish", "respond", "done"}, Goes(r, stage)
  PROVE  /\ req' \in [Requests -> Req]
         /\ req'[r].stage = stage /\ req'[r].ask = req[r].ask
         /\ req'[r].session = req[r].session
         /\ \A t \in Requests \ {r} : req'[t] = req[t]
<1>. DEFINE new == req[r].new /\ stage # "done"
<1>1. new \in BOOLEAN
  OBVIOUS
<1>2. GoesIn(r, stage, req[r].session, new)
  BY DEF Goes
<1>3. req[r].session \in Sessions \cup {NoSession}
  BY DEF Req
<1>. HIDE DEF new
<1>. QED  BY <1>1, <1>2, <1>3, GoingIn

\* A job that goes on keeps its session and its user.
LEMMA JobGoing ==
  ASSUME job \in [Requests -> Job], NEW j \in Requests,
         NEW state \in Active \cup {"unserved", "ended"}, JobGoes(j, state)
  PROVE  /\ job' \in [Requests -> Job]
         /\ job'[j].state = state /\ job'[j].session = job[j].session
         /\ job'[j].user = job[j].user /\ job'[j].recent = job[j].recent
         /\ \A k \in Requests \ {j} : job'[k] = job[k]
<1>1. job[j] \in Job
  OBVIOUS
<1>. DEFINE new == [state |-> state, session |-> job[j].session, user |-> job[j].user,
                    recent |-> job[j].recent]
<1>2. new \in Job
  BY <1>1 DEF Job
<1>3. [job[j] EXCEPT !.state = state] = new
  BY <1>1 DEF Job
<1>4. job' = [job EXCEPT ![j] = new]
  BY <1>3 DEF JobGoes
<1>. HIDE DEF new
<1>5. job' \in [Requests -> Job] /\ job'[j] = new
      /\ \A k \in Requests \ {j} : job'[k] = job[k]
  BY <1>2, <1>4
<1>. QED  BY <1>5 DEF new

\* A session that is found or made is live, and belongs to whom it did.
LEMMA LiveRows ==
  ASSUME session \in [Sessions -> Row], NEW s \in Sessions,
         session' = [session EXCEPT ![s].state = "live"]
  PROVE  /\ session' \in [Sessions -> Row]
         /\ session'[s].state = "live"
         /\ \A t \in Sessions : session'[t].owner = session[t].owner
         /\ \A t \in Sessions \ {s} : session'[t] = session[t]
<1>1. session[s] \in Row
  OBVIOUS
<1>. DEFINE row == [state |-> "live", owner |-> session[s].owner]
<1>2. [session[s] EXCEPT !.state = "live"] = row
  BY <1>1 DEF Row
<1>3. row \in Row
  BY <1>1 DEF Row
<1>4. session' = [session EXCEPT ![s] = row]
  BY <1>2
<1>. HIDE DEF row
<1>5. session' \in [Sessions -> Row] /\ session'[s] = row
      /\ \A t \in Sessions \ {s} : session'[t] = session[t]
  BY <1>3, <1>4
<1>. QED  BY <1>5 DEF row

\* Jobs that are attached keep everything but their user.
LEMMA AttachedExams ==
  ASSUME job \in [Requests -> Job], NEW s \in Sessions, NEW u \in Users,
         job' = ExamsAttached(s, u)
  PROVE  /\ job' \in [Requests -> Job]
         /\ \A j \in Requests :
              /\ job'[j].state = job[j].state /\ job'[j].session = job[j].session
              /\ job'[j].recent = job[j].recent
              /\ job'[j].user = IF job[j].session = s /\ job[j].user = Nobody THEN u
                                ELSE job[j].user
<1>. DEFINE row(j) == [state |-> job[j].state, session |-> job[j].session, user |-> u,
                       recent |-> job[j].recent]
            new(j) == IF job[j].session = s /\ job[j].user = Nobody THEN row(j) ELSE job[j]
<1>1. ASSUME NEW j \in Requests
      PROVE  new(j) \in Job /\ [job[j] EXCEPT !.user = u] = row(j)
  <2>1. job[j] \in Job
    OBVIOUS
  <2>. QED  BY <2>1 DEF Job
<1>2. job' = [j \in Requests |-> new(j)]
  BY <1>1 DEF ExamsAttached
<1>3. job' \in [Requests -> Job] /\ \A j \in Requests : job'[j] = new(j)
  <2>. HIDE DEF new
  <2>. QED  BY <1>1, <1>2
<1>. QED  BY <1>3

-----------------------------------------------------------------------------
(* Types, and what sessions and requests are through all steps.            *)

\* A session nobody was given has no owner, and the uploader has one.  Whoever is under
\* way asks something in a session, and only generations and uploads are admitted.
Base ==
  /\ TypeOK
  /\ session[Home].state # "unused"
  /\ \A s \in Sessions : session[s].state = "unused" => Owner(s) = Nobody
  /\ \A r \in Requests :
       /\ req[r].stage # "idle" => /\ Asked(r) \in Asks /\ req[r].session \in Sessions
                                  /\ session[req[r].session].state # "unused"
       /\ req[r].stage \in {"look", "admit", "insert", "publish"} => Asked(r).kind # "logout"

\* Home is a session.
LEMMA HomeIsOne == Home \in Sessions /\ NoSession \notin Sessions
BY LimitsAssumption DEF Home, Sessions, NoSession

\* Base holds at first.
LEMMA Initial == Init => Base
<1>. USE NamesAssumption, HomeIsOne DEF Home, NoSession
<1>. SUFFICES ASSUME Init PROVE Base
  OBVIOUS
<1>1. PICK u \in Users \cup {Nobody} :
        session = [s \in Sessions |-> IF s = Home THEN [state |-> "live", owner |-> u]
                                      ELSE [state |-> "unused", owner |-> Nobody]]
  BY DEF Init
<1>2. TypeOK
  BY <1>1, LimitsAssumption DEF Init, TypeOK, Idle, NotAJob, Active
<1>. QED  BY <1>1, <1>2 DEF Init, Base, Owner, Idle

\* A request that arrives.
LEMMA Arriving ==
  ASSUME Base, NEW r \in Requests, NEW a \in Asks, Arrive(r, a)
  PROVE  \E s \in Sessions :
           /\ req[r].stage = "idle" /\ req' \in [Requests -> Req]
           /\ req'[r].stage = "identify" /\ req'[r].ask = a /\ req'[r].session = s
           /\ \A t \in Requests \ {r} : req'[t] = req[t]
           /\ session' \in [Sessions -> Row] /\ session'[s].state = "live"
           /\ \A t \in Sessions : session'[t].owner = session[t].owner
           /\ \A t \in Sessions \ {s} : session'[t] = session[t]
           /\ UNCHANGED <<cookie, answer, job, doc, cached, admission, reading, faults>>
<1>. DEFINE held == cookie[a.browser]
            valid == held # NoSession /\ session[held].state = "live"
            s == IF valid THEN held ELSE Fresh
            row == [stage |-> "identify", ask |-> a, session |-> s, owner |-> Owner(s),
                    new |-> ~valid]
<1>1. held \in Sessions \cup {NoSession}
  BY NamesAssumption DEF Base, TypeOK
<1>2. s \in Sessions
  BY <1>1, FreshUnused DEF Arrive
<1>3. Owner(s) \in Users \cup {Nobody}
  BY <1>2 DEF Base, TypeOK, Owner
<1>4. /\ req[r].stage = "idle" /\ req' = [req EXCEPT ![r] = row]
      /\ session' = [session EXCEPT ![s].state = "live"]
      /\ UNCHANGED <<cookie, answer, job, doc, cached, admission, reading, faults>>
  BY DEF Arrive
<1>. HIDE DEF valid, s
<1>5. row \in Req
  BY <1>2, <1>3 DEF Req
<1>6. /\ session' \in [Sessions -> Row] /\ session'[s].state = "live"
      /\ \A t \in Sessions : session'[t].owner = session[t].owner
      /\ \A t \in Sessions \ {s} : session'[t] = session[t]
  BY <1>2, <1>4, LiveRows DEF Base, TypeOK, Row
<1>7. row.stage = "identify" /\ row.ask = a /\ row.session = s
  OBVIOUS
<1>. HIDE DEF row
<1>8. req' \in [Requests -> Req] /\ req'[r] = row /\ \A t \in Requests \ {r} : req'[t] = req[t]
  BY <1>4, <1>5 DEF Base, TypeOK, Req
<1>. QED  BY <1>2, <1>4, <1>6, <1>7, <1>8

\* The user of a request, its session and where it goes.
LEMMA UnderWay ==
  ASSUME Base, NEW r \in Requests, req[r].stage # "idle"
  PROVE  /\ Asked(r) \in Asks /\ req[r].session \in Sessions
         /\ session[req[r].session].state # "unused"
         /\ Asked(r).user \in Users \cup {Nobody}
         /\ Route(r) \in {"respond", "look", "admit"}
         /\ Route(r) # "respond" => Asked(r).kind # "logout"
BY NamesAssumption DEF Base, Route

\* A request that keeps its session.
LEMMA Staying ==
  ASSUME Base, NEW r \in Requests, Stay(r)
  PROVE  /\ req' \in [Requests -> Req] /\ req'[r].stage = Route(r)
         /\ req'[r].ask = req[r].ask /\ req'[r].session = req[r].session
         /\ \A t \in Requests \ {r} : req'[t] = req[t]
         /\ \/ Asked(r).user = Nobody /\ UNCHANGED <<session, job>>
            \/ /\ Asked(r).user \in Users
               /\ Owner(req[r].session) \in {Nobody, Asked(r).user}
               /\ session' \in [Sessions -> Row]
               /\ session'[req[r].session].owner = Asked(r).user
               /\ \A t \in Sessions : session'[t].state = session[t].state
               /\ \A t \in Sessions \ {req[r].session} : session'[t] = session[t]
               /\ job' \in [Requests -> Job]
               /\ \A j \in Requests :
                    /\ job'[j].state = job[j].state /\ job'[j].session = job[j].session
                    /\ job'[j].recent = job[j].recent
                    /\ job'[j].user =
                         IF job[j].session = req[r].session /\ job[j].user = Nobody
                         THEN Asked(r).user ELSE job[j].user
<1>1. req[r].stage # "idle" /\ Goes(r, Route(r))
  BY DEF Stay
<1>2. req \in [Requests -> Req] /\ session \in [Sessions -> Row] /\ job \in [Requests -> Job]
  BY DEF Base, TypeOK, Req, Row, Job
<1>3. /\ req' \in [Requests -> Req] /\ req'[r].stage = Route(r)
      /\ req'[r].ask = req[r].ask /\ req'[r].session = req[r].session
      /\ \A t \in Requests \ {r} : req'[t] = req[t]
  BY <1>1, <1>2, UnderWay, Going
<1>4. CASE Asked(r).user = Nobody
  BY <1>3, <1>4 DEF Stay
<1>5. CASE Asked(r).user # Nobody
  <2>1. /\ req[r].session \in Sessions /\ Asked(r).user \in Users
        /\ Claimable(req[r].session, Asked(r).user)
        /\ session' = Attached(req[r].session, Asked(r).user)
        /\ job' = ExamsAttached(req[r].session, Asked(r).user)
    BY <1>1, <1>5, UnderWay DEF Stay
  <2>. QED  BY <1>2, <1>3, <2>1, AttachedRows, AttachedExams DEF Claimable
<1>. QED  BY <1>4, <1>5

\* A request that is given another session.
LEMMA Moving ==
  ASSUME Base, NEW r \in Requests, Move(r)
  PROVE  /\ Fresh \in Sessions /\ session[Fresh].state = "unused"
         /\ req' \in [Requests -> Req] /\ req'[r].stage = Route(r)
         /\ req'[r].ask = req[r].ask /\ req'[r].session = Fresh
         /\ \A t \in Requests \ {r} : req'[t] = req[t]
         /\ session' \in [Sessions -> Row]
         /\ session'[Fresh] = [state |-> "live", owner |-> Asked(r).user]
         /\ \A t \in Sessions \ {Fresh} :
              /\ session'[t].owner = session[t].owner
              /\ session'[t].state = "unused" => session[t].state = "unused"
         /\ req[r].stage = "identify"
         /\ UNCHANGED <<cookie, answer, job, doc, cached, admission, reading, faults>>
<1>. DEFINE left == IF Familiar(r) THEN session ELSE Revoked(req[r].session)
            row == [state |-> "live", owner |-> Asked(r).user]
<1>1. /\ req[r].stage = "identify" /\ Unused # {} /\ GoesIn(r, Route(r), Fresh, TRUE)
      /\ session' = [left EXCEPT ![Fresh] = row]
      /\ UNCHANGED <<cookie, answer, job, doc, cached, admission, reading, faults>>
  BY DEF Move
<1>2. req \in [Requests -> Req] /\ session \in [Sessions -> Row]
  BY DEF Base, TypeOK, Req, Row
<1>3. Fresh \in Sessions /\ session[Fresh].state = "unused"
  BY <1>1, FreshUnused
<1>4. /\ req' \in [Requests -> Req] /\ req'[r].stage = Route(r)
      /\ req'[r].ask = req[r].ask /\ req'[r].session = Fresh
      /\ \A t \in Requests \ {r} : req'[t] = req[t]
  <2>1. Route(r) \in {"respond", "look", "admit"}
    BY <1>1, UnderWay
  <2>. QED  BY <1>1, <1>2, <1>3, <2>1, GoingIn
<1>. HIDE DEF left
<1>5. left \in [Sessions -> Row]
  <2>1. req[r].session \in Sessions
    BY <1>1, UnderWay
  <2>. QED  BY <1>2, <2>1, RevokedRows DEF left
<1>6. row \in Row
  <2>1. Asked(r).user \in Users \cup {Nobody}
    BY <1>1, UnderWay
  <2>. QED  BY <2>1 DEF Row
<1>7. /\ session' \in [Sessions -> Row] /\ session'[Fresh] = row
      /\ \A t \in Sessions \ {Fresh} : session'[t] = left[t]
  BY <1>1, <1>3, <1>5, <1>6
<1>8. ASSUME NEW t \in Sessions, t # Fresh
      PROVE  /\ session'[t].owner = session[t].owner
             /\ session'[t].state = "unused" => session[t].state = "unused"
  <2>1. session'[t] = left[t]
    BY <1>7, <1>8
  <2>2. CASE Familiar(r)
    BY <2>1, <2>2 DEF left
  <2>3. CASE ~Familiar(r)
    <3>1. session'[t] = Revoked(req[r].session)[t]
      BY <2>1, <2>3 DEF left
    <3>2. req[r].session \in Sessions
      BY <1>1, UnderWay
    <3>. QED  BY <1>2, <3>1, <3>2, RevokedRows
  <2>. QED  BY <2>2, <2>3
<1>. QED  BY <1>1, <1>3, <1>4, <1>7, <1>8

\* A response, with the session that replaces one signed out.
LEMMA Responding ==
  ASSUME Base, NEW r \in Requests, Respond(r)
  PROVE  /\ req' \in [Requests -> Req] /\ req'[r].stage = "done"
         /\ req'[r].ask = req[r].ask /\ req'[r].session = req[r].session
         /\ \A t \in Requests \ {r} : req'[t] = req[t]
         /\ req[r].stage = "respond"
         /\ session' \in [Sessions -> Row] /\ cookie' \in [Browsers -> Sessions \cup {NoSession}]
         /\ \A t \in Sessions :
              /\ session'[t].owner = session[t].owner
              /\ session'[t].state = "unused" => session[t].state = "unused"
         /\ UNCHANGED <<answer, job, doc, cached, admission, reading, faults>>
<1>1. /\ req[r].stage = "respond" /\ Goes(r, "done")
      /\ UNCHANGED <<answer, job, doc, cached, admission, reading, faults>>
  BY DEF Respond
<1>2. /\ req \in [Requests -> Req] /\ session \in [Sessions -> Row]
      /\ cookie \in [Browsers -> Sessions \cup {NoSession}]
  BY DEF Base, TypeOK, Req, Row
<1>3. /\ req' \in [Requests -> Req] /\ req'[r].stage = "done"
      /\ req'[r].ask = req[r].ask /\ req'[r].session = req[r].session
      /\ \A t \in Requests \ {r} : req'[t] = req[t]
  BY <1>1, <1>2, Going
<1>4. CASE Asked(r).kind = "logout"
  <2>. DEFINE row == [state |-> "live", owner |-> Revoked(req[r].session)[Fresh].owner]
  <2>1. /\ Unused # {} /\ session' = [Revoked(req[r].session) EXCEPT ![Fresh].state = "live"]
        /\ cookie' = [cookie EXCEPT ![Asked(r).browser] = Fresh]
    BY <1>4 DEF Respond
  <2>2. Fresh \in Sessions
    BY <2>1, FreshUnused
  <2>3. req[r].session \in Sessions
    BY <1>1, UnderWay
  <2>4. Revoked(req[r].session) \in [Sessions -> Row] /\ Revoked(req[r].session)[Fresh] \in Row
    BY <1>2, <2>2, <2>3, RevokedRows
  <2>5. row \in Row /\ [Revoked(req[r].session)[Fresh] EXCEPT !.state = "live"] = row
    BY <2>4 DEF Row
  <2>6. session' = [Revoked(req[r].session) EXCEPT ![Fresh] = row]
    BY <2>1, <2>5
  <2>7. row.owner = Revoked(req[r].session)[Fresh].owner /\ row.state = "live"
    OBVIOUS
  <2>. HIDE DEF row
  <2>8. /\ session' \in [Sessions -> Row] /\ session'[Fresh] = row
        /\ \A t \in Sessions \ {Fresh} : session'[t] = Revoked(req[r].session)[t]
    BY <2>2, <2>4, <2>5, <2>6
  <2>9. cookie' \in [Browsers -> Sessions \cup {NoSession}]
    BY <1>2, <2>1, <2>2
  <2>10. ASSUME NEW t \in Sessions
         PROVE  /\ session'[t].owner = session[t].owner
                /\ session'[t].state = "unused" => session[t].state = "unused"
    <3>1. CASE t = Fresh
      BY <1>2, <2>2, <2>3, <2>7, <2>8, <3>1, FreshUnused, RevokedRows, <2>1
    <3>2. CASE t # Fresh
      <4>1. session'[t] = Revoked(req[r].session)[t]
        BY <2>8, <3>2
      <4>. QED  BY <1>2, <2>3, <4>1, RevokedRows
    <3>. QED  BY <3>1, <3>2
  <2>. QED  BY <1>1, <1>3, <2>8, <2>9, <2>10
<1>5. CASE Asked(r).kind # "logout"
  <2>1. session' = session /\ cookie' \in [Browsers -> Sessions \cup {NoSession}]
    BY <1>1, <1>2, <1>5, UnderWay DEF Respond
  <2>2. session' \in [Sessions -> Row]
    BY <1>2, <2>1
  <2>. QED  BY <1>1, <1>3, <2>1, <2>2
<1>. QED  BY <1>4, <1>5

\* A request that is inserted.
LEMMA Inserting ==
  ASSUME Base, NEW r \in Requests, Insert(r)
  PROVE  /\ req' \in [Requests -> Req] /\ req'[r].stage = "publish"
         /\ req'[r].ask = req[r].ask /\ req'[r].session = req[r].session
         /\ \A t \in Requests \ {r} : req'[t] = req[t]
         /\ job' \in [Requests -> Job]
         /\ job'[r].state = "queued" /\ job'[r].session = req[r].session
         /\ Asked(r).kind = "generate" => job'[r].user = Owner(req[r].session)
         /\ \A j \in Requests \ {r} : job'[j] = job[j]
<1>. DEFINE user == IF Asked(r).kind = "generate" THEN Owner(req[r].session) ELSE Nobody
            recent == Asked(r).kind = "generate"
            row == [state |-> "queued", session |-> req[r].session, user |-> user,
                    recent |-> recent]
<1>1. req[r].stage = "insert" /\ Goes(r, "publish") /\ job' = [job EXCEPT ![r] = row]
  BY DEF Insert
<1>2. /\ req \in [Requests -> Req] /\ session \in [Sessions -> Row]
      /\ job \in [Requests -> Job]
  BY DEF Base, TypeOK, Req, Row, Job
<1>3. /\ req' \in [Requests -> Req] /\ req'[r].stage = "publish"
      /\ req'[r].ask = req[r].ask /\ req'[r].session = req[r].session
      /\ \A t \in Requests \ {r} : req'[t] = req[t]
  BY <1>1, <1>2, Going
<1>4. req[r].session \in Sessions /\ user \in Users \cup {Nobody} /\ recent \in BOOLEAN
  BY <1>1, <1>2, UnderWay DEF Owner, Row
<1>5. /\ row.state = "queued" /\ row.session = req[r].session
      /\ Asked(r).kind = "generate" => row.user = Owner(req[r].session)
  OBVIOUS
<1>6. row \in Job
  <2>. HIDE DEF user, recent
  <2>. QED  BY <1>4 DEF Job, Active
<1>. HIDE DEF row
<1>7. /\ job' \in [Requests -> Job] /\ job'[r] = row
      /\ \A j \in Requests \ {r} : job'[j] = job[j]
  BY <1>1, <1>2, <1>6
<1>. QED  BY <1>3, <1>5, <1>7

\* What the failed publication of a request leaves.
LEMMA QueueIsDown ==
  ASSUME Base, NEW r \in Requests, QueueDown(r)
  PROVE  /\ req' \in [Requests -> Req] /\ req'[r].stage = "respond"
         /\ req'[r].ask = req[r].ask /\ req'[r].session = req[r].session
         /\ \A t \in Requests \ {r} : req'[t] = req[t]
         /\ job' \in [Requests -> Job]
         /\ \/ job'[r].state = job[r].state
            \/ job[r].state \in Active /\ job'[r].state = "ended"
         /\ job'[r].session = job[r].session /\ job'[r].user = job[r].user
         /\ job'[r].recent => job[r].recent
         /\ \A j \in Requests \ {r} : job'[j] = job[j]
<1>1. req \in [Requests -> Req] /\ job \in [Requests -> Job]
  BY DEF Base, TypeOK, Req, Job
<1>2. /\ req' \in [Requests -> Req] /\ req'[r].stage = "respond"
      /\ req'[r].ask = req[r].ask /\ req'[r].session = req[r].session
      /\ \A t \in Requests \ {r} : req'[t] = req[t]
  BY <1>1, Going DEF QueueDown, Answer
<1>3. CASE Asked(r).kind = "generate" /\ job[r].state \in Active
  <2>1. JobGoes(r, "ended")
    BY <1>3 DEF QueueDown, JobGoes
  <2>. QED  BY <1>1, <1>2, <1>3, <2>1, JobGoing
<1>4. CASE ~(Asked(r).kind = "generate" /\ job[r].state \in Active)
  <2>1. job' = job
    BY <1>4 DEF QueueDown
  <2>. QED  BY <1>1, <1>2, <2>1
<1>. QED  BY <1>3, <1>4

\* A job that is no longer of the last minute.
LEMMA Aging ==
  ASSUME Base, NEW j \in Requests, Minute(j)
  PROVE  /\ job' \in [Requests -> Job]
         /\ job'[j].state = job[j].state /\ job'[j].session = job[j].session
         /\ job'[j].user = job[j].user /\ ~job'[j].recent
         /\ \A k \in Requests \ {j} : job'[k] = job[k]
<1>. DEFINE row == [state |-> job[j].state, session |-> job[j].session,
                    user |-> job[j].user, recent |-> FALSE]
<1>1. job[j] \in Job /\ job \in [Requests -> Job]
  BY DEF Base, TypeOK, Job
<1>2. row \in Job /\ [job[j] EXCEPT !.recent = FALSE] = row
  <2>1. ASSUME NEW q \in Job, NEW b \in BOOLEAN
        PROVE  [q EXCEPT !.recent = b] =
                 [state |-> q.state, session |-> q.session, user |-> q.user, recent |-> b]
    BY DEF Job
  <2>2. row \in Job
    BY <1>1 DEF Job
  <2>. QED  BY <1>1, <2>1, <2>2
<1>3. job' = [job EXCEPT ![j] = row]
  <2>1. job' = [job EXCEPT ![j].recent = FALSE]
    BY Zenon DEF Minute
  <2>. HIDE DEF row
  <2>. QED  BY <1>2, <2>1
<1>4. /\ row.state = job[j].state /\ row.session = job[j].session
      /\ row.user = job[j].user /\ ~row.recent
  OBVIOUS
<1>. HIDE DEF row
<1>5. job' \in [Requests -> Job] /\ job'[j] = row /\ \A k \in Requests \ {j} : job'[k] = job[k]
  BY <1>1, <1>2, <1>3
<1>. QED  BY <1>4, <1>5

\* What is left when expired sessions are deleted: a job is as it was, or gone.
LEMMA Deleting ==
  ASSUME Base, DeleteSessions
  PROVE  /\ session' \in [Sessions -> Row]
         /\ \A s \in Sessions :
              /\ session'[s].owner = session[s].owner
              /\ session'[s].state = "unused" => session[s].state = "unused"
         /\ job' \in [Requests -> Job]
         /\ \A j \in Requests :
              \/ job'[j] = job[j]
              \/ job[j].state # "none" /\ job'[j].state = "gone"
                 /\ job'[j].session = NoSession /\ ~job'[j].recent
         /\ \A j \in Requests :
              Home \in {s \in Sessions : session[s].state = "expired"}
              \/ (job[j].session \in Sessions /\ session[job[j].session].state # "expired")
              \/ job[j].state = "none" \/ job[j].session = NoSession \/ job'[j].state = "gone"
<1>. DEFINE Gone == {s \in Sessions : session[s].state = "expired"}
            Jobs == {j \in Requests : /\ job[j].state # "none"
                                      /\ \/ job[j].session \in Gone
                                         \/ Home \in Gone /\ Asked(j).kind = "generate"}
            left == [state |-> "gone", session |-> NoSession, user |-> Nobody,
                     recent |-> FALSE]
<1>1. /\ session' = [s \in Sessions |-> IF s \in Gone THEN [session[s] EXCEPT !.state = "gone"]
                                         ELSE session[s]]
      /\ job' = [j \in Requests |-> IF j \in Jobs THEN NotAJob("gone")
                                     ELSE job[j]]
  BY DEF DeleteSessions
<1>2. session \in [Sessions -> Row] /\ job \in [Requests -> Job]
  BY DEF Base, TypeOK, Row, Job
<1>3. NotAJob("gone") = left /\ left \in Job
  BY DEF NotAJob, Job
<1>4. ASSUME NEW s \in Sessions
      PROVE  /\ session'[s] \in Row /\ session'[s].owner = session[s].owner
             /\ session'[s].state = "unused" => session[s].state = "unused"
  <2>1. session[s] \in Row
    BY <1>2
  <2>2. [session[s] EXCEPT !.state = "gone"] = [state |-> "gone", owner |-> session[s].owner]
    BY <2>1 DEF Row
  <2>3. session'[s] = IF s \in Gone THEN [state |-> "gone", owner |-> session[s].owner]
                      ELSE session[s]
    BY <1>1, <2>2
  <2>. QED  BY <2>1, <2>3 DEF Row
<1>5. ASSUME NEW j \in Requests
      PROVE  job'[j] = IF j \in Jobs THEN left ELSE job[j]
  BY <1>1, <1>3
<1>6. session' \in [Sessions -> Row]
  <2>1. session' = [s \in Sessions |-> session'[s]]
    BY <1>1
  <2>. QED  BY <1>4, <2>1
<1>7. job' \in [Requests -> Job]
  <2>1. job' = [j \in Requests |-> job'[j]]
    BY <1>1
  <2>2. \A j \in Requests : job'[j] \in Job
    BY <1>2, <1>3, <1>5
  <2>. QED  BY <2>1, <2>2
<1>8. left.state = "gone" /\ left.session = NoSession /\ ~left.recent
  OBVIOUS
<1>. HIDE DEF left
<1>9. ASSUME NEW j \in Requests
      PROVE  /\ \/ job'[j] = job[j]
                \/ job[j].state # "none" /\ job'[j].state = "gone"
                   /\ job'[j].session = NoSession /\ ~job'[j].recent
             /\ \/ Home \in Gone
                \/ (job[j].session \in Sessions /\ session[job[j].session].state # "expired")
                \/ job[j].state = "none" \/ job[j].session = NoSession
                \/ job'[j].state = "gone"
  <2>1. job[j].session \in Sessions \cup {NoSession}
    BY <1>2 DEF Job
  <2>. QED  BY <1>5, <1>8, <2>1
<1>. QED  BY <1>4, <1>6, <1>7, <1>9

\* Steps of a request that concern its stage and its answer only.
Plain(r) == Broken(r) \/ Look(r) \/ Replay(r) \/ Decide(r) \/ InsertFails(r) \/ Publish(r)

LEMMA PlainSteps ==
  ASSUME Base, NEW r \in Requests, Plain(r)
  PROVE  /\ req' \in [Requests -> Req]
         /\ req'[r].ask = req[r].ask /\ req'[r].session = req[r].session
         /\ \A t \in Requests \ {r} : req'[t] = req[t]
         /\ \/ req[r].stage = "identify" /\ req'[r].stage = "done"
            \/ req[r].stage = "look" /\ req'[r].stage = "admit"
            \/ req[r].stage = "admit" /\ req'[r].stage = "insert"
            \/ req[r].stage \in {"look", "admit", "insert", "publish"} /\ req'[r].stage = "respond"
         /\ answer' \in [Requests -> Requests \cup {NoJob, "refused", "error"}]
         /\ UNCHANGED <<people, job, doc, cached, admission, reading, faults>>
<1>1. req \in [Requests -> Req] /\ record \in [Scopes -> Requests \cup {NoJob}]
      /\ answer \in [Requests -> Requests \cup {NoJob, "refused", "error"}]
  BY DEF Base, TypeOK, Req
<1>2. CASE Broken(r)
  BY <1>1, <1>2, Going DEF Broken
<1>3. CASE Replay(r)
  <2>1. Scope(r) \in Scopes
    <3>1. /\ Asked(r) \in Asks /\ req[r].session \in Sessions /\ Asked(r).kind # "logout"
          /\ Asked(r).key # NoKey
      BY <1>3, UnderWay DEF Base, Replay, Known, Keyed
    <3>2. Asked(r).kind \in {"generate", "upload"} /\ Asked(r).key \in Keys
      BY <3>1, NamesAssumption DEF Keys
    <3>. QED  BY <3>1, <3>2 DEF Scope, Scopes
  <2>2. record[Scope(r)] \in Requests \cup {NoJob}
    BY <1>1, <2>1
  <2>. QED  BY <1>1, <1>3, <2>2, Going DEF Replay, Answer
<1>4. CASE Decide(r)
  BY <1>1, <1>4, Going DEF Decide, Answer
<1>5. CASE InsertFails(r)
  BY <1>1, <1>5, Going DEF InsertFails, Answer
<1>6. CASE Publish(r)
  BY <1>1, <1>6, Going DEF Publish, Answer
<1>7. CASE Look(r)
  BY <1>1, <1>7, Going DEF Look, Answer
<1>. QED  BY <1>2, <1>3, <1>4, <1>5, <1>6, <1>7 DEF Plain

\* A job that has read, or tried to read, its chunks.
Reads == {"running", "missed", "reread", "unserved"}

\* Steps of the worker that concern the state of a job and the chunks only.
Reading(j) == Read(j) \/ Backfill(j) \/ Reread(j) \/ EndJob(j)

LEMMA ReadingSteps ==
  ASSUME Base, NEW j \in Requests, Reading(j)
  PROVE  /\ job' \in [Requests -> Job]
         /\ job[j].state \in Active
         /\ job'[j].state \in Active \cup {"unserved", "ended"}
         /\ job'[j].state \in Reads => job[j].state \in Reads \/ Asked(j).kind = "generate"
         /\ job'[j].session = job[j].session /\ job'[j].user = job[j].user
         /\ job'[j].recent => job[j].recent
         /\ \A k \in Requests \ {j} : job'[k] = job[k]
         /\ \/ chunks' = chunks
            \/ job[j].state = "missed" /\ chunks' = job[j].session
         /\ crossed' \subseteq Requests
         /\ UNCHANGED <<people, req, answer, doc, cached, admission, faults>>
<1>1. job \in [Requests -> Job] /\ crossed \subseteq Requests
  BY DEF Base, TypeOK, Job
<1>. USE DEF Active, Reads
<1>2. CASE Read(j)
  <2>0. Asked(j).kind = "generate"
    BY <1>2 DEF Read
  <2>1. PICK state \in {"running", "missed", "unserved"} : JobGoes(j, state)
    BY <1>2 DEF Read
  <2>2. /\ chunks' = chunks /\ crossed' = crossed /\ job[j].state \in Active
        /\ UNCHANGED <<people, req, answer, doc, cached, admission, faults>>
    BY <1>2 DEF Read, reading
  <2>. QED  BY <1>1, <2>0, <2>1, <2>2, JobGoing
<1>3. CASE Backfill(j)
  BY <1>1, <1>3, JobGoing DEF Backfill, Publisher
<1>4. CASE Reread(j)
  <2>1. PICK state \in {"running", "unserved"} : JobGoes(j, state)
    BY <1>4 DEF Reread
  <2>2. /\ chunks' = chunks /\ crossed' = crossed /\ job[j].state \in Active \cap Reads
        /\ UNCHANGED <<people, req, answer, doc, cached, admission, faults>>
    BY <1>4 DEF Reread, reading
  <2>. QED  BY <1>1, <2>1, <2>2, JobGoing
<1>5. CASE EndJob(j)
  <2>1. /\ chunks' = chunks /\ crossed' = crossed /\ job[j].state \in Active
        /\ JobGoes(j, "ended")
        /\ UNCHANGED <<people, req, answer, doc, cached, admission, faults>>
    BY <1>5 DEF EndJob, reading
  <2>. QED  BY <1>1, <2>1, JobGoing
<1>. QED  BY <1>2, <1>3, <1>4, <1>5 DEF Reading

\* Steps that leave requests, sessions, jobs and admission alone, but for the
\* keys that lapse, the cache, the document and its chunks.
Aside ==
  \/ \E x \in Scopes : Lapse(x)
  \/ CacheLost \/ SweepDocument

LEMMA AsideSteps ==
  ASSUME Base, Aside
  PROVE  /\ UNCHANGED <<people, req, answer, job, crossed>>
         /\ chunks' = chunks \/ chunks' = NoSession
BY DEF Aside, Lapse, CacheLost, SweepDocument, reading

\* A session that expires.
LEMMA Expiring ==
  ASSUME Base, NEW s \in Sessions, Expire(s)
  PROVE  /\ session' \in [Sessions -> Row]
         /\ \A t \in Sessions : /\ session'[t].owner = session[t].owner
                                /\ session'[t].state = "unused" => session[t].state = "unused"
         /\ UNCHANGED <<cookie, req, answer, job, doc, cached, admission, reading>>
BY RevokedRows DEF Base, TypeOK, Row, Expire

\* Every step is of one of these kinds.
LEMMA Kinds ==
  ASSUME [Next]_vars
  PROVE  \/ \E r \in Requests :
              \/ \E a \in Asks : Arrive(r, a)
              \/ Stay(r) \/ Move(r) \/ Respond(r) \/ Plain(r) \/ Insert(r) \/ QueueDown(r)
              \/ Reading(r) \/ Minute(r)
         \/ \E s \in Sessions : Expire(s)
         \/ DeleteSessions \/ Aside \/ UNCHANGED vars
BY DEF Next, Handle, Work, Plain, Reading, Aside

\* A session that has an owner keeps it, and none goes back to be unused.
OwnersKeep ==
  \A s \in Sessions : /\ Owner(s) # Nobody => Owner(s)' = Owner(s)
                      /\ session'[s].state = "unused" =>
                           session[s].state = "unused" /\ Owner(s)' = Owner(s)

LEMMA Owners ==
  ASSUME Base, [Next]_vars
  PROVE  OwnersKeep /\ session' \in [Sessions -> Row]
<1>. USE DEF OwnersKeep, Owner
<1>0. session \in [Sessions -> Row]
  BY DEF Base, TypeOK, Row
<1>1. ASSUME session' = session PROVE OwnersKeep /\ session' \in [Sessions -> Row]
  BY <1>0, <1>1
<1>2. ASSUME NEW r \in Requests, NEW a \in Asks, Arrive(r, a)
      PROVE  OwnersKeep /\ session' \in [Sessions -> Row]
  <2>1. PICK s \in Sessions :
          /\ session' \in [Sessions -> Row] /\ session'[s].state = "live"
          /\ \A t \in Sessions : session'[t].owner = session[t].owner
          /\ \A t \in Sessions \ {s} : session'[t] = session[t]
    BY <1>2, Arriving
  <2>. QED  BY <2>1
<1>3. ASSUME NEW r \in Requests, Stay(r)
      PROVE  OwnersKeep /\ session' \in [Sessions -> Row]
  <2>1. req[r].session \in Sessions /\ session[req[r].session].state # "unused"
    BY <1>3, UnderWay DEF Stay
  <2>2. CASE session' = session
    BY <1>1, <2>2
  <2>3. CASE session' # session
    <3>1. /\ session' \in [Sessions -> Row]
          /\ session[req[r].session].owner \in {Nobody, Asked(r).user}
          /\ session'[req[r].session].owner = Asked(r).user
          /\ \A t \in Sessions : session'[t].state = session[t].state
          /\ \A t \in Sessions \ {req[r].session} : session'[t] = session[t]
      BY <1>3, <2>3, Staying
    <3>. QED  BY <2>1, <3>1 DEF Stay
  <2>. QED  BY <2>2, <2>3
<1>4. ASSUME NEW r \in Requests, Move(r)
      PROVE  OwnersKeep /\ session' \in [Sessions -> Row]
  <2>1. Owner(Fresh) = Nobody
    BY <1>4, Moving DEF Base
  <2>2. /\ session' \in [Sessions -> Row]
        /\ session'[Fresh] = [state |-> "live", owner |-> Asked(r).user]
    BY <1>4, Moving
  <2>3. session'[Fresh].state # "unused"
    BY <2>2
  <2>4. \A t \in Sessions \ {Fresh} :
          /\ session'[t].owner = session[t].owner
          /\ session'[t].state = "unused" => session[t].state = "unused"
    BY <1>4, Moving
  <2>. QED  BY <2>1, <2>2, <2>3, <2>4
<1>5. ASSUME NEW r \in Requests, Respond(r)
      PROVE  OwnersKeep /\ session' \in [Sessions -> Row]
  BY <1>5, Responding
<1>6. ASSUME NEW r \in Requests, Plain(r) \/ Insert(r) \/ QueueDown(r) \/ Reading(r) \/ Minute(r)
      PROVE  session' = session
  BY <1>6 DEF Plain, Reading, Broken, Look, Replay, Decide, InsertFails, Publish, Insert, QueueDown,
     Read, Backfill, Reread, EndJob, Minute, people
<1>7. ASSUME NEW s \in Sessions, Expire(s)
      PROVE  OwnersKeep /\ session' \in [Sessions -> Row]
  BY <1>7, Expiring
<1>8. CASE DeleteSessions
  BY <1>8, Deleting
<1>9. CASE Aside \/ UNCHANGED vars
  <2>1. session' = session
    BY <1>9, AsideSteps DEF people, vars
  <2>. QED  BY <1>1, <2>1
<1>. QED  BY <1>1, <1>2, <1>3, <1>4, <1>5, <1>6, <1>7, <1>8, <1>9, Kinds

\* A request keeps what it asks once it has arrived, and its session once it is past the
\* middleware.
Goal(t) ==
  /\ req[t].stage # "idle" => req'[t].ask = req[t].ask /\ req'[t].stage # "idle"
  /\ req[t].stage \notin {"idle", "identify"} =>
       req'[t].session = req[t].session /\ req'[t].stage \notin {"idle", "identify"}
  /\ req'[t].stage # "idle" => /\ req'[t].ask \in Asks /\ req'[t].session \in Sessions
                              /\ session'[req'[t].session].state # "unused"
  /\ req'[t].stage \in {"look", "admit", "insert", "publish"} => req'[t].ask.kind # "logout"

LEMMA Requesting ==
  ASSUME Base, [Next]_vars
  PROVE  req' \in [Requests -> Req] /\ \A t \in Requests : Goal(t)
<1>. DEFINE Kept == req' \in [Requests -> Req] /\ \A t \in Requests : Goal(t)
<1>0. req \in [Requests -> Req]
  BY DEF Base, TypeOK, Req
<1>a. ASSUME NEW t \in Requests, req'[t] = req[t] PROVE Goal(t)
  BY <1>a, Owners DEF Base, Goal, Asked, OwnersKeep
<1>b. ASSUME NEW t \in Requests, req[t].stage # "idle", req'[t].ask = req[t].ask,
             req'[t].session = req[t].session, req'[t].stage \notin {"idle", "identify"},
             req'[t].stage \in {"look", "admit", "insert", "publish"} => Asked(t).kind # "logout"
      PROVE  Goal(t)
  BY <1>b, Owners, UnderWay DEF Goal, Asked, OwnersKeep
<1>1. ASSUME NEW r \in Requests, NEW a \in Asks, Arrive(r, a) PROVE Kept
  <2>1. PICK s \in Sessions :
          /\ req[r].stage = "idle" /\ req' \in [Requests -> Req]
          /\ req'[r].stage = "identify" /\ req'[r].ask = a /\ req'[r].session = s
          /\ \A t \in Requests \ {r} : req'[t] = req[t]
          /\ session' \in [Sessions -> Row] /\ session'[s].state = "live"
    BY <1>1, Arriving
  <2>2. Goal(r)
    BY <2>1 DEF Goal
  <2>. QED  BY <1>a, <2>1, <2>2
<1>2. ASSUME NEW r \in Requests, Stay(r) PROVE Kept
  <2>1. req[r].stage = "identify"
    BY <1>2 DEF Stay
  <2>2. /\ req' \in [Requests -> Req] /\ req'[r].stage = Route(r)
        /\ req'[r].ask = req[r].ask /\ req'[r].session = req[r].session
        /\ \A t \in Requests \ {r} : req'[t] = req[t]
    BY <1>2, Staying
  <2>3. Route(r) \in {"respond", "look", "admit"} /\ (Route(r) # "respond" => Asked(r).kind # "logout")
    BY <2>1, UnderWay
  <2>4. Goal(r)
    BY <1>b, <2>1, <2>2, <2>3
  <2>. QED  BY <1>a, <2>2, <2>4
<1>3. ASSUME NEW r \in Requests, Move(r) PROVE Kept
  <2>1. /\ Fresh \in Sessions /\ req' \in [Requests -> Req] /\ req'[r].stage = Route(r)
        /\ req'[r].ask = req[r].ask /\ req'[r].session = Fresh
        /\ \A t \in Requests \ {r} : req'[t] = req[t]
        /\ session'[Fresh] = [state |-> "live", owner |-> Asked(r).user]
        /\ req[r].stage = "identify"
    BY <1>3, Moving
  <2>2. Route(r) \in {"respond", "look", "admit"} /\ (Route(r) # "respond" => Asked(r).kind # "logout")
        /\ Asked(r) \in Asks
    BY <2>1, UnderWay
  <2>3. session'[Fresh].state # "unused"
    BY <2>1
  <2>4. Goal(r)
    BY <2>1, <2>2, <2>3 DEF Goal, Asked
  <2>. QED  BY <1>a, <2>1, <2>4
<1>4. ASSUME NEW r \in Requests, Respond(r) PROVE Kept
  <2>1. /\ req[r].stage = "respond"
        /\ req' \in [Requests -> Req] /\ req'[r].stage = "done"
        /\ req'[r].ask = req[r].ask /\ req'[r].session = req[r].session
        /\ \A t \in Requests \ {r} : req'[t] = req[t]
    BY <1>4, Responding
  <2>2. Goal(r)
    BY <1>b, <2>1
  <2>. QED  BY <1>a, <2>1, <2>2
<1>5. ASSUME NEW r \in Requests, Plain(r) PROVE Kept
  <2>1. /\ req' \in [Requests -> Req]
        /\ req'[r].ask = req[r].ask /\ req'[r].session = req[r].session
        /\ \A t \in Requests \ {r} : req'[t] = req[t]
        /\ \/ req[r].stage = "identify" /\ req'[r].stage = "done"
           \/ req[r].stage = "look" /\ req'[r].stage = "admit"
           \/ req[r].stage = "admit" /\ req'[r].stage = "insert"
           \/ req[r].stage \in {"look", "admit", "insert", "publish"} /\ req'[r].stage = "respond"
    BY <1>5, PlainSteps
  <2>2. req[r].stage \in {"look", "admit"} => Asked(r).kind # "logout"
    BY DEF Base
  <2>3. Goal(r)
    BY <1>b, <2>1, <2>2
  <2>. QED  BY <1>a, <2>1, <2>3
<1>6. ASSUME NEW r \in Requests, Insert(r) \/ QueueDown(r) PROVE Kept
  <2>1. /\ req[r].stage \in {"insert", "publish"}
        /\ req' \in [Requests -> Req] /\ req'[r].stage \in {"publish", "respond"}
        /\ req'[r].ask = req[r].ask /\ req'[r].session = req[r].session
        /\ \A t \in Requests \ {r} : req'[t] = req[t]
    BY <1>6, Inserting, QueueIsDown DEF Insert, QueueDown
  <2>2. Asked(r).kind # "logout"
    BY <2>1 DEF Base
  <2>3. Goal(r)
    BY <1>b, <2>1, <2>2
  <2>. QED  BY <1>a, <2>1, <2>3
<1>7. ASSUME req' = req PROVE Kept
  BY <1>0, <1>7, <1>a
<1>8. ASSUME NEW j \in Requests, Reading(j) \/ Minute(j) PROVE req' = req
  BY <1>8 DEF Reading, Read, Backfill, Reread, EndJob, Minute
<1>9. ASSUME (\E s \in Sessions : Expire(s)) \/ DeleteSessions \/ Aside \/ UNCHANGED vars
      PROVE  req' = req
  BY <1>9, AsideSteps DEF Expire, DeleteSessions, vars
<1>. QED  BY <1>1, <1>2, <1>3, <1>4, <1>5, <1>6, <1>7, <1>8, <1>9, Kinds

\* Jobs: their type, and that their session stays theirs until they are gone.
LEMMA Working ==
  ASSUME Base, [Next]_vars
  PROVE  job' \in [Requests -> Job]
<1>0. job \in [Requests -> Job]
  BY DEF Base, TypeOK, Job
<1>1. ASSUME NEW r \in Requests, Stay(r) \/ Insert(r) \/ QueueDown(r) \/ Reading(r) \/ Minute(r)
      PROVE  job' \in [Requests -> Job]
  BY <1>0, <1>1, Staying, Inserting, QueueIsDown, ReadingSteps, Aging
<1>2. ASSUME NEW r \in Requests,
             (\E a \in Asks : Arrive(r, a)) \/ Move(r) \/ Respond(r) \/ Plain(r)
      PROVE  job' = job
  BY <1>2, Arriving, Moving, Responding, PlainSteps
<1>3. ASSUME (\E s \in Sessions : Expire(s)) \/ Aside \/ UNCHANGED vars
      PROVE  job' = job
  BY <1>3, Expiring, AsideSteps DEF vars
<1>. QED  BY <1>0, <1>1, <1>2, <1>3, Deleting, Kinds

\* Everything but sessions, requests and jobs.
LEMMA Others ==
  ASSUME Base, [Next]_vars
  PROVE  /\ cookie' \in [Browsers -> Sessions \cup {NoSession}]
         /\ answer' \in [Requests -> Requests \cup {NoJob, "refused", "error"}]
         /\ record' \in [Scopes -> Requests \cup {NoJob}]
         /\ doc' \in {"ready", "deleted", "gone"} /\ chunks' \in Sessions \cup {NoSession}
         /\ cached' \in BOOLEAN /\ faults' \in Nat
         /\ lapsed' \subseteq Scopes /\ crossed' \subseteq Requests
<1>. DEFINE Kept == /\ cookie' \in [Browsers -> Sessions \cup {NoSession}]
                    /\ answer' \in [Requests -> Requests \cup {NoJob, "refused", "error"}]
                    /\ record' \in [Scopes -> Requests \cup {NoJob}]
                    /\ doc' \in {"ready", "deleted", "gone"}
                    /\ chunks' \in Sessions \cup {NoSession}
                    /\ cached' \in BOOLEAN /\ faults' \in Nat
                    /\ lapsed' \subseteq Scopes /\ crossed' \subseteq Requests
<1>0. /\ cookie \in [Browsers -> Sessions \cup {NoSession}]
      /\ answer \in [Requests -> Requests \cup {NoJob, "refused", "error"}]
      /\ record \in [Scopes -> Requests \cup {NoJob}]
      /\ doc \in {"ready", "deleted", "gone"} /\ chunks \in Sessions \cup {NoSession}
      /\ cached \in BOOLEAN /\ faults \in Nat
      /\ lapsed \subseteq Scopes /\ crossed \subseteq Requests
      /\ job \in [Requests -> Job]
  BY DEF Base, TypeOK, Job
<1>1. ASSUME NEW r \in Requests,
             (\E a \in Asks : Arrive(r, a)) \/ Move(r) \/ Respond(r) \/ Plain(r)
      PROVE  Kept
  <2>1. /\ UNCHANGED <<doc, cached, admission, reading, faults>>
        /\ cookie' \in [Browsers -> Sessions \cup {NoSession}]
        /\ answer' \in [Requests -> Requests \cup {NoJob, "refused", "error"}]
    BY <1>0, <1>1, Arriving, Moving, Responding, PlainSteps DEF people
  <2>. QED  BY <1>0, <2>1 DEF admission, reading
<1>2. ASSUME NEW r \in Requests, Stay(r) PROVE Kept
  BY <1>0, <1>2 DEF Stay, admission, reading
<1>3. ASSUME NEW r \in Requests, Insert(r) PROVE Kept
  BY <1>0, <1>3 DEF Insert, people
<1>4. ASSUME NEW r \in Requests, QueueDown(r) PROVE Kept
  BY <1>0, <1>4 DEF QueueDown, Answer, Fault, people, admission, reading
<1>5. ASSUME NEW j \in Requests, Reading(j) PROVE Kept
  <2>1. job[j].session \in Sessions \cup {NoSession}
    BY <1>0 DEF Job
  <2>2. chunks' = chunks \/ chunks' = job[j].session
    BY <1>5, ReadingSteps
  <2>3. /\ UNCHANGED <<people, req, answer, doc, cached, admission, faults>>
        /\ crossed' \subseteq Requests
    BY <1>5, ReadingSteps
  <2>. QED  BY <1>0, <2>1, <2>2, <2>3 DEF people, admission
<1>6. ASSUME NEW j \in Requests, Minute(j) PROVE Kept
  BY <1>0, <1>6 DEF Minute, people, admission, reading
<1>7. ASSUME NEW s \in Sessions, Expire(s) PROVE Kept
  BY <1>0, <1>7 DEF Expire, Fault, admission, reading
<1>8. CASE DeleteSessions
  BY <1>0, <1>8 DEF DeleteSessions
<1>9. CASE Aside
  <2>1. ASSUME NEW x \in Scopes, Lapse(x) PROVE Kept
    BY <1>0, <2>1 DEF Lapse, Fault, people, reading
  <2>2. CASE CacheLost
    <3>1. faults' \in Nat
      BY <1>0, <2>2 DEF CacheLost, Fault
    <3>2. cached' \in BOOLEAN
      BY <2>2, Zenon DEF CacheLost
    <3>3. UNCHANGED <<people, answer, doc, admission, reading>>
      BY <2>2 DEF CacheLost
    <3>. QED  BY <1>0, <3>1, <3>2, <3>3 DEF people, admission, reading
  <2>3. CASE SweepDocument
    BY <1>0, <2>3 DEF SweepDocument, people, admission
  <2>. QED  BY <1>9, <2>1, <2>2, <2>3 DEF Aside
<1>10. CASE UNCHANGED vars
  BY <1>0, <1>10 DEF vars
<1>. QED  BY <1>1, <1>2, <1>3, <1>4, <1>5, <1>6, <1>7, <1>8, <1>9, <1>10, Kinds

\* Base is kept by every step.
LEMMA BaseKept ==
  ASSUME Base, [Next]_vars
  PROVE  Base'
<1>1. TypeOK'
  BY Owners, Requesting, Working, Others DEF TypeOK, Row, Req, Job, Active
<1>2. session'[Home].state # "unused"
  BY Owners, HomeIsOne DEF Base, OwnersKeep
<1>3. \A s \in Sessions : session'[s].state = "unused" => Owner(s)' = Nobody
  BY Owners DEF Base, OwnersKeep
<1>4. \A r \in Requests :
        /\ req'[r].stage # "idle" => /\ Asked(r)' \in Asks /\ req'[r].session \in Sessions
                                     /\ session'[req'[r].session].state # "unused"
        /\ req'[r].stage \in {"look", "admit", "insert", "publish"} => Asked(r)'.kind # "logout"
  BY Requesting DEF Goal, Asked
<1>. QED  BY <1>1, <1>2, <1>3, <1>4 DEF Base

-----------------------------------------------------------------------------
(* The inductive invariant.                                                *)

Exists(j) == job[j].state \notin {"none", "gone"}
Placed(r) == req[r].stage \in {"publish", "respond", "done"}

\* The session of the upload, or one of its owner.
Own(s) == s = Home \/ (Owner(s) = Owner(Home) /\ Owner(Home) # Nobody)

\* Past the middleware the session of a signed-in user is the user's, and what the
\* transaction of a generation found visible stays so.
Belongs ==
  \A r \in Requests :
    /\ req[r].stage \in {"look", "admit", "insert", "publish"} /\ Asked(r).user # Nobody =>
         Owner(req[r].session) = Asked(r).user
    /\ req[r].stage = "insert" /\ Asked(r).kind = "generate" => Own(req[r].session)

\* A job was inserted by a request, is in a session while it exists, and an exam is its
\* owner's.
JobsBelong ==
  \A j \in Requests :
    /\ job[j].state # "none" => Placed(j)
    /\ Exists(j) => job[j].session = req[j].session
    /\ ~Exists(j) => job[j].session = NoSession
    /\ job[j].state \in Reads => Asked(j).kind = "generate"
    /\ Exists(j) /\ Asked(j).kind = "generate" =>
         Own(job[j].session) /\ job[j].user = Owner(job[j].session)

Material == chunks # NoSession => Own(chunks)

\* A job that has written the chunks finds them, or somebody took them or the document.
Served ==
  \A j \in Requests :
    /\ job[j].state = "reread" => chunks = job[j].session \/ j \in crossed \/ doc # "ready"
    /\ job[j].state = "unserved" => j \in crossed \/ ~cached \/ doc # "ready"

\* No two transactions under one lock are between their reads and their inserts.
Alone ==
  \A r, t \in Requests :
    /\ r # t /\ req[r].stage = "insert" /\ req[t].stage = "insert"
    /\ req[r].session = req[t].session /\ Asked(r).kind = Asked(t).kind
    => Asked(r).kind = "upload" /\ ~(Keyed(r) /\ Asked(r).key = Asked(t).key)

\* The record of a scope is of the first request that was inserted under it.
RecordsHold ==
  /\ \A x \in Scopes : record[x] # NoJob => Placed(record[x])
  /\ \A r \in Requests :
       /\ req[r].stage = "insert" /\ Keyed(r) => record[Scope(r)] = NoJob
       /\ req[r].stage = "publish" /\ Keyed(r) /\ Scope(r) \notin lapsed =>
            record[Scope(r)] = r
       /\ answer[r] \in Requests =>
            /\ req[r].stage \in {"respond", "done"}
            /\ Keyed(r) /\ Scope(r) \notin lapsed =>
                 /\ Scope(r) \in Scopes /\ record[Scope(r)] = answer[r]
                 /\ Asked(answer[r]).payload = Asked(r).payload

\* The limits, and room for whoever is about to insert.
Limits ==
  /\ \A s \in Sessions : IsFiniteSet(JobsOf(s))
  /\ LimitsHold
  /\ \A r \in Requests :
       req[r].stage = "insert" /\ Asked(r).kind = "generate" =>
         /\ Cardinality(ActiveJobs(req[r].session)) < MaxActive
         /\ Cardinality(RecentJobs(req[r].session)) < PerMinute

IInv == Base /\ Belongs /\ JobsBelong /\ Material /\ Served /\ Alone /\ RecordsHold /\ Limits

-----------------------------------------------------------------------------
(* What a step does to jobs and requests, for the parts of the invariant.  *)

\* A job keeps its session, and is not taken up again once it ended; or it is deleted.
Follows(j) ==
  \/ /\ job'[j].session = job[j].session
     /\ job'[j].recent => job[j].recent
     /\ \/ job'[j].state = job[j].state
        \/ /\ job[j].state \in Active
           /\ job'[j].state \in Active \cup {"unserved", "ended"}
           /\ job'[j].state \in Reads => job[j].state \in Reads \/ Asked(j).kind = "generate"
  \/ /\ job[j].state # "none" /\ job'[j].state = "gone"
     /\ job'[j].session = NoSession /\ ~job'[j].recent

LEMMA Following ==
  ASSUME Base, [Next]_vars
  PROVE  \/ \A j \in Requests : Follows(j)
         \/ \E r \in Requests : Insert(r) /\ \A j \in Requests \ {r} : job'[j] = job[j]
<1>1. ASSUME NEW j \in Requests, job'[j] = job[j] PROVE Follows(j)
  BY <1>1 DEF Follows
<1>2. ASSUME NEW r \in Requests, Stay(r), NEW j \in Requests PROVE Follows(j)
  BY <1>1, <1>2, Staying DEF Follows
<1>3. ASSUME NEW r \in Requests, QueueDown(r), NEW j \in Requests PROVE Follows(j)
  <2>1. CASE j = r
    BY <1>3, <2>1, QueueIsDown DEF Follows, Reads
  <2>2. CASE j # r
    BY <1>1, <1>3, <2>2, QueueIsDown
  <2>. QED  BY <2>1, <2>2
<1>4. ASSUME NEW r \in Requests, Reading(r), NEW j \in Requests PROVE Follows(j)
  <2>1. CASE j = r
    BY <1>4, <2>1, ReadingSteps DEF Follows
  <2>2. CASE j # r
    BY <1>1, <1>4, <2>2, ReadingSteps
  <2>. QED  BY <2>1, <2>2
<1>5. ASSUME NEW r \in Requests, Minute(r), NEW j \in Requests PROVE Follows(j)
  <2>1. CASE j = r
    BY <1>5, <2>1, Aging DEF Follows
  <2>2. CASE j # r
    BY <1>1, <1>5, <2>2, Aging
  <2>. QED  BY <2>1, <2>2
<1>6. ASSUME NEW r \in Requests,
             (\E a \in Asks : Arrive(r, a)) \/ Move(r) \/ Respond(r) \/ Plain(r)
      PROVE  job' = job
  BY <1>6, Arriving, Moving, Responding, PlainSteps
<1>7. ASSUME (\E s \in Sessions : Expire(s)) \/ Aside \/ UNCHANGED vars
      PROVE  job' = job
  BY <1>7, Expiring, AsideSteps DEF vars
<1>8. ASSUME DeleteSessions, NEW j \in Requests PROVE Follows(j)
  BY <1>8, Deleting DEF Follows
<1>9. ASSUME NEW r \in Requests, Insert(r)
      PROVE  \A j \in Requests \ {r} : job'[j] = job[j]
  BY <1>9, Inserting
<1>. QED  BY <1>1, <1>2, <1>3, <1>4, <1>5, <1>6, <1>7, <1>8, <1>9, Kinds

\* What is the session of the upload or of its owner stays so.
LEMMA OwnStays ==
  ASSUME Base, [Next]_vars, NEW s \in Sessions, Own(s)
  PROVE  Own(s)'
BY Owners, HomeIsOne DEF OwnersKeep, Own

\* The stage a request is placed at is kept.
LEMMA PlacedStays ==
  ASSUME Base, [Next]_vars, NEW r \in Requests, Placed(r)
  PROVE  Placed(r)' /\ Asked(r)' = Asked(r) /\ req'[r].session = req[r].session
<1>. USE DEF Placed, Asked
<1>1. req'[r].ask = req[r].ask /\ req'[r].session = req[r].session
  BY Requesting DEF Goal
<1>2. ASSUME req'[r] = req[r] PROVE Placed(r)'
  BY <1>2
<1>3. ASSUME NEW t \in Requests, NEW a \in Asks, Arrive(t, a) PROVE Placed(r)'
  BY <1>2, <1>3, Arriving
<1>4. ASSUME NEW t \in Requests, Stay(t) PROVE Placed(r)'
  BY <1>2, <1>4, Staying DEF Stay
<1>5. ASSUME NEW t \in Requests, Move(t) PROVE Placed(r)'
  BY <1>2, <1>5, Moving
<1>6. ASSUME NEW t \in Requests, Respond(t) PROVE Placed(r)'
  BY <1>2, <1>6, Responding
<1>7. ASSUME NEW t \in Requests, Plain(t) PROVE Placed(r)'
  BY <1>2, <1>7, PlainSteps
<1>8. ASSUME NEW t \in Requests, Insert(t) \/ QueueDown(t) PROVE Placed(r)'
  BY <1>2, <1>8, Inserting, QueueIsDown
<1>9. ASSUME NEW t \in Requests, Reading(t) \/ Minute(t) PROVE req' = req
  BY <1>9, ReadingSteps DEF Minute
<1>10. ASSUME (\E s \in Sessions : Expire(s)) \/ DeleteSessions \/ Aside \/ UNCHANGED vars
       PROVE  req' = req
  BY <1>10, Expiring, AsideSteps DEF DeleteSessions, vars
<1>. QED  BY <1>1, <1>2, <1>3, <1>4, <1>5, <1>6, <1>7, <1>8, <1>9, <1>10, Kinds

\* What a step does to one request.
LEMMA Turns ==
  ASSUME Base, [Next]_vars, NEW t \in Requests
  PROVE  \/ req'[t] = req[t]
         \/ \E a \in Asks : Arrive(t, a)
         \/ Stay(t) \/ Move(t) \/ Respond(t) \/ Plain(t) \/ Insert(t) \/ QueueDown(t)
<1>1. ASSUME NEW r \in Requests, r # t,
             \/ \E a \in Asks : Arrive(r, a)
             \/ Stay(r) \/ Move(r) \/ Respond(r) \/ Plain(r) \/ Insert(r) \/ QueueDown(r)
      PROVE  req'[t] = req[t]
  <2>1. ASSUME NEW a \in Asks, Arrive(r, a) PROVE req'[t] = req[t]
    <3>1. \A q \in Requests \ {r} : req'[q] = req[q]
      BY <2>1, Arriving
    <3>. QED  BY <1>1, <3>1
  <2>2. CASE Stay(r)
    BY <1>1, <2>2, Staying
  <2>3. CASE Move(r) \/ Respond(r)
    BY <1>1, <2>3, Moving, Responding
  <2>4. CASE Plain(r) \/ Insert(r) \/ QueueDown(r)
    BY <1>1, <2>4, PlainSteps, Inserting, QueueIsDown
  <2>. QED  BY <1>1, <2>1, <2>2, <2>3, <2>4
<1>2. ASSUME NEW r \in Requests, Reading(r) \/ Minute(r) PROVE req' = req
  BY <1>2, ReadingSteps DEF Minute
<1>3. ASSUME (\E s \in Sessions : Expire(s)) \/ DeleteSessions \/ Aside \/ UNCHANGED vars
      PROVE  req' = req
  BY <1>3, Expiring, AsideSteps DEF DeleteSessions, vars
<1>. QED  BY <1>1, <1>2, <1>3, Kinds

\* How a request comes to a stage of the transaction.
LEMMA Entering ==
  ASSUME Base, [Next]_vars, NEW t \in Requests, req'[t] # req[t]
  PROVE  /\ req'[t].stage = "look" => Stay(t) \/ Move(t)
         /\ req'[t].stage = "admit" =>
              \/ Stay(t) \/ Move(t)
              \/ /\ req[t].stage = "look"
                 /\ Asked(t)' = Asked(t) /\ req'[t].session = req[t].session
         /\ req'[t].stage = "insert" =>
              /\ Decide(t) /\ (Asked(t).kind = "generate" => Admissible(t))
              /\ Asked(t)' = Asked(t) /\ req'[t].session = req[t].session
         /\ req'[t].stage = "publish" =>
              /\ Insert(t) /\ req[t].stage = "insert"
              /\ Asked(t)' = Asked(t) /\ req'[t].session = req[t].session
<1>. USE DEF Asked
<1>1. ASSUME NEW a \in Asks, Arrive(t, a) PROVE req'[t].stage = "identify"
  BY <1>1, Arriving
<1>2. ASSUME Stay(t) \/ Move(t) PROVE req'[t].stage \in {"respond", "look", "admit"}
  <2>1. req[t].stage = "identify"
    BY <1>2 DEF Stay, Move
  <2>. QED  BY <1>2, <2>1, Staying, Moving, UnderWay
<1>3. ASSUME Respond(t) PROVE req'[t].stage = "done"
  BY <1>3, Responding
<1>4. ASSUME Plain(t)
      PROVE  /\ req'[t].stage \in {"admit", "insert", "respond", "done"}
             /\ req'[t].stage = "admit" =>
                  /\ req[t].stage = "look"
                  /\ Asked(t)' = Asked(t) /\ req'[t].session = req[t].session
             /\ req'[t].stage = "insert" =>
                  /\ Decide(t) /\ (Asked(t).kind = "generate" => Admissible(t))
                  /\ Asked(t)' = Asked(t) /\ req'[t].session = req[t].session
  <2>1. /\ req'[t].ask = req[t].ask /\ req'[t].session = req[t].session
        /\ req'[t].stage \in {"admit", "insert", "respond", "done"}
        /\ req'[t].stage = "admit" => req[t].stage = "look"
        /\ req'[t].stage = "insert" => req[t].stage = "admit"
    BY <1>4, PlainSteps
  <2>2. req \in [Requests -> Req]
    BY DEF Base, TypeOK, Req
  <2>3. ASSUME Replay(t) PROVE req'[t].stage = "respond"
    BY <2>2, <2>3, Going DEF Replay, Answer
  <2>4. ASSUME Decide(t), Asked(t).kind = "generate", ~Admissible(t)
        PROVE  req'[t].stage = "respond"
    BY <2>2, <2>4, Going DEF Decide, Answer
  <2>5. ASSUME Broken(t) \/ Look(t) \/ InsertFails(t) \/ Publish(t) PROVE req[t].stage # "admit"
    BY <2>5 DEF Broken, Look, InsertFails, Publish
  <2>. QED  BY <1>4, <2>1, <2>3, <2>4, <2>5 DEF Plain
<1>5. ASSUME Insert(t)
      PROVE  /\ req'[t].stage = "publish" /\ req[t].stage = "insert"
             /\ Asked(t)' = Asked(t) /\ req'[t].session = req[t].session
  BY <1>5, Inserting DEF Insert
<1>6. ASSUME QueueDown(t) PROVE req'[t].stage = "respond"
  BY <1>6, QueueIsDown
<1>. QED  BY <1>1, <1>2, <1>3, <1>4, <1>5, <1>6, Turns

-----------------------------------------------------------------------------
(* Who owns what.                                                          *)

\* A session that belongs to its user when the middleware is done does so ever after.
LEMMA BelongsKept ==
  ASSUME Base, Belongs, [Next]_vars
  PROVE  Belongs'
<1>. SUFFICES ASSUME NEW r \in Requests
     PROVE  /\ req'[r].stage \in {"look", "admit", "insert", "publish"} /\ Asked(r)'.user # Nobody =>
                 Owner(req[r].session)' = Asked(r)'.user
            /\ req'[r].stage = "insert" /\ Asked(r)'.kind = "generate" => Own(req[r].session)'
  BY DEF Belongs
<1>. USE DEF Asked, Owner
<1>0. req[r].stage # "idle" => req[r].session \in Sessions
  BY UnderWay
<1>1. ASSUME req[r].stage \in {"look", "admit", "insert", "publish"}, Asked(r)' = Asked(r),
             req'[r].session = req[r].session, Asked(r).user # Nobody
      PROVE  Owner(req[r].session)' = Asked(r)'.user
  <2>1. Owner(req[r].session) = Asked(r).user /\ req[r].session \in Sessions
    BY <1>0, <1>1 DEF Belongs
  <2>2. session'[req[r].session].owner = session[req[r].session].owner
    BY <1>1, <2>1, Owners DEF OwnersKeep
  <2>. QED  BY <1>1, <2>1, <2>2
<1>2. CASE req'[r] = req[r]
  <2>1. Asked(r)' = Asked(r) /\ req'[r].session = req[r].session
    BY <1>2
  <2>2. req[r].stage = "insert" /\ Asked(r).kind = "generate" => Own(req[r].session)'
    <3>1. ASSUME req[r].stage = "insert", Asked(r).kind = "generate"
          PROVE  req[r].session \in Sessions /\ Own(req[r].session)
      BY <1>0, <3>1 DEF Belongs
    <3>2. ASSUME NEW s \in Sessions, Own(s), s = req[r].session, req'[r].session = s
          PROVE  Own(req[r].session)'
      BY <3>2, OwnStays DEF Own
    <3>. QED  BY <2>1, <3>1, <3>2
  <2>. QED  BY <1>1, <1>2, <2>1, <2>2
<1>3. CASE req'[r] # req[r] /\ req'[r].stage \in {"look", "admit"}
  <2>1. CASE Stay(r)
    <3>1. req'[r].ask = req[r].ask /\ req'[r].session = req[r].session
      BY <2>1, Staying
    <3>2. Asked(r).user # Nobody => session'[req[r].session].owner = Asked(r).user
      BY <2>1, Staying
    <3>. QED  BY <1>3, <3>1, <3>2
  <2>2. CASE Move(r)
    <3>1. /\ req'[r].ask = req[r].ask /\ req'[r].session = Fresh
          /\ session'[Fresh] = [state |-> "live", owner |-> Asked(r).user]
      BY <2>2, Moving
    <3>2. session'[Fresh].owner = req[r].ask.user
      BY <3>1
    <3>. QED  BY <1>3, <3>1, <3>2
  <2>3. CASE /\ req[r].stage = "look"
             /\ Asked(r)' = Asked(r) /\ req'[r].session = req[r].session
    BY <1>1, <1>3, <2>3
  <2>. QED  BY <1>3, <2>1, <2>2, <2>3, Entering
<1>4. CASE req'[r] # req[r] /\ req'[r].stage = "insert"
  <2>1. /\ Decide(r) /\ (Asked(r).kind = "generate" => Admissible(r))
        /\ Asked(r)' = Asked(r) /\ req'[r].session = req[r].session
    BY <1>4, Entering
  <2>2. req[r].stage = "admit" /\ req[r].session \in Sessions
    BY <1>0, <2>1 DEF Decide
  <2>3. ASSUME Asked(r).kind = "generate" PROVE Own(req[r].session)
    <3>1. req[r].session = Home \/ (Asked(r).user # Nobody /\ Owner(Home) = Asked(r).user)
      BY <2>1, <2>3 DEF Admissible, Visible
    <3>. QED  BY <2>2, <3>1 DEF Own, Belongs
  <2>4. ASSUME NEW s \in Sessions, Own(s), s = req[r].session, req'[r].session = s
        PROVE  Own(req[r].session)'
    BY <2>4, OwnStays DEF Own
  <2>. QED  BY <1>1, <1>4, <2>1, <2>2, <2>3, <2>4
<1>5. CASE req'[r] # req[r] /\ req'[r].stage = "publish"
  <2>1. /\ req[r].stage = "insert"
        /\ Asked(r)' = Asked(r) /\ req'[r].session = req[r].session
    BY <1>5, Entering
  <2>. QED  BY <1>1, <1>5, <2>1
<1>. QED  BY <1>2, <1>3, <1>4, <1>5

\* Nobody but the middleware of a request gives a session that is in use an owner.
LEMMA OnlyStaying ==
  ASSUME Base, [Next]_vars, NEW s \in Sessions, session[s].state # "unused",
         \A r \in Requests : ~Stay(r)
  PROVE  session'[s].owner = session[s].owner
<1>1. ASSUME NEW r \in Requests, NEW a \in Asks, Arrive(r, a)
      PROVE  session'[s].owner = session[s].owner
  BY <1>1, Arriving
<1>2. ASSUME NEW r \in Requests, Move(r) \/ Respond(r)
      PROVE  session'[s].owner = session[s].owner
  BY <1>2, Moving, Responding
<1>3. ASSUME NEW r \in Requests, Plain(r) \/ Insert(r) \/ QueueDown(r) \/ Reading(r) \/ Minute(r)
      PROVE  session' = session
  BY <1>3 DEF Plain, Reading, Broken, Look, Replay, Decide, InsertFails, Publish, Insert, QueueDown,
     Read, Backfill, Reread, EndJob, Minute, people
<1>4. ASSUME Aside \/ UNCHANGED vars PROVE session' = session
  BY <1>4, AsideSteps DEF people, vars
<1>. QED  BY <1>1, <1>2, <1>3, <1>4, Expiring, Deleting, Kinds

\* And the jobs in other steps keep their user.
LEMMA UsersStay ==
  ASSUME Base, [Next]_vars, NEW j \in Requests, job'[j].state # "gone",
         \A r \in Requests : ~Stay(r) /\ ~Insert(r)
  PROVE  job'[j].user = job[j].user
<1>1. ASSUME NEW r \in Requests, QueueDown(r) \/ Reading(r) \/ Minute(r)
      PROVE  job'[j].user = job[j].user
  BY <1>1, QueueIsDown, ReadingSteps, Aging
<1>2. ASSUME NEW r \in Requests,
             (\E a \in Asks : Arrive(r, a)) \/ Move(r) \/ Respond(r) \/ Plain(r)
      PROVE  job' = job
  BY <1>2, Arriving, Moving, Responding, PlainSteps
<1>3. ASSUME (\E s \in Sessions : Expire(s)) \/ Aside \/ UNCHANGED vars
      PROVE  job' = job
  BY <1>3, Expiring, AsideSteps DEF vars
<1>. QED  BY <1>1, <1>2, <1>3, Deleting, Kinds

\* Sign-in attaches a session and its exams together, and an exam is inserted with the
\* owner its session has then.
LEMMA JobsBelongKept ==
  ASSUME Base, Belongs, JobsBelong, [Next]_vars
  PROVE  JobsBelong'
<1>. USE DEF Asked, Owner, Exists
<1>1. ASSUME NEW j \in Requests, job[j].state # "none"
      PROVE  /\ Placed(j)' /\ Asked(j)' = Asked(j) /\ req'[j].session = req[j].session
             /\ req[j].session \in Sessions /\ session[req[j].session].state # "unused"
  <2>1. Placed(j)
    BY <1>1 DEF JobsBelong
  <2>. QED  BY <2>1, PlacedStays, UnderWay DEF Placed
<1>2. ASSUME NEW r \in Requests, Insert(r)
      PROVE  /\ req'[r].stage = "publish" /\ Asked(r)' = Asked(r)
             /\ req'[r].session = req[r].session /\ req[r].session \in Sessions
             /\ job'[r].state = "queued" /\ job'[r].session = req[r].session
             /\ Asked(r).kind = "generate" => /\ job'[r].user = Owner(req[r].session)
                                              /\ Own(req[r].session)
             /\ \A j \in Requests \ {r} : job'[j] = job[j]
             /\ session' = session
  <2>1. req[r].stage = "insert" /\ session' = session
    BY <1>2 DEF Insert, people
  <2>. QED  BY <1>2, <2>1, Inserting, UnderWay DEF Belongs
<1>3. ASSUME NEW j \in Requests
      PROVE  /\ job'[j].state # "none" => Placed(j)'
             /\ Exists(j)' => job'[j].session = req'[j].session
             /\ ~Exists(j)' => job'[j].session = NoSession
             /\ job'[j].state \in Reads => Asked(j)'.kind = "generate"
  <2>1. CASE job'[j] = job[j]
    BY <1>1, <2>1 DEF JobsBelong, Reads
  <2>2. CASE Insert(j)
    BY <1>2, <2>2 DEF Placed, Reads
  <2>3. CASE Follows(j)
    <3>1. CASE job'[j].state = "gone" /\ job[j].state # "none" /\ job'[j].session = NoSession
      BY <1>1, <3>1 DEF Reads
    <3>2. CASE job'[j].session = job[j].session /\ job'[j].state = job[j].state
      BY <1>1, <3>2 DEF JobsBelong, Reads
    <3>3. CASE /\ job'[j].session = job[j].session
               /\ job[j].state \in Active /\ job'[j].state \in Active \cup {"unserved", "ended"}
               /\ job'[j].state \in Reads => job[j].state \in Reads \/ Asked(j).kind = "generate"
      BY <1>1, <3>3 DEF JobsBelong, Active
    <3>. QED  BY <2>3, <3>1, <3>2, <3>3 DEF Follows
  <2>. QED  BY <2>1, <2>2, <2>3, Following
<1>4. ASSUME NEW j \in Requests, Exists(j)', Asked(j)'.kind = "generate"
      PROVE  Own(job[j].session)' /\ job'[j].user = Owner(job[j].session)'
  <2>1. CASE Insert(j)
    <3>1. Own(req[j].session) /\ job'[j].session = req[j].session /\ session' = session
      BY <1>2, <1>4, <2>1
    <3>. QED  BY <1>2, <1>4, <2>1, <3>1 DEF Own
  <2>2. CASE ~Insert(j)
    <3>1. Exists(j) /\ job'[j].session = job[j].session
      BY <1>4, <2>2, Following DEF Follows, Active
    <3>2. /\ Asked(j).kind = "generate" /\ job[j].session = req[j].session
          /\ Own(job[j].session) /\ job[j].user = Owner(job[j].session)
          /\ job[j].session \in Sessions /\ session[job[j].session].state # "unused"
      BY <1>1, <1>4, <3>1 DEF JobsBelong
    <3>3. Own(job[j].session)'
      <4>1. ASSUME NEW s \in Sessions, Own(s), job'[j].session = s PROVE Own(job[j].session)'
        BY <4>1, OwnStays DEF Own
      <4>. QED  BY <3>1, <3>2, <4>1
    <3>4. ASSUME NEW r \in Requests, Stay(r)
          PROVE  job'[j].user = Owner(job[j].session)'
      <4>1. CASE UNCHANGED <<session, job>>
        BY <3>2, <4>1
      <4>2. CASE ~UNCHANGED <<session, job>>
        <5>1. /\ Asked(r).user \in Users
              /\ Owner(req[r].session) \in {Nobody, Asked(r).user}
              /\ session'[req[r].session].owner = Asked(r).user
              /\ \A t \in Sessions \ {req[r].session} : session'[t] = session[t]
              /\ job'[j].user =
                   IF job[j].session = req[r].session /\ job[j].user = Nobody
                   THEN Asked(r).user ELSE job[j].user
          BY <3>4, <4>2, Staying
        <5>. QED  BY <3>1, <3>2, <5>1
      <4>. QED  BY <4>1, <4>2
    <3>5. ASSUME NEW r \in Requests, Insert(r)
          PROVE  job'[j].user = Owner(job[j].session)'
      <4>1. j # r
        BY <2>2, <3>5
      <4>2. job'[j] = job[j] /\ session' = session
        BY <1>2, <3>5, <4>1
      <4>. QED  BY <3>2, <4>2
    <3>6. CASE \A r \in Requests : ~Stay(r) /\ ~Insert(r)
      <4>1. session'[job[j].session].owner = session[job[j].session].owner
        BY <3>2, <3>6, OnlyStaying
      <4>2. job'[j].user = job[j].user
        BY <1>4, <3>6, UsersStay
      <4>. QED  BY <3>1, <3>2, <3>3, <4>1, <4>2
    <3>. QED  BY <3>3, <3>4, <3>5, <3>6
  <2>. QED  BY <2>1, <2>2
<1>. QED  BY <1>3, <1>4 DEF JobsBelong

\* The chunks are of a job's session, or of the upload's.
LEMMA MaterialKept ==
  ASSUME Base, JobsBelong, Material, [Next]_vars
  PROVE  Material'
<1>1. chunks \in Sessions \cup {NoSession}
  BY DEF Base, TypeOK
<1>2. ASSUME NEW s \in Sessions, Own(s), chunks' = s PROVE Material'
  BY <1>2, OwnStays DEF Material, Own
<1>3. CASE chunks' = chunks \/ chunks' = NoSession
  BY <1>1, <1>2, <1>3 DEF Material
<1>4. ASSUME NEW j \in Requests, Reading(j) PROVE Material'
  <2>1. ASSUME job[j].state = "missed", chunks' = job[j].session PROVE Material'
    <3>1. /\ Exists(j) /\ Asked(j).kind = "generate"
      BY <2>1 DEF JobsBelong, Exists, Reads
    <3>2. Own(job[j].session) /\ job[j].session \in Sessions
      BY <3>1, UnderWay DEF JobsBelong, Placed, Exists
    <3>. QED  BY <1>2, <2>1, <3>2
  <2>. QED  BY <1>3, <1>4, <2>1, ReadingSteps
<1>5. ASSUME NEW r \in Requests,
             \/ \E a \in Asks : Arrive(r, a)
             \/ Stay(r) \/ Move(r) \/ Respond(r) \/ Plain(r) \/ Insert(r) \/ QueueDown(r)
             \/ Minute(r)
      PROVE  chunks' = chunks
  <2>1. CASE \E a \in Asks : Arrive(r, a)
    BY <2>1 DEF Arrive, reading
  <2>2. CASE Stay(r) \/ Move(r) \/ Respond(r) \/ Insert(r) \/ QueueDown(r) \/ Minute(r)
    BY <2>2 DEF Stay, Move, Respond, Insert, QueueDown, Minute, reading
  <2>3. CASE Plain(r)
    BY <2>3, PlainSteps DEF reading
  <2>. QED  BY <1>5, <2>1, <2>2, <2>3
<1>6. ASSUME DeleteSessions PROVE chunks' = chunks \/ chunks' = NoSession
  BY <1>6 DEF DeleteSessions
<1>7. ASSUME (\E s \in Sessions : Expire(s)) \/ Aside \/ UNCHANGED vars
      PROVE  chunks' = chunks \/ chunks' = NoSession
  BY <1>7, Expiring, AsideSteps DEF reading, vars
<1>. QED  BY <1>3, <1>4, <1>5, <1>6, <1>7, Kinds

-----------------------------------------------------------------------------
(* What a job finds.                                                       *)

\* A job comes to these states by its own reads.
LEMMA OnlyReading ==
  ASSUME Base, [Next]_vars, NEW j \in Requests,
         job'[j].state \in Reads, job'[j].state # job[j].state
  PROVE  Reading(j)
<1>. USE DEF Reads
<1>1. ASSUME NEW r \in Requests, Stay(r) \/ QueueDown(r) \/ Minute(r)
      PROVE  job'[j].state \in {job[j].state, "ended"}
  <2>1. CASE Stay(r)
    BY <2>1, Staying
  <2>2. CASE QueueDown(r)
    BY <2>2, QueueIsDown
  <2>3. CASE Minute(r)
    BY <2>3, Aging
  <2>. QED  BY <1>1, <2>1, <2>2, <2>3
<1>2. ASSUME NEW r \in Requests, Insert(r)
      PROVE  job'[j].state \in {job[j].state, "queued"}
  BY <1>2, Inserting
<1>3. ASSUME NEW r \in Requests, r # j, Reading(r) PROVE job'[j] = job[j]
  BY <1>3, ReadingSteps
<1>4. ASSUME NEW r \in Requests,
             (\E a \in Asks : Arrive(r, a)) \/ Move(r) \/ Respond(r) \/ Plain(r)
      PROVE  job' = job
  BY <1>4, Arriving, Moving, Responding, PlainSteps
<1>5. ASSUME (\E s \in Sessions : Expire(s)) \/ Aside \/ UNCHANGED vars
      PROVE  job' = job
  BY <1>5, Expiring, AsideSteps DEF vars
<1>6. ASSUME DeleteSessions PROVE job'[j].state \in {job[j].state, "gone"}
  BY <1>6, Deleting
<1>. QED  BY <1>1, <1>2, <1>3, <1>4, <1>5, <1>6, Kinds

\* The document and its artefact do not come back, a job that was crossed stays so, and
\* the chunks are changed by the second write of a job, the sweep and the deletion only.
LEMMA Losing ==
  ASSUME Base, [Next]_vars
  PROVE  /\ doc # "ready" => doc' # "ready"
         /\ ~cached => ~cached'
         /\ crossed \subseteq crossed'
         /\ \/ chunks' = chunks \/ SweepDocument \/ DeleteSessions
            \/ \E j \in Requests : Backfill(j)
<1>. DEFINE Kept == UNCHANGED <<doc, cached, chunks, crossed>>
<1>1. ASSUME NEW r \in Requests,
             \/ \E a \in Asks : Arrive(r, a)
             \/ Stay(r) \/ Move(r) \/ Respond(r) \/ Plain(r) \/ Insert(r) \/ QueueDown(r)
             \/ Minute(r) \/ Read(r) \/ Reread(r) \/ EndJob(r)
      PROVE  Kept
  <2>1. CASE \E a \in Asks : Arrive(r, a)
    BY <2>1 DEF Arrive, reading
  <2>2. CASE Stay(r) \/ Move(r) \/ Respond(r) \/ Insert(r) \/ QueueDown(r)
    BY <2>2 DEF Stay, Move, Respond, Insert, QueueDown, reading
  <2>3. CASE Plain(r)
    BY <2>3, PlainSteps DEF reading
  <2>4. CASE Minute(r) \/ Read(r) \/ Reread(r) \/ EndJob(r)
    BY <2>4 DEF Minute, Read, Reread, EndJob, reading
  <2>. QED  BY <1>1, <2>1, <2>2, <2>3, <2>4
<1>2. ASSUME NEW j \in Requests, Backfill(j)
      PROVE  doc' = doc /\ cached' = cached /\ crossed \subseteq crossed'
  BY <1>2 DEF Backfill
<1>3. ASSUME (\E s \in Sessions : Expire(s)) \/ (\E x \in Scopes : Lapse(x)) \/ UNCHANGED vars
      PROVE  Kept
  BY <1>3 DEF Expire, Lapse, reading, vars
<1>4. ASSUME CacheLost PROVE doc' = doc /\ chunks' = chunks /\ crossed' = crossed /\ ~cached'
  BY <1>4, Zenon DEF CacheLost, reading
<1>5. ASSUME SweepDocument \/ DeleteSessions
      PROVE  /\ doc # "ready" => doc' # "ready"
             /\ cached' = cached /\ crossed' = crossed
  BY <1>5 DEF SweepDocument, DeleteSessions
<1>. QED  BY <1>1, <1>2, <1>3, <1>4, <1>5, Kinds DEF Reading, Aside

\* Chunks that a job has written are missing at its second read only for a reason.
LEMMA ServedKept ==
  ASSUME Base, JobsBelong, Served, [Next]_vars
  PROVE  Served'
<1>. SUFFICES ASSUME NEW j \in Requests
     PROVE  /\ job'[j].state = "reread" =>
                 chunks' = job'[j].session \/ j \in crossed' \/ doc' # "ready"
            /\ job'[j].state = "unserved" => j \in crossed' \/ ~cached' \/ doc' # "ready"
  BY DEF Served
<1>1. ASSUME job'[j].state = "unserved"
      PROVE  j \in crossed' \/ ~cached' \/ doc' # "ready"
  <2>1. CASE job[j].state = "unserved"
    BY <2>1, Losing DEF Served
  <2>2. CASE job[j].state # "unserved"
    <3>1. Reading(j)
      BY <1>1, <2>2, OnlyReading DEF Reads
    <3>2. job \in [Requests -> Job] /\ job[j].state \in Active
      BY <3>1, ReadingSteps DEF Base, TypeOK, Job
    <3>3. CASE Read(j)
      <4>1. CASE ~cached
        BY <4>1, Losing
      <4>2. CASE cached
        <5>1. PICK state \in {"running", "missed"} : JobGoes(j, state)
          BY <3>3, <4>2 DEF Read
        <5>. QED  BY <1>1, <3>2, <5>1, JobGoing DEF Active
      <4>. QED  BY <4>1, <4>2
    <3>4. CASE Backfill(j)
      <4>1. JobGoes(j, "reread")
        BY <3>4 DEF Backfill
      <4>. QED  BY <1>1, <3>2, <4>1, JobGoing DEF Active
    <3>5. CASE Reread(j)
      <4>1. CASE Found(j)
        <5>1. JobGoes(j, "running")
          BY <3>5, <4>1 DEF Reread
        <5>. QED  BY <1>1, <3>2, <5>1, JobGoing DEF Active
      <4>2. CASE ~Found(j)
        <5>1. job[j].state = "reread"
          BY <3>5 DEF Reread
        <5>. QED  BY <4>2, <5>1, Losing DEF Served, Found
      <4>. QED  BY <4>1, <4>2
    <3>6. CASE EndJob(j)
      <4>1. JobGoes(j, "ended")
        BY <3>6 DEF EndJob
      <4>. QED  BY <1>1, <3>2, <4>1, JobGoing
    <3>. QED  BY <3>1, <3>3, <3>4, <3>5, <3>6 DEF Reading
  <2>. QED  BY <2>1, <2>2
<1>2. ASSUME job'[j].state = "reread"
      PROVE  chunks' = job'[j].session \/ j \in crossed' \/ doc' # "ready"
  <2>1. ASSUME NEW k \in Requests, Backfill(k)
        PROVE  chunks' = job'[j].session \/ j \in crossed'
    <3>1. chunks' = job[k].session
      BY <2>1 DEF Backfill, Publisher
    <3>2. Reading(k)
      BY <2>1 DEF Reading
    <3>3. CASE k = j
      BY <3>1, <3>2, <3>3, ReadingSteps
    <3>4. CASE k # j
      <4>1. job'[j] = job[j]
        BY <3>2, <3>4, ReadingSteps
      <4>. QED  BY <1>2, <2>1, <3>1, <4>1 DEF Backfill, Publisher
    <3>. QED  BY <3>3, <3>4
  <2>2. CASE SweepDocument
    BY <2>2 DEF SweepDocument
  <2>3. ASSUME \A k \in Requests : ~Backfill(k)
        PROVE  job[j].state = "reread" /\ job'[j].session = job[j].session
    <3>1. ASSUME Read(j) \/ Reread(j) \/ EndJob(j) PROVE job'[j].state # "reread"
      <4>1. job \in [Requests -> Job]
        BY DEF Base, TypeOK, Job
      <4>2. PICK state \in {"running", "missed", "unserved", "ended"} : JobGoes(j, state)
        BY <3>1 DEF Read, Reread, EndJob
      <4>. QED  BY <4>1, <4>2, JobGoing DEF Active
    <3>2. job[j].state = "reread"
      BY <1>2, <2>3, <3>1, OnlyReading DEF Reading, Reads
    <3>3. ~Insert(j)
      BY <1>2, Inserting
    <3>. QED  BY <1>2, <3>2, <3>3, Following DEF Follows
  <2>4. CASE DeleteSessions /\ \A k \in Requests : ~Backfill(k)
    <3>. DEFINE Gone == {s \in Sessions : session[s].state = "expired"}
    <3>1. job[j].state = "reread" /\ job'[j].session = job[j].session
      BY <2>3, <2>4
    <3>2. CASE Home \in Gone
      BY <2>4, <3>2 DEF DeleteSessions
    <3>3. CASE Home \notin Gone
      <4>1. job[j].session \notin Gone
        BY <1>2, <2>4, <3>1, <3>3, Deleting, HomeIsOne, UnderWay
           DEF JobsBelong, Placed, Exists
      <4>2. chunks = job[j].session => chunks' = chunks
        BY <2>4, <3>3, <4>1 DEF DeleteSessions
      <4>. QED  BY <3>1, <4>2, Losing DEF Served
    <3>. QED  BY <3>2, <3>3
  <2>5. CASE chunks' = chunks /\ \A k \in Requests : ~Backfill(k)
    BY <2>3, <2>5, Losing DEF Served
  <2>. QED  BY <2>1, <2>2, <2>4, <2>5, Losing
<1>. QED  BY <1>1, <1>2

-----------------------------------------------------------------------------
(* The transaction: the lock, the keys and the limits.                     *)

\* A request that decides changes no other.
LEMMA Deciding ==
  ASSUME Base, NEW r \in Requests, Decide(r)
  PROVE  /\ \A t \in Requests \ {r} : req'[t] = req[t]
         /\ UNCHANGED <<job, record, lapsed>>
BY PlainSteps DEF Plain, admission

\* The lock is taken when nobody of the same scope is between reads and inserts.
LEMMA AloneKept ==
  ASSUME Base, Alone, [Next]_vars
  PROVE  Alone'
<1>. SUFFICES ASSUME NEW r \in Requests, NEW t \in Requests, r # t,
                     req'[r].stage = "insert", req'[t].stage = "insert",
                     req'[r].session = req'[t].session, Asked(r)'.kind = Asked(t)'.kind
     PROVE  Asked(r)'.kind = "upload" /\ ~(Keyed(r)' /\ Asked(r)'.key = Asked(t)'.key)
  BY DEF Alone
<1>. USE DEF Asked, Keyed
<1>1. ASSUME NEW q \in Requests, req'[q].stage = "insert"
      PROVE  \/ req'[q] = req[q]
             \/ /\ Decide(q) /\ req'[q].ask = req[q].ask /\ req'[q].session = req[q].session
  BY <1>1, Entering
<1>2. CASE req'[r] = req[r] /\ req'[t] = req[t]
  BY <1>2 DEF Alone
<1>3. CASE Decide(r)
  <2>1. req'[t] = req[t] /\ Unlocked(r)
    BY <1>3, Deciding DEF Decide
  <2>2. ~Locks(r, t) /\ req'[r].ask = req[r].ask /\ req'[r].session = req[r].session
    BY <1>1, <2>1 DEF Unlocked
  <2>. QED  BY <2>1, <2>2, UnderWay, NamesAssumption DEF Locks
<1>4. CASE Decide(t)
  <2>1. req'[r] = req[r] /\ Unlocked(t)
    BY <1>4, Deciding DEF Decide
  <2>2. ~Locks(t, r) /\ req'[t].ask = req[t].ask /\ req'[t].session = req[t].session
    BY <1>1, <2>1 DEF Unlocked
  <2>. QED  BY <2>1, <2>2, UnderWay, NamesAssumption DEF Locks
<1>. QED  BY <1>1, <1>2, <1>3, <1>4

\* The scope of a request that has a key is one of the table's.
LEMMA Scoped ==
  ASSUME Base, NEW r \in Requests, Keyed(r),
         req[r].stage \in {"look", "admit", "insert", "publish"}
  PROVE  Scope(r) \in Scopes
<1>1. Asked(r) \in Asks /\ req[r].session \in Sessions /\ Asked(r).kind # "logout"
  BY UnderWay DEF Base
<1>2. Asked(r).kind \in {"generate", "upload"} /\ Asked(r).key \in Keys
  BY <1>1, NamesAssumption DEF Keys, Keyed
<1>. QED  BY <1>1, <1>2 DEF Scope, Scopes

\* How a record changes.
LEMMA Recording ==
  ASSUME Base, [Next]_vars
  PROVE  /\ lapsed \subseteq lapsed'
         /\ \A x \in Scopes :
              \/ record'[x] = record[x]
              \/ record'[x] = NoJob /\ x \in lapsed'
              \/ \E r \in Requests : /\ Insert(r) /\ Keyed(r) /\ x = Scope(r)
                                     /\ record'[x] = r
         /\ \A r \in Requests : Insert(r) /\ Keyed(r) => record'[Scope(r)] = r
<1>. DEFINE Kept ==
       /\ lapsed \subseteq lapsed'
       /\ \A x \in Scopes :
            \/ record'[x] = record[x]
            \/ record'[x] = NoJob /\ x \in lapsed'
            \/ \E r \in Requests : Insert(r) /\ Keyed(r) /\ x = Scope(r) /\ record'[x] = r
<1>0. record \in [Scopes -> Requests \cup {NoJob}]
  BY DEF Base, TypeOK
<1>1. ASSUME NEW r \in Requests, Insert(r)
      PROVE  Kept /\ (Keyed(r) => record'[Scope(r)] = r)
  <2>1. lapsed' = lapsed /\ req[r].stage = "insert"
        /\ record' = IF Keyed(r) THEN [record EXCEPT ![Scope(r)] = r] ELSE record
    BY <1>1 DEF Insert
  <2>2. CASE Keyed(r)
    <3>1. Scope(r) \in Scopes
      BY <2>1, <2>2, Scoped
    <3>2. record'[Scope(r)] = r /\ \A x \in Scopes \ {Scope(r)} : record'[x] = record[x]
      BY <1>0, <2>1, <2>2, <3>1
    <3>. QED  BY <1>1, <2>1, <2>2, <3>2
  <2>3. CASE ~Keyed(r)
    BY <2>1, <2>3
  <2>. QED  BY <2>2, <2>3
<1>2. ASSUME UNCHANGED <<record, lapsed>> PROVE Kept
  BY <1>2
<1>3. ASSUME NEW r \in Requests,
             \/ \E a \in Asks : Arrive(r, a)
             \/ Stay(r) \/ Move(r) \/ Respond(r) \/ Plain(r) \/ QueueDown(r)
             \/ Reading(r) \/ Minute(r)
      PROVE  UNCHANGED <<record, lapsed>>
  <2>1. CASE \E a \in Asks : Arrive(r, a)
    BY <2>1 DEF Arrive, admission
  <2>2. CASE Stay(r) \/ Move(r) \/ Respond(r) \/ QueueDown(r) \/ Minute(r)
    BY <2>2 DEF Stay, Move, Respond, QueueDown, Minute, admission
  <2>3. CASE Plain(r)
    BY <2>3, PlainSteps DEF admission
  <2>4. CASE Reading(r)
    BY <2>4, ReadingSteps DEF admission
  <2>. QED  BY <1>3, <2>1, <2>2, <2>3, <2>4
<1>4. ASSUME NEW x \in Scopes, Lapse(x) PROVE Kept
  BY <1>0, <1>4 DEF Lapse
<1>5. ASSUME (\E s \in Sessions : Expire(s)) \/ CacheLost \/ SweepDocument \/ UNCHANGED vars
      PROVE  UNCHANGED <<record, lapsed>>
  BY <1>5 DEF Expire, CacheLost, SweepDocument, admission, vars
<1>6. ASSUME DeleteSessions PROVE Kept
  BY <1>6 DEF DeleteSessions
<1>7. Kept
  BY <1>1, <1>2, <1>3, <1>4, <1>5, <1>6, Kinds DEF Aside
<1>. QED  BY <1>1, <1>7

\* How a request comes to be answered with a job.
LEMMA Answering ==
  ASSUME Base, [Next]_vars, NEW r \in Requests,
         answer'[r] # answer[r], answer'[r] \in Requests
  PROVE  /\ req'[r].stage = "respond" /\ Asked(r)' = Asked(r)
         /\ req'[r].session = req[r].session /\ UNCHANGED <<record, lapsed>>
         /\ \/ /\ Replay(r) /\ answer'[r] = record[Scope(r)]
               /\ Asked(answer'[r]).payload = Asked(r).payload
            \/ Publish(r) /\ answer'[r] = r
<1>. USE DEF Asked
<1>0. /\ answer \in [Requests -> Requests \cup {NoJob, "refused", "error"}]
      /\ req \in [Requests -> Req]
  BY DEF Base, TypeOK, Req
<1>1. ASSUME NEW t \in Requests,
             \/ \E a \in Asks : Arrive(t, a)
             \/ Stay(t) \/ Move(t) \/ Respond(t) \/ Insert(t) \/ Reading(t) \/ Minute(t)
      PROVE  answer' = answer
  <2>1. CASE \E a \in Asks : Arrive(t, a)
    BY <2>1 DEF Arrive
  <2>2. CASE Stay(t) \/ Move(t) \/ Respond(t) \/ Insert(t) \/ Minute(t)
    BY <2>2 DEF Stay, Move, Respond, Insert, Minute
  <2>3. CASE Reading(t)
    BY <2>3, ReadingSteps
  <2>. QED  BY <1>1, <2>1, <2>2, <2>3
<1>2. ASSUME (\E s \in Sessions : Expire(s)) \/ DeleteSessions \/ Aside \/ UNCHANGED vars
      PROVE  answer' = answer
  BY <1>2, Expiring, AsideSteps DEF DeleteSessions, vars
<1>3. ASSUME NEW t \in Requests, NEW what, answer' = [answer EXCEPT ![t] = what]
      PROVE  t = r /\ what = answer'[r]
  BY <1>0, <1>3
<1>4. ASSUME NEW t \in Requests, QueueDown(t) PROVE FALSE
  <2>1. answer' = [answer EXCEPT ![t] = "error"]
    BY <1>4 DEF QueueDown, Answer
  <2>. QED  BY <1>3, <2>1, NamesAssumption
<1>5. ASSUME NEW t \in Requests, Broken(t) PROVE FALSE
  <2>1. answer' = [answer EXCEPT ![t] = "error"]
    BY <1>5 DEF Broken
  <2>. QED  BY <1>3, <2>1, NamesAssumption
<1>6. ASSUME NEW t \in Requests, InsertFails(t) PROVE FALSE
  <2>1. answer' = [answer EXCEPT ![t] = "error"]
    BY <1>6 DEF InsertFails, Answer
  <2>. QED  BY <1>3, <2>1, NamesAssumption
<1>7. ASSUME NEW t \in Requests, Decide(t) PROVE FALSE
  <2>1. answer' = [answer EXCEPT ![t] = "refused"] \/ answer' = answer
    BY <1>7 DEF Decide, Answer
  <2>. QED  BY <1>3, <2>1, NamesAssumption
<1>11. ASSUME NEW t \in Requests, Look(t) PROVE FALSE
  <2>1. answer' = [answer EXCEPT ![t] = "refused"] \/ answer' = answer
    BY <1>11 DEF Look, Answer
  <2>. QED  BY <1>3, <2>1, NamesAssumption
<1>8. ASSUME NEW t \in Requests, Publish(t)
      PROVE  t = r /\ answer'[r] = r /\ Goes(r, "respond") /\ UNCHANGED <<record, lapsed>>
  <2>1. answer' = [answer EXCEPT ![t] = t] /\ Goes(t, "respond") /\ UNCHANGED <<record, lapsed>>
    BY <1>8 DEF Publish, Answer, admission
  <2>. QED  BY <1>3, <2>1
<1>9. ASSUME NEW t \in Requests, Replay(t)
      PROVE  /\ t = r /\ answer'[r] = record[Scope(r)] /\ Goes(r, "respond")
             /\ Asked(answer'[r]).payload = Asked(r).payload /\ UNCHANGED <<record, lapsed>>
  <2>. DEFINE j == record[Scope(t)]
              what == IF Asked(j).payload = Asked(t).payload THEN j ELSE "refused"
  <2>1. answer' = [answer EXCEPT ![t] = what] /\ Goes(t, "respond") /\ UNCHANGED <<record, lapsed>>
    BY <1>9 DEF Replay, Answer, admission
  <2>. HIDE DEF what
  <2>2. t = r /\ what = answer'[r]
    BY <1>3, <2>1
  <2>3. what # "refused"
    BY <2>2, NamesAssumption
  <2>. QED  BY <2>1, <2>2, <2>3 DEF what
<1>10. Goes(r, "respond") =>
         /\ req'[r].stage = "respond" /\ Asked(r)' = Asked(r)
         /\ req'[r].session = req[r].session
  BY <1>0, Going
<1>. QED  BY <1>1, <1>2, <1>4, <1>5, <1>6, <1>7, <1>8, <1>9, <1>10, <1>11, Kinds DEF Plain

\* A record that stands for a scope whose key has not lapsed is not overwritten: who
\* inserts found none.
LEMMA RecordStands ==
  ASSUME Base, RecordsHold, [Next]_vars, NEW x \in Scopes, x \notin lapsed',
         record[x] # NoJob
  PROVE  record'[x] = record[x]
<1>1. ASSUME NEW r \in Requests, Insert(r), Keyed(r), x = Scope(r) PROVE FALSE
  <2>1. req[r].stage = "insert"
    BY <1>1 DEF Insert
  <2>. QED  BY <1>1, <2>1 DEF RecordsHold
<1>. QED  BY <1>1, Recording

\* One record for a scope, from the first insertion until it is deleted.
LEMMA RecordsKept ==
  ASSUME Base, Alone, RecordsHold, [Next]_vars
  PROVE  RecordsHold'
<1>. USE DEF Asked, Keyed
<1>0. record \in [Scopes -> Requests \cup {NoJob}] /\ NoJob \notin Requests
  BY NamesAssumption DEF Base, TypeOK
<1>1. ASSUME NEW x \in Scopes, record'[x] # NoJob PROVE Placed(record[x])'
  <2>1. CASE record'[x] = record[x]
    <3>1. record[x] \in Requests /\ Placed(record[x])
      BY <1>0, <1>1, <2>1 DEF RecordsHold
    <3>2. Placed(record[x])'
      <4>1. ASSUME NEW q \in Requests, Placed(q), record'[x] = q PROVE Placed(record[x])'
        BY <4>1, PlacedStays DEF Placed
      <4>. QED  BY <2>1, <3>1, <4>1
    <3>. QED  BY <3>2
  <2>2. ASSUME NEW r \in Requests, Insert(r), record'[x] = r PROVE Placed(record[x])'
    BY <2>2, Inserting DEF Placed
  <2>. QED  BY <1>1, <2>1, <2>2, Recording
<1>2. ASSUME NEW r \in Requests, req'[r].stage = "insert", Keyed(r)'
      PROVE  record'[Scope(r)'] = NoJob
  <2>1. /\ Scope(r)' = Scope(r) /\ req[r].stage \in {"admit", "insert"} /\ Keyed(r)
        /\ record[Scope(r)] = NoJob
    <3>1. CASE req'[r] = req[r]
      BY <1>2, <3>1 DEF RecordsHold, Scope
    <3>2. CASE req'[r] # req[r]
      BY <1>2, <3>2, Entering DEF Decide, Known, Scope
    <3>. QED  BY <3>1, <3>2
  <2>2. Scope(r) \in Scopes
    BY <2>1, Scoped
  <2>3. ASSUME NEW q \in Requests, Insert(q), Keyed(q), Scope(r) = Scope(q) PROVE FALSE
    <3>1. req[q].stage = "insert" /\ req'[q].stage = "publish"
      BY <2>3, Inserting DEF Insert
    <3>2. req'[r] = req[r] /\ q # r
      <4>1. q # r
        BY <1>2, <3>1
      <4>. QED  BY <2>3, <4>1, Inserting
    <3>3. /\ req[q].session = req[r].session /\ Asked(q).kind = Asked(r).kind
          /\ Asked(q).key = Asked(r).key
      BY <2>3 DEF Scope
    <3>4. Asked(q).kind \in {"generate", "upload"}
      BY <3>1, UnderWay, NamesAssumption DEF Base
    <3>. QED  BY <1>2, <2>1, <3>1, <3>2, <3>3, <3>4 DEF Alone
  <2>. QED  BY <2>1, <2>2, <2>3, Recording
<1>3. ASSUME NEW r \in Requests, req'[r].stage = "publish", Keyed(r)', Scope(r)' \notin lapsed'
      PROVE  record'[Scope(r)'] = r
  <2>1. CASE req'[r] = req[r]
    <3>1. req[r].stage = "publish" /\ Keyed(r) /\ Scope(r)' = Scope(r)
      BY <1>3, <2>1 DEF Scope
    <3>2. Scope(r) \in Scopes /\ Scope(r) \notin lapsed
      BY <1>3, <3>1, Scoped, Recording
    <3>3. record[Scope(r)] = r
      BY <3>1, <3>2 DEF RecordsHold
    <3>. QED  BY <1>0, <1>3, <3>1, <3>2, <3>3, RecordStands
  <2>2. CASE req'[r] # req[r]
    <3>1. Insert(r) /\ Keyed(r) /\ Scope(r)' = Scope(r)
      BY <1>3, <2>2, Entering DEF Scope
    <3>. QED  BY <3>1, Recording
  <2>. QED  BY <2>1, <2>2
<1>4. ASSUME NEW r \in Requests, answer'[r] \in Requests
      PROVE  /\ req'[r].stage \in {"respond", "done"}
             /\ Keyed(r)' /\ Scope(r)' \notin lapsed' =>
                  /\ Scope(r)' \in Scopes /\ record'[Scope(r)'] = answer'[r]
                  /\ Asked(answer[r])'.payload = Asked(r)'.payload
  <2>1. CASE answer'[r] = answer[r]
    <3>1. req[r].stage \in {"respond", "done"}
      BY <1>4, <2>1 DEF RecordsHold
    <3>2. req'[r].stage \in {"respond", "done"}
      <4>1. Placed(r)'
        BY <3>1, PlacedStays DEF Placed
      <4>. QED  BY <3>1, <4>1, Entering DEF Placed
    <3>3. Asked(r)' = Asked(r) /\ Scope(r)' = Scope(r)
      BY <3>1, PlacedStays DEF Placed, Scope
    <3>4. ASSUME Keyed(r)', Scope(r)' \notin lapsed'
          PROVE  /\ Scope(r)' \in Scopes /\ record'[Scope(r)'] = answer'[r]
                 /\ Asked(answer[r])'.payload = Asked(r)'.payload
      <4>1. Keyed(r) /\ Scope(r) \notin lapsed
        BY <3>3, <3>4, Recording
      <4>2. /\ Scope(r) \in Scopes /\ record[Scope(r)] = answer[r]
            /\ Asked(answer[r]).payload = Asked(r).payload
        BY <1>4, <2>1, <4>1 DEF RecordsHold
      <4>3. record'[Scope(r)] = answer[r]
        BY <1>0, <1>4, <2>1, <3>3, <3>4, <4>2, RecordStands
      <4>4. Asked(answer[r])' = Asked(answer[r])
        <5>1. answer[r] \in Requests /\ Placed(answer[r])
          BY <1>0, <1>4, <2>1, <4>2 DEF RecordsHold
        <5>2. ASSUME NEW q \in Requests, Placed(q) PROVE req'[q].ask = req[q].ask
          BY <5>2, PlacedStays
        <5>. QED  BY <2>1, <5>1, <5>2
      <4>. QED  BY <2>1, <3>3, <4>2, <4>3, <4>4
    <3>. QED  BY <3>2, <3>4
  <2>2. CASE answer'[r] # answer[r]
    <3>1. /\ req'[r].stage = "respond" /\ Asked(r)' = Asked(r) /\ Scope(r)' = Scope(r)
          /\ UNCHANGED <<record, lapsed>>
      BY <1>4, <2>2, Answering DEF Scope
    <3>2. ASSUME Replay(r), answer'[r] = record[Scope(r)],
                 Asked(answer'[r]).payload = Asked(r).payload
          PROVE  /\ Scope(r)' \in Scopes /\ record'[Scope(r)'] = answer'[r]
                 /\ Asked(answer[r])'.payload = Asked(r)'.payload
      <4>1. Scope(r) \in Scopes
        BY <3>2, Scoped DEF Replay, Known
      <4>2. Placed(answer'[r])
        BY <1>0, <1>4, <3>2, <4>1 DEF RecordsHold
      <4>3. ASSUME NEW q \in Requests, Placed(q) PROVE req'[q].ask = req[q].ask
        BY <4>3, PlacedStays
      <4>. QED  BY <1>4, <3>1, <3>2, <4>1, <4>2, <4>3
    <3>3. ASSUME Publish(r), answer'[r] = r, Keyed(r)', Scope(r)' \notin lapsed'
          PROVE  /\ Scope(r)' \in Scopes /\ record'[Scope(r)'] = answer'[r]
                 /\ Asked(answer[r])'.payload = Asked(r)'.payload
      <4>1. req[r].stage = "publish" /\ Keyed(r) /\ Scope(r) \notin lapsed
        BY <3>1, <3>3 DEF Publish
      <4>2. Scope(r) \in Scopes /\ record[Scope(r)] = r
        BY <4>1, Scoped DEF RecordsHold
      <4>. QED  BY <3>1, <3>3, <4>2
    <3>. QED  BY <1>4, <2>2, <3>1, <3>2, <3>3, Answering
  <2>. QED  BY <2>1, <2>2
<1>. QED  BY <1>1, <1>2, <1>3, <1>4 DEF RecordsHold

\* A job is counted in a session because it was, or because it is inserted.
LEMMA Counting ==
  ASSUME Base, JobsBelong, [Next]_vars, NEW s \in Sessions, NEW j \in Requests,
         j \in JobsOf(s)'
  PROVE  \/ Insert(j) /\ Asked(j).kind = "generate" /\ req[j].session = s
         \/ /\ j \in JobsOf(s)
            /\ job'[j].state \in Active => job[j].state \in Active
            /\ job'[j].recent => job[j].recent
<1>. USE DEF Asked
<1>1. job'[j].session = s /\ job'[j].state # "gone" /\ req'[j].ask.kind = "generate"
  BY DEF JobsOf
<1>2. CASE Insert(j)
  BY <1>1, <1>2, Inserting
<1>3. CASE ~Insert(j)
  <2>1. /\ job[j].session = s /\ job[j].state # "gone"
        /\ job'[j].state \in Active => job[j].state \in Active
        /\ job'[j].recent => job[j].recent
    <3>1. CASE job'[j] = job[j]
      BY <1>1, <3>1
    <3>2. CASE Follows(j)
      BY <1>1, <3>2, HomeIsOne DEF Follows, Active
    <3>. QED  BY <1>3, <3>1, <3>2, Following
  <2>2. Placed(j)
    BY <2>1, HomeIsOne DEF JobsBelong, Exists
  <2>. QED  BY <1>1, <2>1, <2>2, PlacedStays DEF JobsOf
<1>. QED  BY <1>2, <1>3

\* A set with one more element.
LEMMA OneMore ==
  ASSUME NEW S, IsFiniteSet(S), NEW x, NEW T \in SUBSET (S \cup {x})
  PROVE  /\ IsFiniteSet(T) /\ Cardinality(T) \in Nat
         /\ Cardinality(T) <= Cardinality(S) + 1
<1>1. Cardinality(S) \in Nat
  BY FS_CardinalityType
<1>2. /\ IsFiniteSet(S \cup {x})
      /\ Cardinality(S \cup {x}) = IF x \in S THEN Cardinality(S) ELSE Cardinality(S) + 1
  BY FS_AddElement
<1>3. IsFiniteSet(T) /\ Cardinality(T) <= Cardinality(S \cup {x})
  BY <1>2, FS_Subset
<1>4. Cardinality(T) \in Nat
  BY <1>3, FS_CardinalityType
<1>. QED  BY <1>1, <1>2, <1>3, <1>4

\* The limits hold, because what was counted under the lock is still so at the insertion.
LEMMA LimitsKept ==
  ASSUME Base, JobsBelong, Alone, Limits, [Next]_vars
  PROVE  Limits'
<1>. USE DEF Asked
<1>1. ASSUME NEW s \in Sessions
      PROVE  /\ IsFiniteSet(JobsOf(s)) /\ IsFiniteSet(ActiveJobs(s)) /\ IsFiniteSet(RecentJobs(s))
             /\ Cardinality(ActiveJobs(s)) \in Nat /\ Cardinality(RecentJobs(s)) \in Nat
             /\ Cardinality(ActiveJobs(s)) <= MaxActive
             /\ Cardinality(RecentJobs(s)) <= PerMinute
  <2>1. /\ IsFiniteSet(JobsOf(s))
        /\ ActiveJobs(s) \in SUBSET JobsOf(s) /\ RecentJobs(s) \in SUBSET JobsOf(s)
    BY DEF Limits, ActiveJobs, RecentJobs
  <2>2. IsFiniteSet(ActiveJobs(s)) /\ IsFiniteSet(RecentJobs(s))
    BY <2>1, FS_Subset
  <2>. QED  BY <2>1, <2>2, FS_CardinalityType DEF Limits, LimitsHold
\* Without an insertion the sets can only shrink.
<1>2. ASSUME NEW s \in Sessions,
             \A r \in Requests :
               ~(Insert(r) /\ Asked(r).kind = "generate" /\ req[r].session = s)
      PROVE  /\ IsFiniteSet(JobsOf(s)')
             /\ Cardinality(ActiveJobs(s)') <= Cardinality(ActiveJobs(s))
             /\ Cardinality(RecentJobs(s)') <= Cardinality(RecentJobs(s))
             /\ Cardinality(ActiveJobs(s)') \in Nat /\ Cardinality(RecentJobs(s)') \in Nat
  <2>1. JobsOf(s)' \subseteq Requests
    BY DEF JobsOf
  <2>2. /\ JobsOf(s)' \in SUBSET JobsOf(s)
        /\ ActiveJobs(s)' \in SUBSET ActiveJobs(s)
        /\ RecentJobs(s)' \in SUBSET RecentJobs(s)
    BY <1>2, <2>1, Counting DEF ActiveJobs, RecentJobs
  <2>3. /\ IsFiniteSet(JobsOf(s)') /\ IsFiniteSet(ActiveJobs(s)') /\ IsFiniteSet(RecentJobs(s)')
        /\ Cardinality(ActiveJobs(s)') <= Cardinality(ActiveJobs(s))
        /\ Cardinality(RecentJobs(s)') <= Cardinality(RecentJobs(s))
    BY <1>1, <2>2, FS_Subset
  <2>. QED  BY <2>3, FS_CardinalityType
\* An insertion finds room, and makes one job.
<1>3. ASSUME NEW s \in Sessions, NEW r \in Requests,
             Insert(r), Asked(r).kind = "generate", req[r].session = s
      PROVE  /\ IsFiniteSet(JobsOf(s)')
             /\ Cardinality(ActiveJobs(s)') <= MaxActive
             /\ Cardinality(RecentJobs(s)') <= PerMinute
  <2>1. req[r].stage = "insert"
    BY <1>3 DEF Insert
  <2>2. /\ Cardinality(ActiveJobs(s)) < MaxActive
        /\ Cardinality(RecentJobs(s)) < PerMinute
    BY <1>3, <2>1 DEF Limits
  <2>3. ASSUME NEW j \in Requests, j # r PROVE ~Insert(j)
    <3>1. req'[j] = req[j]
      BY <1>3, <2>3, Inserting
    <3>. QED  BY <3>1, Inserting DEF Insert
  <2>4. JobsOf(s)' \subseteq Requests
    BY DEF JobsOf
  <2>5. \A j \in JobsOf(s)' : \/ j = r
                              \/ /\ j \in JobsOf(s)
                                 /\ job'[j].state \in Active => job[j].state \in Active
                                 /\ job'[j].recent => job[j].recent
    BY <2>3, <2>4, Counting
  <2>6. JobsOf(s)' \in SUBSET (JobsOf(s) \cup {r})
    BY <2>5
  <2>7. ActiveJobs(s)' \in SUBSET (ActiveJobs(s) \cup {r})
    BY <2>5 DEF ActiveJobs, Active
  <2>8. RecentJobs(s)' \in SUBSET (RecentJobs(s) \cup {r})
    BY <2>5 DEF RecentJobs
  <2>9. IsFiniteSet(JobsOf(s)')
    BY <1>1, <2>6, OneMore
  <2>10. Cardinality(ActiveJobs(s)') <= MaxActive
    BY <1>1, <2>2, <2>7, OneMore, LimitsAssumption
  <2>11. Cardinality(RecentJobs(s)') <= PerMinute
    BY <1>1, <2>2, <2>8, OneMore, LimitsAssumption
  <2>. QED  BY <2>9, <2>10, <2>11
<1>4. ASSUME NEW s \in Sessions
      PROVE  /\ IsFiniteSet(JobsOf(s)')
             /\ Cardinality(ActiveJobs(s)') <= MaxActive
             /\ Cardinality(RecentJobs(s)') <= PerMinute
  <2>1. CASE \E r \in Requests :
               Insert(r) /\ Asked(r).kind = "generate" /\ req[r].session = s
    BY <1>3, <2>1
  <2>2. CASE \A r \in Requests :
               ~(Insert(r) /\ Asked(r).kind = "generate" /\ req[r].session = s)
    BY <1>1, <1>2, <2>2, LimitsAssumption
  <2>. QED  BY <2>1, <2>2
\* Room that was found is there until the insertion.
<1>5. ASSUME NEW r \in Requests, req'[r].stage = "insert", Asked(r)'.kind = "generate",
             NEW s, req'[r].session = s
      PROVE  /\ Cardinality(ActiveJobs(s)') < MaxActive
             /\ Cardinality(RecentJobs(s)') < PerMinute
  <2>1. /\ Asked(r)' = Asked(r) /\ req[r].session = s /\ s \in Sessions
        /\ Cardinality(ActiveJobs(s)) < MaxActive
        /\ Cardinality(RecentJobs(s)) < PerMinute
    <3>1. CASE req'[r] = req[r]
      BY <1>5, <3>1, UnderWay DEF Limits
    <3>2. CASE req'[r] # req[r]
      BY <1>5, <3>2, Entering, UnderWay DEF Decide, Admissible
    <3>. QED  BY <3>1, <3>2
  <2>2. ASSUME NEW q \in Requests, Insert(q), Asked(q).kind = "generate", req[q].session = s
        PROVE  FALSE
    <3>1. req[q].stage = "insert" /\ req'[q].stage = "publish"
      BY <2>2, Inserting DEF Insert
    <3>2. q # r /\ req'[r] = req[r]
      <4>1. q # r
        BY <1>5, <3>1
      <4>. QED  BY <2>2, <4>1, Inserting
    <3>. QED  BY <1>5, <2>1, <2>2, <3>1, <3>2 DEF Alone
  <2>3. /\ Cardinality(ActiveJobs(s)') <= Cardinality(ActiveJobs(s))
        /\ Cardinality(RecentJobs(s)') <= Cardinality(RecentJobs(s))
        /\ Cardinality(ActiveJobs(s)') \in Nat /\ Cardinality(RecentJobs(s)') \in Nat
    BY <1>2, <2>1, <2>2
  <2>. QED  BY <1>1, <2>1, <2>3, LimitsAssumption
<1>6. ASSUME NEW r \in Requests, req'[r].stage = "insert", Asked(r)'.kind = "generate"
      PROVE  /\ Cardinality(ActiveJobs(req[r].session)') < MaxActive
             /\ Cardinality(RecentJobs(req[r].session)') < PerMinute
  BY <1>5, <1>6
<1>. QED  BY <1>4, <1>6 DEF Limits, LimitsHold

-----------------------------------------------------------------------------
(* The theorems.                                                           *)

\* The invariant is inductive.
LEMMA Holds == Spec => []IInv
<1>1. Init => IInv
  <2>1. ASSUME Init PROVE IInv
    <3>. USE <2>1, NamesAssumption, HomeIsOne
    <3>1. Base
      BY Initial
    <3>2. /\ \A r \in Requests : req[r] = Idle /\ answer[r] = NoJob
          /\ \A j \in Requests : job[j] = NotAJob("none")
          /\ \A x \in Scopes : record[x] = NoJob
          /\ chunks = Home
      BY DEF Init
    <3>3. \A r \in Requests : req[r].stage = "idle"
      BY <3>2 DEF Idle
    <3>4. \A j \in Requests : job[j].state = "none" /\ job[j].session = NoSession
      BY <3>2 DEF NotAJob
    <3>5. Belongs /\ JobsBelong /\ Material /\ Served /\ Alone
      BY <3>2, <3>3, <3>4 DEF Belongs, JobsBelong, Material, Served, Alone, Exists, Reads, Own
    <3>6. RecordsHold
      BY <3>2, <3>3 DEF RecordsHold
    <3>7. ASSUME NEW s \in Sessions
          PROVE  /\ IsFiniteSet(JobsOf(s))
                 /\ Cardinality(ActiveJobs(s)) = 0 /\ Cardinality(RecentJobs(s)) = 0
      <4>1. JobsOf(s) = {} /\ ActiveJobs(s) = {} /\ RecentJobs(s) = {}
        BY <3>4 DEF JobsOf, ActiveJobs, RecentJobs
      <4>. QED  BY <4>1, FS_EmptySet
    <3>8. Limits
      BY <3>3, <3>7, LimitsAssumption DEF Limits, LimitsHold
    <3>. QED  BY <3>1, <3>5, <3>6, <3>8 DEF IInv
  <2>. QED  BY <2>1
<1>2. IInv /\ [Next]_vars => IInv'
  BY BaseKept, BelongsKept, JobsBelongKept, MaterialKept, ServedKept, AloneKept, RecordsKept,
     LimitsKept DEF IInv
<1>. QED  BY <1>1, <1>2, PTL DEF Spec

\* The variables keep their types, whatever the interleaving of requests, workers, clock
\* and sweep.
THEOREM TypesHold == Spec => []TypeOK
<1>1. IInv => TypeOK
  BY DEF IInv, Base
<1>. QED  BY <1>1, Holds, PTL

\* create_generation_job and create_document_with_job_idempotent: with any number of
\* requests of one session in their transactions, its jobs stay within both limits, and one
\* key stands for one job until its record is deleted.
THEOREM AdmissionHolds == Spec => []Admitted
<1>1. IInv => Admitted
  <2>1. ASSUME IInv PROVE LimitsHold
    BY <2>1 DEF IInv, Limits
  <2>2. ASSUME IInv, NEW r \in Requests, NEW t \in Requests,
               {answer[r], answer[t]} \subseteq Requests,
               Keyed(r), Scope(r) = Scope(t), Scope(r) \notin lapsed
        PROVE  answer[r] = answer[t] /\ Asked(r).payload = Asked(t).payload
    <3>1. Keyed(t)
      BY <2>2 DEF Keyed, Scope
    <3>. QED  BY <2>2, <3>1 DEF IInv, RecordsHold
  <2>. QED  BY <2>1, <2>2 DEF Admitted, OneJobPerKey
<1>. QED  BY <1>1, Holds, PTL

\* claim_session and the session middleware: sign-in, sign-out and admission in any
\* interleaving leave each exam with the owner of its session, and only the uploader's own
\* sessions generate from the document or take over its chunks.
THEOREM MaterialIsOwn == Spec => []OwnMaterial
<1>1. IInv => OwnMaterial
  BY DEF IInv, JobsBelong, Material, OwnMaterial, Own, Exists
<1>. QED  BY <1>1, Holds, PTL

\* retrieve_selected: a job that is told to re-index the document lost its chunks to
\* another session's job, or the document or its artefact is gone.
THEOREM ServedOrCrossed == Spec => []ServedUnlessCrossed
<1>1. IInv => ServedUnlessCrossed
  BY DEF IInv, Served, ServedUnlessCrossed
<1>. QED  BY <1>1, Holds, PTL
=============================================================================
