--------------------------- MODULE SessionsProofs ---------------------------
(* Proofs about Sessions, for every number of sessions, of requests and of   *)
(* logouts under way: the types, that a token is used once, that a logout    *)
(* from everywhere is for good, and that tabs do not log their user out.     *)
EXTENDS Sessions, TLAPS

SessionType == [status : {"none", "live", "expired", "revoked"},
                aged : BOOLEAN, assumed : BOOLEAN, rotatedFrom : SessionIds \cup {None},
                root : SessionIds \cup {None}, login : SessionIds \cup {None}]

BareType == [pc : {"admitted", "sweep"}, session : SessionIds]
RefreshType == [pc : {"claim", "gate", "converge"}, session : SessionIds, revoked : BOOLEAN]
AlarmType == [pc : {"stamp"}, session : SessionIds, found : SUBSET SessionIds]
MinterType == [pc : {"reread", "exit"}, session : SessionIds, minted : SessionIds]
RequestType == {Idle} \cup BareType \cup RefreshType \cup AlarmType \cup MinterType
StamperType == {Idle} \cup [pc : {"stamp", "revoke"}, found : SUBSET SessionIds]

Shape ==
  /\ session \in [SessionIds -> SessionType]
  /\ request \in [Requests -> RequestType]
  /\ stamper \in [Stampers -> StamperType]
  /\ {stamp, known, over, escaped, ended} \subseteq SUBSET SessionIds

Root(q) == session[request[q].session].root
Gate == {q \in Requests : request[q].pc = "gate"}

(* A lineage has one token: a session that is not revoked, or a request that *)
(* claimed its last one and is between the claim and the mint.               *)
OneToken ==
  /\ \A s, t \in Unrevoked : session[s].root = session[t].root => s = t
  /\ \A q \in Gate, s \in Unrevoked : session[s].root # Root(q)
  /\ \A q, r \in Gate : Root(q) = Root(r) => q = r
  /\ \A q \in Gate : /\ session[request[q].session].status = "revoked"
                     /\ \A t \in Made : session[t].rotatedFrom # request[q].session
  /\ \A s, t \in Made : session[s].rotatedFrom = session[t].rotatedFrom
                          => s = t \/ session[s].rotatedFrom = None

(* What a request has minted.  No client was given what an exit minted.      *)
Exits == {q \in Requests : request[q].pc = "exit"}

Mints ==
  /\ \A q \in Requests : request[q].pc = "reread" =>
       session[request[q].minted].rotatedFrom = request[q].session
  /\ \A q \in Exits :
       LET t == request[q].minted
       IN  /\ session[t].rotatedFrom = None /\ session[t].root = t /\ t \notin known
           /\ t \in Unrevoked \cup ended
  /\ \A q, r \in Exits : request[q].minted = request[r].minted => q = r

(* An instant has, with a session, the ones it was rotated from.             *)
Instant(F) ==
  F \subseteq Made /\ \A s \in F : session[s].rotatedFrom # None => session[s].rotatedFrom \in F

Instants ==
  /\ Instant(stamp)
  /\ \A l \in Stampers : stamper[l].pc # "idle" => Instant(stamper[l].found)
  /\ \A q \in Requests : request[q].pc = "stamp" => Instant(request[q].found)

(* The sessions that a logout, over or not, has stamped, ...                 *)
Found == over \cup UNION {stamper[l].found : l \in {k \in Stampers : stamper[k].pc = "revoke"}}

(* ... those that are, or may yet be, in the hands of a client, ...          *)
Given == known \cup {s \in Made : session[s].rotatedFrom = None}

(* ... and what escapes the stamp: whatever goes back to a login that was    *)
(* found, and neither predates the stamp nor waits for its minter to read it.*)
Stamps ==
  /\ Instants
  /\ \A s \in stamp : session[s].root \in ended
  /\ \A t \in Made : session[t].rotatedFrom \in escaped \ stamp => t \in escaped
  /\ \A s \in Given \ stamp : session[s].login \in Found => s \in escaped
  /\ \A s \in Given \cap Unrevoked : session[s].login \in over => s \in escaped

SInv == Shape /\ TypeOK /\ OneToken /\ Mints /\ Stamps /\ LineageKept
USE SessionsAssumption

-----------------------------------------------------------------------------
(* What the operators do to the sessions: a new one, ...                     *)
LEMMA NewEffect ==
  ASSUME Shape, NEW t \in SessionIds, session[t].status = "none",
         NEW from \in SessionIds \cup {None}, NEW root \in SessionIds, NEW login \in SessionIds,
         NEW assumed \in BOOLEAN,
         session' = [session EXCEPT ![t] = generateTokens(from, root, login, assumed)]
  PROVE  /\ session' \in [SessionIds -> SessionType]
         /\ session'[t].status = "live" /\ ~session'[t].aged
         /\ session'[t].rotatedFrom = from /\ session'[t].root = root
         /\ session'[t].login = login /\ session'[t].assumed = assumed
         /\ \A s \in SessionIds \ {t} : session'[s] = session[s]
         /\ t \notin Made /\ Made' = Made \cup {t} /\ Unrevoked' = Unrevoked \cup {t}
<1> DEFINE r == generateTokens(from, root, login, assumed)
<1>1. /\ r \in SessionType /\ r.status = "live" /\ ~r.aged
      /\ r.rotatedFrom = from /\ r.root = root /\ r.login = login /\ r.assumed = assumed
  BY DEF generateTokens, NoSession, SessionType
<1> HIDE DEF r
<1>2. session' = [session EXCEPT ![t] = r]
  BY DEF r
<1>3. session' \in [SessionIds -> SessionType] /\ session'[t] = r
      /\ \A s \in SessionIds \ {t} : session'[s] = session[s]
  BY <1>1, <1>2 DEF Shape
<1> QED BY <1>1, <1>3 DEF Made, Unrevoked

(* ... and a revocation.                                                     *)
LEMMA RevokedEffect ==
  ASSUME Shape, NEW S \in SUBSET SessionIds, session' = Revoked(S)
  PROVE  /\ session' \in [SessionIds -> SessionType]
         /\ \A s \in SessionIds :
              /\ session'[s].status = IF s \in S \cap Unrevoked THEN "revoked" ELSE session[s].status
              /\ session'[s].login = session[s].login /\ session'[s].aged = session[s].aged
              /\ session'[s].rotatedFrom = session[s].rotatedFrom
              /\ session'[s].root = session[s].root /\ session'[s].assumed = session[s].assumed
         /\ Made' = Made /\ Unrevoked' = Unrevoked \ S
<1> DEFINE row(s) == [session[s] EXCEPT !.status = "revoked"]
<1>1. \A s \in SessionIds :
        /\ row(s) \in SessionType /\ row(s).status = "revoked"
        /\ row(s).login = session[s].login /\ row(s).aged = session[s].aged
        /\ row(s).rotatedFrom = session[s].rotatedFrom
        /\ row(s).root = session[s].root /\ row(s).assumed = session[s].assumed
  BY DEF Shape, SessionType
<1>2. session' = [s \in SessionIds |-> IF s \in S \cap Unrevoked THEN row(s) ELSE session[s]]
  BY DEF Revoked
<1> HIDE DEF row
<1>3. /\ session' \in [SessionIds -> SessionType]
      /\ \A s \in SessionIds :
           /\ session'[s].status = IF s \in S \cap Unrevoked THEN "revoked" ELSE session[s].status
           /\ session'[s].login = session[s].login /\ session'[s].aged = session[s].aged
           /\ session'[s].rotatedFrom = session[s].rotatedFrom
           /\ session'[s].root = session[s].root /\ session'[s].assumed = session[s].assumed
  BY <1>1, <1>2 DEF Shape
<1>4. Made' = Made /\ Unrevoked' = Unrevoked \ S
  BY <1>3 DEF Made, Unrevoked
<1> QED BY <1>3, <1>4

-----------------------------------------------------------------------------
(* Most steps are tame: no session is minted, what is revoked stays revoked, *)
(* and no request starts to mint.                                            *)
Same(s) ==
  /\ session'[s].rotatedFrom = session[s].rotatedFrom
  /\ session'[s].root = session[s].root
  /\ session'[s].login = session[s].login
  /\ session'[s].assumed = session[s].assumed

Tame ==
  /\ session' \in [SessionIds -> SessionType]
  /\ \A s \in SessionIds :
       /\ Same(s)
       /\ session[s].status = "revoked" => session'[s].status = "revoked"
       /\ session'[s].aged => session'[s].status = "revoked"
  /\ Made' = Made /\ Unrevoked' \subseteq Unrevoked
  /\ \A s \in Unrevoked \ Unrevoked' : session[s].root \in ended' \/ s \in known
  /\ request' \in [Requests -> RequestType]
  /\ \A q \in Requests :
       \/ request'[q] = request[q]
       \/ /\ request'[q].pc \in {"idle", "admitted", "claim", "gate", "converge", "stamp", "sweep"}
          /\ request'[q].pc # "idle" => request'[q].session \in known
  /\ \A q \in Requests : request'[q].pc = "exit" => request[q].minted \notin known'
  /\ stamper' \in [Stampers -> StamperType]
  /\ known \subseteq known' /\ {stamp', known', over', escaped'} \subseteq SUBSET Made
  /\ ended \subseteq ended' /\ ended' \subseteq SessionIds

LEMMA TameBasics ==
  ASSUME SInv, Tame
  PROVE  Shape' /\ TypeOK' /\ Mints'
<1> USE DEF SInv, Tame
<1>1. Shape'
  BY DEF Shape, TypeOK, Made
<1>2. TypeOK'
  <2>1. ASSUME NEW s \in SessionIds
        PROVE  /\ session'[s].status \in {"none", "live", "expired", "revoked"}
               /\ {session'[s].aged, session'[s].assumed} \subseteq BOOLEAN
               /\ session'[s].aged => session'[s].status = "revoked"
    BY <2>1 DEF SessionType
  <2>2. ASSUME NEW s \in SessionIds
        PROVE  /\ s \in Made' => {session'[s].root, session'[s].login} \subseteq Made'
               /\ session'[s].rotatedFrom # None =>
                    LET p == session'[s].rotatedFrom
                    IN  /\ session'[p].status = "revoked"
                        /\ session'[p].root = session'[s].root
                        /\ session'[p].login = session'[s].login
                        /\ session'[s].assumed => session'[p].assumed
    <3>1. session[s].rotatedFrom \in SessionIds \cup {None}
      BY DEF Shape, SessionType
    <3>2. s \in Made' => {session'[s].root, session'[s].login} \subseteq Made'
      BY DEF TypeOK, Same
    <3>3. ASSUME session'[s].rotatedFrom # None
          PROVE  LET p == session'[s].rotatedFrom
                 IN  /\ session'[p].status = "revoked"
                     /\ session'[p].root = session'[s].root
                     /\ session'[p].login = session'[s].login
                     /\ session'[s].assumed => session'[p].assumed
      <4> DEFINE p == session[s].rotatedFrom
      <4>1. session'[s].rotatedFrom = p /\ p \in SessionIds /\ Same(s) /\ Same(p)
        BY <3>1, <3>3 DEF Same
      <4>2. /\ session[p].status = "revoked" /\ session[p].root = session[s].root
            /\ session[p].login = session[s].login
            /\ session[s].assumed => session[p].assumed
        BY <3>3, <4>1 DEF TypeOK
      <4>3. session'[p].status = "revoked"
        BY <4>1, <4>2
      <4> QED BY <4>1, <4>2, <4>3 DEF Same
    <3> QED BY <3>2, <3>3
  <2>3. ASSUME NEW q \in Requests
        PROVE  /\ request'[q].pc \in {"idle", "admitted", "claim", "gate", "reread", "converge",
                                      "stamp", "sweep", "exit"}
               /\ request'[q].pc # "idle" => request'[q].session \in known'
               /\ request'[q].pc \in {"reread", "exit"} => request'[q].minted \in Made'
    BY DEF TypeOK
  <2>4. /\ \A l \in Stampers : stamper'[l].pc \in {"idle", "stamp", "revoke"}
        /\ {stamp', known', over', escaped'} \subseteq SUBSET Made'
    BY DEF StamperType, Idle
  <2> QED BY <2>1, <2>2, <2>3, <2>4 DEF TypeOK
<1>3. Mints'
  <2>1. ASSUME NEW q \in Requests, request'[q].pc = "reread"
        PROVE  session'[request'[q].minted].rotatedFrom = request'[q].session
    <3>1. request'[q] = request[q] /\ request[q].minted \in SessionIds
      BY <2>1 DEF TypeOK, Made
    <3> QED BY <2>1, <3>1 DEF Mints, Same
  <2>2. ASSUME NEW q \in Requests, request'[q].pc = "exit"
        PROVE  LET t == request'[q].minted
               IN  /\ session'[t].rotatedFrom = None /\ session'[t].root = t /\ t \notin known'
                   /\ t \in Unrevoked' \cup ended'
    <3>1. request'[q] = request[q] /\ request[q].minted \in SessionIds
      BY <2>2 DEF TypeOK, Made
    <3> QED BY <2>2, <3>1 DEF Mints, Exits, Same
  <2>3. \A q, r \in Exits' : request'[q].minted = request'[r].minted => q = r
    BY DEF Mints, Exits
  <2> QED BY <2>1, <2>2, <2>3 DEF Mints, Exits
<1> QED BY <1>1, <1>2, <1>3

(* A tame step that lets no request claim keeps one token per lineage.       *)
LEMMA TameToken ==
  ASSUME SInv, Tame,
         \A q \in Requests : request'[q].pc = "gate" => request'[q] = request[q]
  PROVE  OneToken'
<1> USE DEF SInv, Tame
<1>1. \A q \in Gate' : q \in Gate /\ Root(q)' = Root(q) /\ request'[q].session = request[q].session
                      /\ request[q].session \in SessionIds
  BY DEF Gate, Root, TypeOK, Made, Same
<1>2. Unrevoked \subseteq SessionIds /\ Made \subseteq SessionIds
  BY DEF Unrevoked, Made
<1>3. \A s, t \in Unrevoked' : session'[s].root = session'[t].root => s = t
  BY <1>2 DEF OneToken, Same
<1>4. \A q \in Gate', s \in Unrevoked' : session'[s].root # Root(q)'
  BY <1>1, <1>2 DEF OneToken, Same
<1>5. \A q, r \in Gate' : Root(q)' = Root(r)' => q = r
  BY <1>1 DEF OneToken, Same
<1>6. \A q \in Gate' : /\ session'[request'[q].session].status = "revoked"
                       /\ \A t \in Made' : session'[t].rotatedFrom # request'[q].session
  BY <1>1, <1>2 DEF OneToken, Same
<1>7. \A s, t \in Made' : session'[s].rotatedFrom = session'[t].rotatedFrom
                           => s = t \/ session'[s].rotatedFrom = None
  BY <1>2 DEF OneToken, Same
<1> QED BY <1>3, <1>4, <1>5, <1>6, <1>7 DEF OneToken

(* The sessions there are, at the moment, are an instant.  The instants of   *)
(* before are still instants, ...                                            *)
LEMMA InstantNow == ASSUME SInv PROVE Instant(Made)
<1>1. ASSUME NEW s \in Made, session[s].rotatedFrom # None PROVE session[s].rotatedFrom \in Made
  <2>1. session[s] \in SessionType /\ s \in SessionIds
    BY DEF SInv, Shape, Made
  <2>2. session[s].rotatedFrom \in SessionIds
    BY <1>1, <2>1 DEF SessionType
  <2>3. session[session[s].rotatedFrom].status = "revoked"
    BY <1>1, <2>1 DEF SInv, TypeOK
  <2> QED BY <2>2, <2>3 DEF Made
<1> QED BY <1>1 DEF Instant

LEMMA InstantKept ==
  ASSUME Tame, NEW F, Instant(F)
  PROVE  /\ F \subseteq Made'
         /\ \A s \in F : session'[s].rotatedFrom # None => session'[s].rotatedFrom \in F
BY DEF Tame, Instant, Same, Made

(* ... and a tame step that takes no other one keeps them.                   *)
LEMMA TameInstants ==
  ASSUME SInv, Tame, stamp' = stamp,
         \A l \in Stampers : \/ stamper'[l] = stamper[l] \/ stamper'[l].pc = "idle"
                             \/ stamper'[l].found \in {Made, stamper[l].found} /\ stamper[l].pc # "idle"
                             \/ stamper'[l].found = Made,
         \A q \in Requests : \/ request'[q] = request[q] \/ request'[q].pc # "stamp"
                             \/ request'[q].found = Made
  PROVE  Instants'
<1>1. Instant(Made) /\ Instants
  BY InstantNow DEF SInv, Stamps
<1>2. stamp' \subseteq Made' /\ \A s \in stamp' : session'[s].rotatedFrom # None => session'[s].rotatedFrom \in stamp'
  BY <1>1, InstantKept DEF Instants
<1>3. ASSUME NEW l \in Stampers, stamper'[l].pc # "idle"
      PROVE  /\ stamper'[l].found \subseteq Made'
             /\ \A s \in stamper'[l].found :
                  session'[s].rotatedFrom # None => session'[s].rotatedFrom \in stamper'[l].found
  BY <1>1, <1>3, InstantKept DEF Instants
<1>4. ASSUME NEW q \in Requests, request'[q].pc = "stamp"
      PROVE  /\ request'[q].found \subseteq Made'
             /\ \A s \in request'[q].found :
                  session'[s].rotatedFrom # None => session'[s].rotatedFrom \in request'[q].found
  BY <1>1, <1>4, InstantKept DEF Instants
<1> QED BY <1>2, <1>3, <1>4 DEF Instants, Instant

(* A tame step that stamps nobody, and gives out no successor that must not  *)
(* be, keeps logouts for good.                                               *)
LEMMA TameStamps ==
  ASSUME SInv, Tame, Instants', stamp' = stamp, over' = over, Found' = Found,
         escaped \subseteq escaped', escaped' \ escaped \subseteq Unrevoked,
         \A s \in known' : s \in Given \/ (session[s].login \in Found => s \in escaped')
  PROVE  Stamps'
<1> USE DEF SInv, Tame
<1>1. /\ Unrevoked \subseteq Made /\ Made \subseteq SessionIds /\ stamp \subseteq Made
      /\ over \subseteq Found /\ known' \subseteq Made
  BY DEF Unrevoked, Made, TypeOK, Found
<1>2. \A s \in Given' : s \in Made /\ s \in Given \cup known'
  BY <1>1 DEF Given, Same
<1>3. \A s \in stamp' : session'[s].root \in ended'
  BY <1>1 DEF Stamps, Same
<1>4. ASSUME NEW u \in Made', session'[u].rotatedFrom \in escaped' \ stamp' PROVE u \in escaped'
  <2> DEFINE o == session[u].rotatedFrom
  <2>1. session'[u].rotatedFrom = o /\ o \in Made
    BY <1>1, <1>4 DEF Same
  <2>2. session[o].status = "revoked"
    BY <1>1, <1>4, <2>1 DEF TypeOK
  <2>3. o \in escaped
    BY <1>4, <2>1, <2>2 DEF Unrevoked
  <2> QED BY <1>4, <2>1, <2>3 DEF Stamps
<1>5. \A s \in Given' \ stamp' : session'[s].login \in Found' => s \in escaped'
  BY <1>1, <1>2 DEF Stamps, Same
<1>6. \A s \in Given' \cap Unrevoked' : session'[s].login \in over' => s \in escaped'
  BY <1>1, <1>2 DEF Stamps, Same
<1> QED BY <1>3, <1>4, <1>5, <1>6 DEF Stamps

(* A tame step after which whatever held a lineage still does, or the        *)
(* lineage is ended, keeps lineages.                                         *)
LEMMA TameLineages ==
  ASSUME SInv, Tame,
         \A s \in Unrevoked \ Unrevoked' : session[s].root \in ended',
         \A q \in Requests : request'[q] = request[q] \/
           /\ request[q].pc = "reread" => request[q].minted \in known'
                                           \/ session[request[q].minted].root \in ended'
           /\ request[q].pc = "gate" => Root(q) \in ended'
           /\ request[q].pc = "exit" => request[q].minted \in ended' \cup (Unrevoked' \cap known')
  PROVE  LineageKept'
<1> USE DEF SInv, Tame
<1>1. Unrevoked \subseteq Made /\ Made \subseteq SessionIds
  BY DEF Unrevoked, Made
<1> SUFFICES ASSUME NEW x \in Made, session[x].root \notin ended'
             PROVE  \/ \E s \in Unrevoked' : session'[s].root = session[x].root /\ (s \in known' \/ Minting(s)')
                    \/ \E q \in Requests : request'[q].pc = "gate"
                                           /\ session'[request'[q].session].root = session[x].root
                    \/ \E q \in Requests : request'[q].pc = "exit" /\ request'[q].minted = session[x].root
  BY <1>1 DEF LineageKept, Same
<1> DEFINE r == session[x].root
<1>2. r \in {session[s].root : s \in Made} \ ended
  OBVIOUS
<1>3. CASE \E s \in Unrevoked : session[s].root = r /\ (s \in known \/ Minting(s))
  <2>1. PICK s \in Unrevoked : session[s].root = r /\ (s \in known \/ Minting(s))
    BY <1>3
  <2>2. s \in Unrevoked' /\ session'[s].root = r
    BY <1>1, <2>1 DEF Same
  <2>3. ASSUME Minting(s) PROVE s \in known' \/ Minting(s)'
    BY <2>1, <2>3 DEF Minting
  <2> QED BY <2>1, <2>2, <2>3
<1>4. CASE \E q \in Requests : request[q].pc = "gate" /\ Root(q) = r
  <2>1. PICK q \in Requests : request[q].pc = "gate" /\ Root(q) = r
    BY <1>4
  <2>2. request'[q] = request[q] /\ request[q].session \in SessionIds
    BY <1>1, <2>1 DEF TypeOK
  <2> QED BY <2>1, <2>2 DEF Root, Same
<1>5. CASE \E q \in Requests : request[q].pc = "exit" /\ request[q].minted = r
  <2>1. PICK q \in Requests : request[q].pc = "exit" /\ request[q].minted = r
    BY <1>5
  <2>2. session[r].root = r /\ r \in SessionIds
    BY <1>1, <2>1 DEF Mints, Exits, TypeOK
  <2> QED BY <2>1, <2>2 DEF Same
<1> QED BY <1>2, <1>3, <1>4, <1>5 DEF LineageKept, Root
-----------------------------------------------------------------------------
(* The shapes of requests.                                                   *)
LEMMA RequestShapes ==
  ASSUME SInv, NEW q \in Requests, request[q].pc # "idle"
  PROVE  /\ request[q].session \in known /\ known \subseteq Made /\ Made \subseteq SessionIds
         /\ session[request[q].session].root \in SessionIds
         /\ session[request[q].session].login \in SessionIds
         /\ request[q].pc \in {"claim", "gate", "converge"} => request[q] \in RefreshType
         /\ request[q].pc = "stamp" => request[q] \in AlarmType
         /\ request[q].pc \in {"reread", "exit"} =>
              /\ request[q] \in MinterType /\ request[q].minted \in Made
              /\ session[request[q].minted].root \in SessionIds
<1>1. request[q] \in RequestType
  BY DEF SInv, Shape
<1>2. \A r \in RefreshType : r.pc \notin {"reread", "exit", "stamp"}
  BY DEF RefreshType
<1>3. \A r \in MinterType : r.pc \in {"reread", "exit"}
  BY DEF MinterType
<1>4. Idle.pc = "idle" /\ \A r \in BareType : r.pc \in {"admitted", "sweep"}
  BY DEF Idle, BareType
<1>5. \A r \in AlarmType : r.pc = "stamp"
  BY DEF AlarmType
<1>6. Made \subseteq SessionIds /\ \A s \in Made : session[s].root \in Made /\ session[s].login \in Made
  BY DEF Made, SInv, TypeOK
<1>7. /\ request[q].session \in known /\ known \subseteq Made
      /\ request[q].pc \in {"reread", "exit"} => request[q].minted \in Made
  BY DEF SInv, TypeOK
<1> QED BY <1>1, <1>2, <1>3, <1>4, <1>5, <1>6, <1>7 DEF RequestType

LEMMA RequestTo ==
  ASSUME Shape, NEW q \in Requests, NEW r \in RequestType, request' = [request EXCEPT ![q] = r]
  PROVE  /\ request' \in [Requests -> RequestType]
         /\ request'[q] = r /\ \A p \in Requests \ {q} : request'[p] = request[p]
  BY DEF Shape

(* Everything a tame step must not do, for the steps that do none of it.     *)
Plain ==
  /\ Tame
  /\ stamp' = stamp /\ over' = over
  /\ escaped \subseteq escaped' /\ escaped' \ escaped \subseteq Unrevoked
  /\ \A q \in Requests :
       \/ request'[q] = request[q]
       \/ /\ request'[q].pc # "gate"
          /\ request'[q].pc = "stamp" => request'[q].found = Made
          /\ request[q].pc = "reread" => request[q].minted \in known'
                                          \/ session[request[q].minted].root \in ended'
          /\ request[q].pc = "gate" => Root(q) \in ended'
          /\ request[q].pc = "exit" => request[q].minted \in ended' \cup (Unrevoked' \cap known')
  /\ \A l \in Stampers :
       \/ stamper'[l] = stamper[l]
       \/ stamper[l].pc = "idle" /\ stamper'[l].pc = "stamp" /\ stamper'[l].found = Made
  /\ \A s \in known' : s \in Given \/ (session[s].login \in Found => s \in escaped')
  /\ \A s \in Unrevoked \ Unrevoked' : session[s].root \in ended'

LEMMA PlainStep == ASSUME SInv, Plain PROVE SInv'
<1> USE DEF Plain
<1>1. Shape' /\ TypeOK' /\ Mints'
  BY TameBasics
<1>2. OneToken'
  BY TameToken
<1>3. Found' = Found
  <2>1. \A l \in Stampers : /\ stamper'[l].pc = "revoke" <=> stamper[l].pc = "revoke"
                            /\ stamper[l].pc = "revoke" => stamper'[l] = stamper[l]
    OBVIOUS
  <2> QED BY <2>1 DEF Found
<1>4. Instants'
  BY TameInstants
<1>5. Stamps'
  BY <1>3, <1>4, TameStamps
<1>6. LineageKept'
  BY TameLineages
<1> QED BY <1>1, <1>2, <1>5, <1>6 DEF SInv

(* Where the sessions and the requests that mint are as they were, and       *)
(* nothing is ended or given out.                                            *)
LEMMA QuietStep ==
  ASSUME SInv, NEW q \in Requests, NEW r \in RequestType,
         request' = [request EXCEPT ![q] = r],
         request[q].pc \notin {"gate", "reread", "exit"},
         r.pc \in {"idle", "admitted", "claim", "converge", "stamp", "sweep"},
         r.pc # "idle" => r.session \in known,
         r.pc = "stamp" => r.found = Made,
         UNCHANGED <<session, stamper, stamp, known, over, escaped, ended>>
  PROVE  SInv'
<1>1. /\ request' \in [Requests -> RequestType]
      /\ request'[q] = r /\ \A p \in Requests \ {q} : request'[p] = request[p]
  BY RequestTo DEF SInv
<1>2. Unrevoked' = Unrevoked /\ Made' = Made
  BY DEF Unrevoked, Made
<1>3. Tame
  BY <1>1, <1>2 DEF Tame, Same, SInv, Shape, TypeOK, Mints, Exits
<1>4. Plain
  BY <1>1, <1>2, <1>3 DEF Plain, Given
<1> QED BY <1>4, PlainStep

-----------------------------------------------------------------------------
(* A request that is done, and what it may have revoked and given out.       *)
Done(q) ==
  /\ request' = [request EXCEPT ![q] = Idle]
  /\ stamper' = stamper /\ stamp' = stamp /\ over' = over
  /\ \/ session' = session
     \/ \E S \in SUBSET SessionIds :
          session' = Revoked(S) /\ \A x \in S : x \in Unrevoked => session[x].root \in ended'
  /\ known \subseteq known' /\ known' \subseteq Made
  /\ ended \subseteq ended' /\ ended' \subseteq SessionIds
  /\ escaped \subseteq escaped' /\ escaped' \ escaped \subseteq Unrevoked
  /\ \A x \in known' \ known :
       /\ x \in Given \/ (session[x].login \in Found => x \in escaped')
       /\ \A p \in Requests \ {q} : request[p].pc = "exit" => request[p].minted # x
  /\ request[q].pc = "reread" =>
       request[q].minted \in known' \/ session[request[q].minted].root \in ended'
  /\ request[q].pc = "gate" => Root(q) \in ended'
  /\ request[q].pc = "exit" => request[q].minted \in ended' \cup (Unrevoked' \cap known')

LEMMA DoneStep == ASSUME SInv, NEW q \in Requests, request[q].pc # "idle", Done(q) PROVE SInv'
<1> USE DEF Done
<1>1. /\ request' \in [Requests -> RequestType]
      /\ request'[q].pc = "idle" /\ \A p \in Requests \ {q} : request'[p] = request[p]
  BY RequestTo DEF SInv, RequestType, Idle
<1>2. /\ session' \in [SessionIds -> SessionType]
      /\ \A x \in SessionIds :
           /\ Same(x)
           /\ session'[x].aged = session[x].aged
           /\ session[x].status = "revoked" => session'[x].status = "revoked"
      /\ Made' = Made /\ Unrevoked' \subseteq Unrevoked
      /\ \A x \in Unrevoked \ Unrevoked' : session[x].root \in ended'
  <2>1. CASE session' = session
    BY <2>1 DEF SInv, Shape, Made, Unrevoked, Same
  <2>2. ASSUME NEW S \in SUBSET SessionIds, session' = Revoked(S),
               \A x \in S : x \in Unrevoked => session[x].root \in ended'
        PROVE  /\ session' \in [SessionIds -> SessionType]
               /\ \A x \in SessionIds :
                    /\ Same(x)
                    /\ session'[x].aged = session[x].aged
                    /\ session[x].status = "revoked" => session'[x].status = "revoked"
               /\ Made' = Made /\ Unrevoked' \subseteq Unrevoked
               /\ \A x \in Unrevoked \ Unrevoked' : session[x].root \in ended'
    <3>1. /\ session' \in [SessionIds -> SessionType]
          /\ \A x \in SessionIds :
               /\ session'[x].status = IF x \in S \cap Unrevoked THEN "revoked" ELSE session[x].status
               /\ session'[x].login = session[x].login /\ session'[x].aged = session[x].aged
               /\ session'[x].rotatedFrom = session[x].rotatedFrom
               /\ session'[x].root = session[x].root /\ session'[x].assumed = session[x].assumed
          /\ Made' = Made /\ Unrevoked' = Unrevoked \ S
      BY <2>2, RevokedEffect DEF SInv
    <3> QED BY <2>2, <3>1 DEF Same
  <2> QED BY <2>1, <2>2
<1>3. \A x \in SessionIds : session'[x].aged => session'[x].status = "revoked"
  BY <1>2 DEF SInv, TypeOK
<1>4. \A p \in Requests : request'[p].pc = "exit" => request[p].minted \notin known'
  BY <1>1 DEF SInv, Mints, Exits
<1>5. /\ stamper' \in [Stampers -> StamperType]
      /\ {stamp', known', over', escaped'} \subseteq SUBSET Made
  <2>1. Unrevoked \subseteq Made
    BY DEF Unrevoked, Made
  <2> QED BY <2>1 DEF SInv, Shape, TypeOK
<1>6. Tame
  BY <1>1, <1>2, <1>3, <1>4, <1>5 DEF Tame
<1>7. Plain
  BY <1>1, <1>2, <1>6 DEF Plain, Given
<1> QED BY <1>7, PlainStep

(* Whoever goes on from a session that does not predate the stamp gives out  *)
(* nothing that must not be.                                                 *)
LEMMA Passable ==
  ASSUME SInv, NEW s \in known, s \notin stamp, NEW t \in Made, session[t].rotatedFrom = s
  PROVE  session[t].login \in Found => t \in escaped
<1>1. s \in SessionIds /\ s # None /\ t \in SessionIds
  BY DEF SInv, TypeOK, Made
<1>2. session[t].login = session[s].login
  BY <1>1 DEF SInv, TypeOK
<1> QED BY <1>2 DEF SInv, Stamps, Given

LEMMA PlainRequests ==
  ASSUME SInv, NEW q \in Requests,
         gateRefuses(q) \/ reread(q) \/ requestDies(q) \/ exitRevoke(q)
           \/ \E t \in SessionIds : converge(q, t)
  PROVE  SInv'
<1> DEFINE s == request[q].session
<1>1. request[q].pc # "idle" /\ request' = [request EXCEPT ![q] = Idle]
  BY DEF gateRefuses, reread, requestDies, exitRevoke, converge
<1>2. /\ s \in known /\ s \in SessionIds /\ session[s].root \in SessionIds
      /\ known \subseteq Made /\ Made \subseteq SessionIds
      /\ request[q].pc \in {"reread", "exit"} =>
           /\ request[q].minted \in Made
           /\ session[request[q].minted].root \in SessionIds
  BY <1>1, RequestShapes
<1>3. known \subseteq Made /\ ended \subseteq SessionIds
  BY DEF SInv, TypeOK, Shape
<1>4. request[q].pc = "reread" =>
        /\ session[request[q].minted].rotatedFrom = s /\ s # None /\ request[q].minted \in SessionIds
        /\ session[request[q].minted].root = session[s].root
  <2>1. request[q].pc = "reread" => /\ session[request[q].minted].rotatedFrom = s
                                    /\ s # None /\ request[q].minted \in SessionIds
    BY <1>2 DEF SInv, Mints
  <2> QED BY <2>1 DEF SInv, TypeOK
<1>7. CASE gateRefuses(q)
  <2>1. /\ request[q].pc = "gate" /\ ended' = ended \cup {session[s].root}
        /\ UNCHANGED <<session, stamper, stamp, known, over, escaped>>
    BY <1>7 DEF gateRefuses
  <2>2. Done(q)
    BY <1>1, <1>2, <1>3, <2>1 DEF Done, Root
  <2> QED BY <1>1, <2>2, DoneStep
<1>8. CASE requestDies(q)
  <2>1. /\ request[q].pc \in {"gate", "reread", "exit"}
        /\ ended' = ended \cup {session[s].root}
                    \cup (IF request[q].pc = "exit" THEN {request[q].minted} ELSE {})
        /\ UNCHANGED <<session, stamper, stamp, known, over, escaped>>
    BY <1>8 DEF requestDies
  <2>2. Done(q)
    BY <1>1, <1>2, <1>3, <1>4, <2>1 DEF Done, Root
  <2> QED BY <1>1, <2>2, DoneStep
<1>10. ASSUME NEW t \in SessionIds, converge(q, t) PROVE SInv'
  <2>1. /\ request[q].pc = "converge" /\ t \in Unrevoked /\ session[t].rotatedFrom = s
        /\ known' = known \cup {t}
        /\ escaped' = IF s \in stamp THEN escaped \cup {t} ELSE escaped
        /\ UNCHANGED <<session, stamper, stamp, over, ended>>
    BY <1>10 DEF converge, Successors
  <2>2. t \in Made
    BY <2>1 DEF Unrevoked, Made
  <2>3. session[t].login \in Found => t \in escaped'
    <3>1. CASE s \in stamp
      BY <2>1, <3>1
    <3>2. CASE s \notin stamp
      <4>1. session[t].login \in Found => t \in escaped
        BY <1>2, <2>1, <2>2, <3>2, Passable
      <4> QED BY <2>1, <4>1
    <3> QED BY <3>1, <3>2
  <2>4. \A p \in Requests \ {q} : request[p].pc = "exit" => request[p].minted # t
    BY <1>2, <2>1 DEF SInv, Mints, Exits
  <2>5. Done(q)
    BY <1>1, <1>2, <1>3, <2>1, <2>2, <2>3, <2>4 DEF Done
  <2> QED BY <1>1, <2>5, DoneStep
<1>11. CASE reread(q)
  <2> DEFINE t == request[q].minted
  <2>1. /\ request[q].pc = "reread" /\ UNCHANGED <<stamper, stamp, over, escaped, ended>>
        /\ \/ s \in stamp /\ session' = Revoked({t}) /\ known' = known
           \/ s \notin stamp /\ known' = known \cup {t} /\ session' = session
    BY <1>11 DEF reread, SweptSince
  <2>2. t \in Made /\ t \in SessionIds
    BY <1>2, <2>1
  <2>3. \A p \in Requests \ {q} : request[p].pc = "exit" => request[p].minted # t
    BY <1>4, <2>1 DEF SInv, Mints, Exits
  <2>4. CASE s \in stamp
    <3>1. session[t].root \in ended'
      BY <1>4, <2>1, <2>4 DEF SInv, Stamps
    <3>2. {t} \in SUBSET SessionIds /\ \A x \in {t} : session[x].root \in ended'
      BY <2>2, <3>1
    <3>3. session' = Revoked({t})
      BY <2>1, <2>4
    <3>4. \E S \in SUBSET SessionIds :
            session' = Revoked(S) /\ \A x \in S : x \in Unrevoked => session[x].root \in ended'
      BY <3>2, <3>3
    <3>5. Done(q)
      BY <1>1, <1>3, <2>1, <2>4, <3>1, <3>4 DEF Done
    <3> QED BY <1>1, <3>5, DoneStep
  <2>5. CASE s \notin stamp
    <3>1. session[t].login \in Found => t \in escaped
      BY <1>2, <1>4, <2>1, <2>2, <2>5, Passable
    <3>2. Done(q)
      BY <1>1, <1>3, <2>1, <2>2, <2>3, <2>5, <3>1 DEF Done
    <3> QED BY <1>1, <3>2, DoneStep
  <2> QED BY <2>4, <2>5
<1>12. CASE exitRevoke(q)
  <2> DEFINE t == request[q].minted
             S == {s} \cup {x \in SessionIds : session[x].rotatedFrom = s}
  <2>1. /\ request[q].pc = "exit" /\ session' = Revoked(S)
        /\ known' = known \cup {t} /\ ended' = ended \cup {session[s].root}
        /\ UNCHANGED <<stamper, stamp, over, escaped>>
    BY <1>12 DEF exitRevoke
  <2>2. /\ session[t].rotatedFrom = None /\ session[t].root = t /\ t \in Made
        /\ t \notin known /\ t \in Unrevoked \cup ended
    BY <1>2, <2>1 DEF SInv, Mints, Exits
  <2>3. S \in SUBSET SessionIds /\ \A x \in S : session[x].root = session[s].root
    <3>1. \A x \in SessionIds : session[x].rotatedFrom = s => session[x].root = session[s].root
      BY <1>2 DEF SInv, TypeOK
    <3> QED BY <1>2, <3>1
  <2>4. \A x \in S : x \in Unrevoked => session[x].root \in ended'
    BY <2>1, <2>3
  <2>5. t \notin S
    BY <1>2, <2>2
  <2>6. \A p \in Requests \ {q} : request[p].pc = "exit" => request[p].minted # t
    BY <2>1 DEF SInv, Mints, Exits
  <2> HIDE DEF S, t
  <2>7. t \in Given
    BY <2>2 DEF Given
  <2>8. Unrevoked' = Unrevoked \ S
    BY <2>1, <2>3, RevokedEffect DEF SInv
  <2>9. t \in ended' \cup (Unrevoked' \cap known')
    BY <2>1, <2>2, <2>5, <2>8
  <2>10. request[q].minted \in ended' \cup (Unrevoked' \cap known')
    BY <2>9 DEF t
  <2>11. known \subseteq known' /\ known' \subseteq Made /\ ended \subseteq ended' /\ ended' \subseteq SessionIds
    BY <1>2, <1>3, <2>1, <2>2
  <2>13. \A x \in known' \ known : /\ x \in Given
                                   /\ \A p \in Requests \ {q} : request[p].pc = "exit" => request[p].minted # x
    BY <2>1, <2>6, <2>7
  <2>14. Done(q)
    BY <1>1, <2>1, <2>3, <2>4, <2>10, <2>11, <2>13 DEF Done
  <2> QED BY <1>1, <2>14, DoneStep
<1> QED BY <1>7, <1>8, <1>10, <1>11, <1>12

LEMMA QuietRequests ==
  ASSUME SInv, NEW q \in Requests,
         convergeFails(q) \/ requestFails(q) \/ \E s \in SessionIds : refreshRead(q, s) \/ validate(q, s)
  PROVE  SInv'
<1>0. Idle \in RequestType /\ Idle.pc = "idle"
  BY DEF RequestType, Idle
<1>1. ASSUME NEW s \in SessionIds, refreshRead(q, s) PROVE SInv'
  <2> DEFINE r == [pc |-> IF session[s].status = "live" THEN "claim" ELSE "converge",
                   session |-> s, revoked |-> session[s].status = "revoked"]
  <2>1. /\ request[q].pc = "idle" /\ s \in known /\ request' = [request EXCEPT ![q] = r]
        /\ UNCHANGED <<session, stamper, stamp, known, over, escaped, ended>>
    BY <1>1 DEF refreshRead
  <2>2. r \in RequestType /\ r.session = s /\ r.pc \in {"claim", "converge"}
    BY DEF RequestType, RefreshType
  <2> HIDE DEF r
  <2> QED BY <2>1, <2>2, QuietStep
<1>2. ASSUME NEW s \in SessionIds, validate(q, s) PROVE SInv'
  <2> DEFINE r == [pc |-> "admitted", session |-> s]
  <2>1. /\ request[q].pc = "idle" /\ s \in known /\ request' = [request EXCEPT ![q] = r]
        /\ UNCHANGED <<session, stamper, stamp, known, over, escaped, ended>>
    BY <1>2 DEF validate, Usable
  <2>2. r \in RequestType /\ r.session = s /\ r.pc = "admitted"
    BY DEF RequestType, BareType
  <2> HIDE DEF r
  <2> QED BY <2>1, <2>2, QuietStep
<1>3. CASE requestFails(q)
  <2>1. /\ request[q].pc \in {"admitted", "stamp", "sweep"} /\ request' = [request EXCEPT ![q] = Idle]
        /\ UNCHANGED <<session, stamper, stamp, known, over, escaped, ended>>
    BY <1>3 DEF requestFails
  <2> QED BY <1>0, <2>1, QuietStep
<1>4. CASE convergeFails(q)
  <2> DEFINE r == [pc |-> "stamp", session |-> request[q].session, found |-> Made]
  <2>1. /\ request[q].pc = "converge"
        /\ request' = [request EXCEPT ![q] = r] \/ request' = [request EXCEPT ![q] = Idle]
        /\ UNCHANGED <<session, stamper, stamp, known, over, escaped, ended>>
    BY <1>4 DEF convergeFails
  <2>2. request[q].session \in known /\ known \subseteq SessionIds /\ Made \subseteq SessionIds
    BY <2>1, RequestShapes
  <2>3. r \in RequestType /\ r.pc = "stamp" /\ r.session = request[q].session /\ r.found = Made
    BY <2>2 DEF RequestType, AlarmType
  <2> HIDE DEF r
  <2> QED BY <1>0, <2>1, <2>2, <2>3, QuietStep
<1> QED BY <1>1, <1>2, <1>3, <1>4

(* The claim: the lineage's token passes from the session to the request.    *)
LEMMA ClaimStep == ASSUME SInv, NEW q \in Requests, claim(q) PROVE SInv'
<1> DEFINE s == request[q].session
<1>1. /\ request[q].pc = "claim" /\ session' = Revoked({s})
      /\ request' = [request EXCEPT ![q].pc = IF ClaimWon(s) THEN "gate" ELSE "converge"]
      /\ UNCHANGED <<stamper, stamp, known, over, escaped, ended>>
  BY DEF claim
<1>2. /\ request[q] \in RefreshType /\ s \in known /\ s \in SessionIds
      /\ known \subseteq Made /\ Made \subseteq SessionIds
  BY <1>1, RequestShapes
<1>3. PICK r \in RefreshType : /\ request' = [request EXCEPT ![q] = r] /\ r.session = s
                               /\ r.pc = IF ClaimWon(s) THEN "gate" ELSE "converge"
  <2> DEFINE pc == IF ClaimWon(s) THEN "gate" ELSE "converge"
  <2>1. pc \in {"claim", "gate", "converge"}
    OBVIOUS
  <2>2. request' = [request EXCEPT ![q] = [request[q] EXCEPT !.pc = pc]]
    BY <1>1
  <2> HIDE DEF pc
  <2>3. /\ [request[q] EXCEPT !.pc = pc] \in RefreshType
        /\ [request[q] EXCEPT !.pc = pc].pc = pc
        /\ [request[q] EXCEPT !.pc = pc].session = s
    BY <1>2, <2>1 DEF RefreshType
  <2> QED BY <2>2, <2>3 DEF pc
<1>4. /\ request' \in [Requests -> RequestType]
      /\ request'[q] = r /\ \A p \in Requests \ {q} : request'[p] = request[p]
  BY <1>3, RequestTo DEF SInv, RequestType
<1>11. {s} \in SUBSET SessionIds
  BY <1>2
<1> HIDE DEF s
<1>5. /\ session' \in [SessionIds -> SessionType]
      /\ \A x \in SessionIds :
           /\ session'[x].status = IF x \in {s} \cap Unrevoked THEN "revoked" ELSE session[x].status
           /\ session'[x].login = session[x].login /\ session'[x].aged = session[x].aged
           /\ session'[x].rotatedFrom = session[x].rotatedFrom
           /\ session'[x].root = session[x].root /\ session'[x].assumed = session[x].assumed
      /\ Made' = Made /\ Unrevoked' = Unrevoked \ {s}
  BY <1>1, <1>11, RevokedEffect DEF SInv
<1>6. Tame
  <2>1. \A x \in SessionIds : session'[x].aged => session'[x].status = "revoked"
    BY <1>5 DEF SInv, TypeOK
  <2>2. \A p \in Requests : request'[p].pc = "exit" => request[p].minted \notin known'
    BY <1>1, <1>3, <1>4 DEF SInv, Mints, Exits
  <2>3. /\ stamper' \in [Stampers -> StamperType]
        /\ {stamp', known', over', escaped'} \subseteq SUBSET Made /\ ended' \subseteq SessionIds
    BY <1>1 DEF SInv, Shape, TypeOK
  <2>4. \A x \in SessionIds : Same(x)
    BY <1>5 DEF Same
  <2>5. \A x \in SessionIds : session[x].status = "revoked" => session'[x].status = "revoked"
    BY <1>5
  <2>6. request' \in [Requests -> RequestType] /\ known \subseteq known' /\ ended \subseteq ended'
    BY <1>1, <1>4
  <2>7. \A p \in Requests :
          \/ request'[p] = request[p]
          \/ /\ request'[p].pc \in {"idle", "admitted", "claim", "gate", "converge", "stamp", "sweep"}
             /\ request'[p].pc # "idle" => request'[p].session \in known
    BY <1>2, <1>3, <1>4
  <2>8. Made' = Made /\ Unrevoked' \subseteq Unrevoked
        /\ \A x \in Unrevoked \ Unrevoked' : session[x].root \in ended' \/ x \in known
    BY <1>2, <1>5
  <2> QED BY <1>5, <2>1, <2>2, <2>3, <2>4, <2>5, <2>6, <2>7, <2>8 DEF Tame
<1>7. Shape' /\ TypeOK' /\ Mints'
  BY <1>6, TameBasics
<1>8. Stamps'
  <2>1. Instants'
    <3>1. \A p \in Requests : request'[p] = request[p] \/ request'[p].pc # "stamp"
      BY <1>3, <1>4
    <3> QED BY <1>1, <1>6, <3>1, TameInstants
  <2>2. Found' = Found /\ known' \subseteq Given
    BY <1>1 DEF Found, Given
  <2> QED BY <1>1, <1>6, <2>1, <2>2, TameStamps
<1>9. CASE s \notin Unrevoked
  <2>1. \A p \in Requests : request'[p].pc = "gate" => request'[p] = request[p]
    BY <1>3, <1>4, <1>9 DEF ClaimWon
  <2>2. OneToken'
    BY <1>6, <2>1, TameToken
  <2>3. LineageKept'
    <3>1. Unrevoked' = Unrevoked
      BY <1>5, <1>9
    <3> QED BY <1>1, <1>4, <1>6, <3>1, TameLineages
  <2> QED BY <1>7, <1>8, <2>2, <2>3 DEF SInv
<1>10. CASE s \in Unrevoked
  <2>1. /\ request'[q].pc = "gate" /\ request'[q].session = s
        /\ Gate' = Gate \cup {q} /\ q \notin Gate
    BY <1>1, <1>3, <1>4, <1>10 DEF ClaimWon, Gate
  <2>2. /\ Unrevoked \subseteq Made /\ session[s].status # "revoked"
    BY <1>10 DEF Unrevoked, Made
  <2>3. /\ Root(q)' = session[s].root
        /\ \A p \in Gate : /\ Root(p)' = Root(p) /\ request'[p].session = request[p].session
                           /\ request[p].session \in SessionIds
    BY <1>2, <1>4, <1>5, <2>1 DEF Root, Gate, SInv, TypeOK, s
  <2>4. \A t \in Made : session[t].rotatedFrom # s
    <3>1. s # None
      BY <1>2
    <3> QED BY <1>2, <2>2, <3>1 DEF SInv, TypeOK
  <2>5. \A x, y \in Unrevoked' : session'[x].root = session'[y].root => x = y
    BY <1>2, <1>5, <2>2 DEF SInv, OneToken
  <2>6. \A p \in Gate', x \in Unrevoked' : session'[x].root # Root(p)'
    BY <1>2, <1>5, <1>10, <2>1, <2>2, <2>3 DEF SInv, OneToken
  <2>7. \A p, o \in Gate' : Root(p)' = Root(o)' => p = o
    BY <1>10, <2>1, <2>3 DEF SInv, OneToken
  <2>8. \A p \in Gate' : /\ session'[request'[p].session].status = "revoked"
                         /\ \A t \in Made' : session'[t].rotatedFrom # request'[p].session
    BY <1>2, <1>5, <1>10, <2>1, <2>3, <2>4 DEF SInv, OneToken
  <2>9. \A x, y \in Made' : session'[x].rotatedFrom = session'[y].rotatedFrom
                             => x = y \/ session'[x].rotatedFrom = None
    BY <1>2, <1>5 DEF SInv, OneToken
  <2>10. OneToken'
    BY <2>5, <2>6, <2>7, <2>8, <2>9 DEF OneToken
  <2>11. LineageKept'
    <3>0. {session'[y].root : y \in Made'} \ ended' = {session[y].root : y \in Made} \ ended
      BY <1>1, <1>2, <1>5
    <3> SUFFICES ASSUME NEW x \in Made, session[x].root \notin ended
                 PROVE  \/ \E y \in Unrevoked' : session'[y].root = session[x].root /\ (y \in known' \/ Minting(y)')
                        \/ \E p \in Requests : request'[p].pc = "gate"
                                               /\ session'[request'[p].session].root = session[x].root
                        \/ \E p \in Requests : request'[p].pc = "exit" /\ request'[p].minted = session[x].root
      BY <3>0 DEF LineageKept
    <3>1. CASE session[x].root = session[s].root
      <4>1. session'[request'[q].session].root = session[x].root
        BY <1>2, <1>5, <2>1, <3>1
      <4> QED BY <2>1, <4>1
    <3>2. CASE \E y \in Unrevoked : session[y].root = session[x].root /\ (y \in known \/ Minting(y))
               /\ session[x].root # session[s].root
      <4>1. PICK y \in Unrevoked : session[y].root = session[x].root /\ (y \in known \/ Minting(y))
                                   /\ y # s
        BY <3>2
      <4>2. y \in Unrevoked' /\ session'[y].root = session[x].root
        BY <1>2, <1>5, <2>2, <4>1
      <4>3. Minting(y) => Minting(y)'
        BY <1>1, <1>4 DEF Minting
      <4> QED BY <1>1, <4>1, <4>2, <4>3
    <3>3. CASE \E p \in Requests : request[p].pc = "gate" /\ session[request[p].session].root = session[x].root
      <4>1. PICK p \in Requests : request[p].pc = "gate" /\ session[request[p].session].root = session[x].root
        BY <3>3
      <4>2. request'[p] = request[p] /\ request[p].session \in SessionIds
        BY <1>1, <1>2, <1>4, <4>1 DEF SInv, TypeOK
      <4> QED BY <1>5, <4>1, <4>2
    <3>4. CASE \E p \in Requests : request[p].pc = "exit" /\ request[p].minted = session[x].root
      BY <1>1, <1>4, <3>4
    <3> QED BY <3>1, <3>2, <3>3, <3>4 DEF SInv, LineageKept
  <2> QED BY <1>7, <1>8, <2>10, <2>11 DEF SInv
<1> QED BY <1>9, <1>10
-----------------------------------------------------------------------------
(* A stamp: what was made since its instant escapes it.                      *)
LEMMA StampStep ==
  ASSUME SInv, NEW F, Instant(F), session' = session, Stamped(F), UNCHANGED <<known, over>>,
         \/ /\ stamper' = stamper
            /\ \E q \in Requests :
                 /\ request[q].pc = "stamp"
                 /\ request' = [request EXCEPT ![q] = [pc |-> "sweep", session |-> request[q].session]]
         \/ /\ request' = request
            /\ \E l \in Stampers : /\ stamper[l].pc = "stamp" /\ stamper[l].found = F
                                    /\ stamper' = [stamper EXCEPT ![l].pc = "revoke"]
  PROVE  SInv'
<1>1. /\ stamp' = F /\ F \subseteq Made
      /\ escaped' = escaped \cup (Made \ F)
      /\ ended' = ended \cup {session[s].root : s \in F}
  BY DEF Stamped, Instant
<1>2. /\ Unrevoked \subseteq Made /\ Made \subseteq SessionIds /\ known \subseteq Made
      /\ {stamp, over, escaped} \subseteq SUBSET Made
      /\ Made' = Made /\ Unrevoked' = Unrevoked
      /\ \A s \in SessionIds : Same(s)
  BY DEF Unrevoked, Made, SInv, TypeOK, Same
<1>3. /\ request' \in [Requests -> RequestType]
      /\ \A q \in Requests :
           \/ request'[q] = request[q]
           \/ /\ request'[q].pc = "sweep" /\ request'[q].session \in known
              /\ request[q].pc = "stamp"
  <2>1. CASE request' = request
    BY <2>1 DEF SInv, Shape
  <2>2. ASSUME NEW q \in Requests, request[q].pc = "stamp",
               request' = [request EXCEPT ![q] = [pc |-> "sweep", session |-> request[q].session]]
        PROVE  /\ request' \in [Requests -> RequestType]
               /\ request'[q].pc = "sweep" /\ request'[q].session \in known
               /\ \A p \in Requests \ {q} : request'[p] = request[p]
    <3> DEFINE r == [pc |-> "sweep", session |-> request[q].session]
    <3>1. request[q].session \in known /\ known \subseteq SessionIds
      BY <2>2, RequestShapes
    <3>2. r \in RequestType /\ r.pc = "sweep" /\ r.session = request[q].session
      BY <3>1 DEF RequestType, BareType
    <3>3. request' = [request EXCEPT ![q] = r]
      BY <2>2
    <3> HIDE DEF r
    <3> QED BY <3>1, <3>2, <3>3, RequestTo DEF SInv
  <2> QED BY <2>1, <2>2
<1>4. /\ stamper' \in [Stampers -> StamperType]
      /\ \A l \in Stampers :
           \/ stamper'[l] = stamper[l]
           \/ stamper[l].pc # "idle" /\ stamper'[l].found = stamper[l].found /\ stamper'[l].found = F
  <2>1. CASE stamper' = stamper
    BY <2>1 DEF SInv, Shape
  <2>2. ASSUME NEW l \in Stampers, stamper[l].pc = "stamp", stamper[l].found = F,
               stamper' = [stamper EXCEPT ![l].pc = "revoke"]
        PROVE  /\ stamper' \in [Stampers -> StamperType]
               /\ stamper'[l].found = F
               /\ \A k \in Stampers \ {l} : stamper'[k] = stamper[k]
    <3> DEFINE r == [stamper[l] EXCEPT !.pc = "revoke"]
    <3>1. stamper[l] \in [pc : {"stamp", "revoke"}, found : SUBSET SessionIds]
      BY <2>2 DEF SInv, Shape, StamperType, Idle
    <3>2. r \in StamperType /\ r.found = F
      BY <2>2, <3>1 DEF StamperType
    <3>3. stamper' = [stamper EXCEPT ![l] = r]
      BY <2>2
    <3> HIDE DEF r
    <3> QED BY <3>2, <3>3 DEF SInv, Shape
  <2> QED BY <2>1, <2>2
<1>5. /\ ended \subseteq ended' /\ ended' \subseteq SessionIds
      /\ \A s \in F : session[s].root \in ended'
  <2>1. \A s \in F : session[s].root \in SessionIds
    BY <1>1, <1>2 DEF SInv, TypeOK
  <2> QED BY <1>1, <2>1 DEF SInv, Shape
<1>6. Tame
  <2>1. session' \in [SessionIds -> SessionType]
        /\ \A x \in SessionIds :
             /\ session'[x].aged => session'[x].status = "revoked"
             /\ session[x].status = "revoked" => session'[x].status = "revoked"
    BY DEF SInv, Shape, TypeOK
  <2>2. \A p \in Requests : request'[p].pc = "exit" => request[p].minted \notin known'
    BY <1>3 DEF SInv, Mints, Exits
  <2>3. known \subseteq known' /\ {stamp', known', over', escaped'} \subseteq SUBSET Made
    BY <1>1, <1>2
  <2>4. \A q \in Requests :
          \/ request'[q] = request[q]
          \/ /\ request'[q].pc \in {"idle", "admitted", "claim", "gate", "converge", "stamp", "sweep"}
             /\ request'[q].pc # "idle" => request'[q].session \in known
    BY <1>3
  <2> QED BY <1>2, <1>3, <1>4, <1>5, <2>1, <2>2, <2>3, <2>4 DEF Tame
<1>7. Shape' /\ TypeOK' /\ Mints'
  BY <1>6, TameBasics
<1>8. OneToken'
  <2>1. \A q \in Requests : request'[q].pc = "gate" => request'[q] = request[q]
    BY <1>3
  <2> QED BY <1>6, <2>1, TameToken
<1>9. LineageKept'
  BY <1>2, <1>3, <1>6, TameLineages
<1>10. Instants'
  <2>1. \A G : Instant(G) => /\ G \subseteq Made'
                             /\ \A s \in G : session'[s].rotatedFrom # None => session'[s].rotatedFrom \in G
    BY <1>6, InstantKept
  <2>2. /\ \A l \in Stampers : stamper[l].pc # "idle" => Instant(stamper[l].found)
        /\ \A q \in Requests : request[q].pc = "stamp" => Instant(request[q].found)
    BY DEF SInv, Stamps, Instants
  <2>3. ASSUME NEW l \in Stampers, stamper'[l].pc # "idle" PROVE Instant(stamper'[l].found)
    BY <1>4, <2>2, <2>3
  <2>4. ASSUME NEW q \in Requests, request'[q].pc = "stamp" PROVE Instant(request'[q].found)
    BY <1>3, <2>2, <2>4
  <2> QED BY <1>1, <2>1, <2>3, <2>4 DEF Instants, Instant
<1>11. Stamps'
  <2>1. \A s \in stamp' : session'[s].root \in ended'
    BY <1>1, <1>5
  <2>2. Given' = Given /\ Given \subseteq Made
    BY <1>2 DEF Given
  <2>3. \A s \in Given' \ stamp' : s \in escaped'
    BY <1>1, <2>2
  <2>4. ASSUME NEW u \in Made', session'[u].rotatedFrom \in escaped' \ stamp' PROVE u \in escaped'
    <3>1. session[u].rotatedFrom \in SessionIds /\ session[u].rotatedFrom \notin F
      BY <1>1, <1>2, <2>4
    <3>2. u \notin F
      BY <3>1 DEF Instant
    <3> QED BY <1>1, <1>2, <3>2
  <2>5. \A s \in Given' \cap Unrevoked' : session'[s].login \in over' => s \in escaped'
    BY <1>1, <1>2, <2>2 DEF SInv, Stamps
  <2> QED BY <1>10, <2>1, <2>3, <2>4, <2>5 DEF Stamps
<1> QED BY <1>7, <1>8, <1>9, <1>11 DEF SInv

(* The end of a logout, or of a reuse: every session is revoked.             *)
LEMMA RevokeAllStep ==
  ASSUME SInv, RevokedAll, UNCHANGED <<stamp, known>>,
         \/ /\ UNCHANGED <<stamper, over>>
            /\ \E q \in Requests : request[q].pc = "sweep" /\ request' = [request EXCEPT ![q] = Idle]
         \/ /\ request' = request
            /\ \E l \in Stampers : /\ stamper[l].pc = "revoke"
                                    /\ over' = over \cup stamper[l].found
                                    /\ stamper' = [stamper EXCEPT ![l] = Idle]
  PROVE  SInv'
<1>1. /\ session' = Revoked(SessionIds) /\ escaped' = escaped \ stamp
      /\ ended' = ended \cup {session[s].root : s \in Made}
      /\ stamp' = stamp /\ known' = known
  BY DEF RevokedAll
<1>2. /\ Unrevoked \subseteq Made /\ Made \subseteq SessionIds /\ known \subseteq Made
      /\ {stamp, over, escaped} \subseteq SUBSET Made
  BY DEF Unrevoked, Made, SInv, TypeOK
<1>3. /\ session' \in [SessionIds -> SessionType]
      /\ \A x \in SessionIds :
           /\ session[x].status = "revoked" => session'[x].status = "revoked"
           /\ session'[x].aged = session[x].aged /\ Same(x)
      /\ Made' = Made /\ Unrevoked' = {}
  <2>1. Unrevoked \ SessionIds = {} /\ SessionIds \in SUBSET SessionIds
    BY <1>2
  <2> QED BY <1>1, <2>1, RevokedEffect DEF SInv, Same
<1>4. /\ ended \subseteq ended' /\ ended' \subseteq SessionIds
      /\ \A s \in Made : session[s].root \in ended'
  <2>1. \A s \in Made : session[s].root \in SessionIds
    BY <1>2 DEF SInv, TypeOK
  <2> QED BY <1>1, <2>1 DEF SInv, Shape
<1>5. /\ request' \in [Requests -> RequestType]
      /\ \A q \in Requests : \/ request'[q] = request[q]
                             \/ request[q].pc = "sweep" /\ request'[q].pc = "idle"
  <2>1. CASE request' = request
    BY <2>1 DEF SInv, Shape
  <2>2. ASSUME NEW q \in Requests, request[q].pc = "sweep", request' = [request EXCEPT ![q] = Idle]
        PROVE  /\ request' \in [Requests -> RequestType] /\ request'[q].pc = "idle"
               /\ \A p \in Requests \ {q} : request'[p] = request[p]
    <3>1. Idle \in RequestType /\ Idle.pc = "idle"
      BY DEF RequestType, Idle
    <3> QED BY <2>2, <3>1, RequestTo DEF SInv
  <2> QED BY <2>1, <2>2
<1>6. /\ stamper' \in [Stampers -> StamperType] /\ over' \subseteq Made /\ Found' \subseteq Found
      /\ \A l \in Stampers : stamper'[l] = stamper[l] \/ stamper'[l].pc = "idle"
  <2>1. CASE UNCHANGED <<stamper, over>>
    BY <1>2, <2>1 DEF SInv, Shape, Found
  <2>2. ASSUME NEW l \in Stampers, stamper[l].pc = "revoke", over' = over \cup stamper[l].found,
               stamper' = [stamper EXCEPT ![l] = Idle]
        PROVE  /\ stamper' \in [Stampers -> StamperType] /\ over' \subseteq Made /\ Found' \subseteq Found
               /\ \A k \in Stampers : stamper'[k] = stamper[k] \/ stamper'[k].pc = "idle"
    <3>1. /\ stamper' \in [Stampers -> StamperType] /\ stamper'[l].pc = "idle"
          /\ \A k \in Stampers \ {l} : stamper'[k] = stamper[k]
      BY <2>2 DEF SInv, Shape, StamperType, Idle
    <3>2. stamper[l].found \subseteq Made
      BY <2>2 DEF SInv, Stamps, Instants, Instant
    <3>3. Found' \subseteq Found
      BY <2>2, <3>1 DEF Found
    <3> QED BY <1>2, <2>2, <3>1, <3>2, <3>3
  <2> QED BY <2>1, <2>2
<1>7. Tame
  <2>1. \A x \in SessionIds : session'[x].aged => session'[x].status = "revoked"
    BY <1>3 DEF SInv, TypeOK
  <2>2. \A p \in Requests : request'[p].pc = "exit" => request[p].minted \notin known'
    BY <1>1, <1>5 DEF SInv, Mints, Exits
  <2>3. known \subseteq known' /\ {stamp', known', over', escaped'} \subseteq SUBSET Made
    BY <1>1, <1>2, <1>6
  <2>4. \A x \in Unrevoked \ Unrevoked' : session[x].root \in ended'
    BY <1>2, <1>4
  <2> QED BY <1>3, <1>4, <1>5, <1>6, <2>1, <2>2, <2>3, <2>4 DEF Tame
<1>8. Shape' /\ TypeOK' /\ Mints'
  BY <1>7, TameBasics
<1>9. OneToken'
  BY <1>5, <1>7, TameToken
<1>10. LineageKept'
  BY <1>2, <1>4, <1>5, <1>7, TameLineages
<1>11. Instants'
  <2>1. \A q \in Requests : request'[q] = request[q] \/ request'[q].pc # "stamp"
    BY <1>5
  <2> QED BY <1>1, <1>6, <1>7, <2>1, TameInstants
<1>12. Stamps'
  <2>1. \A s \in stamp' : session'[s].root \in ended'
    BY <1>1, <1>2, <1>3, <1>4 DEF Same
  <2>2. Given' = Given /\ Given \subseteq Made
    BY <1>1, <1>2, <1>3 DEF Given, Same
  <2>3. \A s \in Given' \ stamp' : session'[s].login \in Found' => s \in escaped'
    BY <1>1, <1>2, <1>3, <1>6, <2>2 DEF SInv, Stamps, Same
  <2>4. ASSUME NEW u \in Made', session'[u].rotatedFrom \in escaped' \ stamp' PROVE u \in escaped'
    <3>1. session[u].rotatedFrom \in escaped \ stamp /\ u \in Made
      BY <1>1, <1>2, <1>3, <2>4 DEF Same
    <3>2. u \in escaped
      BY <3>1 DEF SInv, Stamps
    <3>3. session[u].rotatedFrom \in SessionIds
      BY <1>2, <3>1
    <3>4. u \notin stamp
      BY <3>1, <3>3 DEF SInv, Stamps, Instants, Instant
    <3> QED BY <1>1, <3>2, <3>4
  <2> QED BY <1>3, <1>11, <2>1, <2>3, <2>4 DEF Stamps
<1> QED BY <1>8, <1>9, <1>10, <1>12 DEF SInv

(* Time passes.                                                              *)
LEMMA TimeStep == ASSUME SInv, NEW s \in SessionIds, Expire(s) \/ Age(s) PROVE SInv'
<1>1. /\ \/ /\ session[s].status = "live"
            /\ session' = [session EXCEPT ![s].status = "expired"]
            /\ ended' = ended \cup {session[s].root}
         \/ /\ session[s].status = "revoked"
            /\ session' = [session EXCEPT ![s].aged = TRUE]
            /\ ended' = ended
      /\ UNCHANGED <<request, stamper, stamp, known, over, escaped>>
  BY DEF Expire, Age
<1>2. \E r \in SessionType :
        /\ session' = [session EXCEPT ![s] = r]
        /\ r.status \in {"expired", "revoked"} /\ session[s].status # "none"
        /\ r.status = "revoked" <=> session[s].status = "revoked"
        /\ r.aged => r.status = "revoked"
        /\ r.login = session[s].login /\ r.rotatedFrom = session[s].rotatedFrom
        /\ r.root = session[s].root /\ r.assumed = session[s].assumed
  <2>1. session[s] \in SessionType /\ (session[s].aged => session[s].status = "revoked")
    BY DEF SInv, Shape, TypeOK
  <2>2. CASE session[s].status = "live" /\ session' = [session EXCEPT ![s].status = "expired"]
    <3> DEFINE r == [session[s] EXCEPT !.status = "expired"]
    <3>1. /\ r \in SessionType /\ r.status = "expired" /\ r.aged = session[s].aged
          /\ r.login = session[s].login /\ r.rotatedFrom = session[s].rotatedFrom
          /\ r.root = session[s].root /\ r.assumed = session[s].assumed
      BY <2>1 DEF SessionType
    <3>2. session' = [session EXCEPT ![s] = r]
      BY <2>2
    <3> HIDE DEF r
    <3> QED BY <2>1, <2>2, <3>1, <3>2
  <2>3. CASE session[s].status = "revoked" /\ session' = [session EXCEPT ![s].aged = TRUE]
    <3> DEFINE r == [session[s] EXCEPT !.aged = TRUE]
    <3>1. r \in SessionType
      BY <2>1 DEF SessionType
    <3>2. /\ r.status = "revoked"
          /\ r.login = session[s].login /\ r.rotatedFrom = session[s].rotatedFrom
          /\ r.root = session[s].root /\ r.assumed = session[s].assumed
      BY <2>1, <2>3 DEF SessionType
    <3>3. session' = [session EXCEPT ![s] = r]
      BY <2>3
    <3> HIDE DEF r
    <3> QED BY <2>1, <2>3, <3>1, <3>2, <3>3
  <2> QED BY <1>1, <2>2, <2>3
<1>3. /\ session' \in [SessionIds -> SessionType]
      /\ \A x \in SessionIds :
           /\ session[x].status = "revoked" => session'[x].status = "revoked"
           /\ session'[x].aged => session'[x].status = "revoked"
           /\ session'[x].login = session[x].login
           /\ session'[x].rotatedFrom = session[x].rotatedFrom
           /\ session'[x].root = session[x].root /\ session'[x].assumed = session[x].assumed
      /\ Made' = Made /\ Unrevoked' = Unrevoked
  <2>1. PICK r \in SessionType :
        /\ session' = [session EXCEPT ![s] = r]
        /\ r.status \in {"expired", "revoked"} /\ session[s].status # "none"
        /\ r.status = "revoked" <=> session[s].status = "revoked"
        /\ r.aged => r.status = "revoked"
        /\ r.login = session[s].login /\ r.rotatedFrom = session[s].rotatedFrom
        /\ r.root = session[s].root /\ r.assumed = session[s].assumed
    BY <1>2
  <2>2. /\ session' \in [SessionIds -> SessionType] /\ session'[s] = r
        /\ \A x \in SessionIds \ {s} : session'[x] = session[x]
    BY <2>1 DEF SInv, Shape
  <2>3. \A x \in SessionIds : session[x].aged => session[x].status = "revoked"
    BY DEF SInv, TypeOK
  <2>4. session[s].status \in {"none", "live", "expired", "revoked"}
    BY DEF SInv, TypeOK
  <2>5. Made' = Made /\ Unrevoked' = Unrevoked
    BY <2>1, <2>2, <2>4 DEF Made, Unrevoked
  <2> QED BY <2>1, <2>2, <2>3, <2>5
<1>4. Tame
  <2>1. \A p \in Requests : request'[p].pc = "exit" => request[p].minted \notin known'
    BY <1>1 DEF SInv, Mints, Exits
  <2>2. /\ request' \in [Requests -> RequestType]
        /\ stamper' \in [Stampers -> StamperType]
        /\ {stamp', known', over', escaped'} \subseteq SUBSET Made
    BY <1>1 DEF SInv, Shape, TypeOK
  <2>3. ended \subseteq ended' /\ ended' \subseteq SessionIds
    <3>1. session[s].status = "live" => session[s].root \in SessionIds
      BY DEF SInv, TypeOK, Made
    <3> QED BY <1>1, <3>1 DEF SInv, Shape
  <2> QED BY <1>1, <1>3, <2>1, <2>2, <2>3 DEF Tame, Same
<1>5. Plain
  BY <1>1, <1>3, <1>4 DEF Plain, Given
<1> QED BY <1>5, PlainStep
-----------------------------------------------------------------------------
(* A new lineage: a login, an assumption, or the home session of an exit.    *)
LEMMA RootStep ==
  ASSUME SInv, NEW t \in SessionIds, session[t].status = "none", NEW assumed \in BOOLEAN,
         NEW login \in Made \cup {t},
         session' = [session EXCEPT ![t] = generateTokens(None, t, login, assumed)],
         escaped \subseteq escaped', escaped' \subseteq escaped \cup {t},
         login \in Found => t \in escaped',
         \/ /\ known' = known \cup {t}
            /\ \/ request' = request
               \/ \E q \in Requests :
                    request[q].pc = "admitted" /\ request' = [request EXCEPT ![q] = Idle]
         \/ /\ known' = known
            /\ \E q \in Requests, s \in known :
                 /\ request[q].pc = "admitted"
                 /\ request' = [request EXCEPT ![q] = [pc |-> "exit", session |-> s, minted |-> t]],
         UNCHANGED <<stamper, stamp, over, ended>>
  PROVE  SInv'
<1>1. /\ session' \in [SessionIds -> SessionType]
      /\ session'[t].status = "live" /\ ~session'[t].aged
      /\ session'[t].rotatedFrom = None /\ session'[t].root = t /\ session'[t].login = login
      /\ \A s \in SessionIds \ {t} : session'[s] = session[s]
      /\ t \notin Made /\ Made' = Made \cup {t} /\ Unrevoked' = Unrevoked \cup {t}
  <2>1. Shape /\ None \in SessionIds \cup {None} /\ login \in SessionIds
    BY DEF SInv, Made
  <2>2. session' = [session EXCEPT ![t] = generateTokens(None, t, login, assumed)]
    OBVIOUS
  <2> DEFINE from == None
  <2>3. from \in SessionIds \cup {None} /\ from = None
        /\ session' = [session EXCEPT ![t] = generateTokens(from, t, login, assumed)]
    BY <2>2
  <2> HIDE DEF from
  <2>4. /\ session' \in [SessionIds -> SessionType]
        /\ session'[t].status = "live" /\ ~session'[t].aged
        /\ session'[t].rotatedFrom = from /\ session'[t].root = t /\ session'[t].login = login
        /\ \A s \in SessionIds \ {t} : session'[s] = session[s]
        /\ t \notin Made /\ Made' = Made \cup {t} /\ Unrevoked' = Unrevoked \cup {t}
    BY ONLY <2>1, <2>3, session[t].status = "none", t \in SessionIds, assumed \in BOOLEAN, NewEffect
  <2> QED BY <2>3, <2>4
<1>2. /\ Unrevoked \subseteq Made /\ Made \subseteq SessionIds /\ known \subseteq Made
      /\ {stamp, over, escaped} \subseteq SUBSET Made
      /\ \A s \in Made : session[s].root \in Made /\ session[s].login \in Made
  BY DEF Unrevoked, Made, SInv, TypeOK
<1>3. \A s \in Made : s # t /\ session'[s] = session[s] /\ session[s].root # t
  BY <1>1, <1>2
<1>4. \A s \in SessionIds : session[s].rotatedFrom # None =>
        session[s].rotatedFrom \in Made /\ session[s].rotatedFrom # t
  <2>1. \A s \in SessionIds : session[s].rotatedFrom \in SessionIds \cup {None}
    BY DEF SInv, Shape, SessionType
  <2>2. \A s \in SessionIds : session[s].rotatedFrom # None =>
          session[session[s].rotatedFrom].status = "revoked"
    BY DEF SInv, TypeOK
  <2> QED BY <1>1, <2>1, <2>2 DEF Made
<1>5. /\ request' \in [Requests -> RequestType]
      /\ \A q \in Requests :
           \/ request'[q] = request[q]
           \/ request[q].pc = "admitted" /\ request'[q].pc = "idle"
           \/ /\ request[q].pc = "admitted" /\ request'[q].pc = "exit" /\ request'[q].session \in known
              /\ request'[q].minted = t /\ t \notin known'
              /\ \A p \in Requests \ {q} : request'[p] = request[p]
      /\ t \in known' \/ \E q \in Requests : request'[q].pc = "exit" /\ request'[q].minted = t
  <2>1. CASE known' = known \cup {t} /\ request' = request
    BY <2>1 DEF SInv, Shape
  <2>2. ASSUME NEW q \in Requests, request[q].pc = "admitted", request' = [request EXCEPT ![q] = Idle],
               known' = known \cup {t}
        PROVE  /\ request' \in [Requests -> RequestType] /\ request'[q].pc = "idle"
               /\ \A p \in Requests \ {q} : request'[p] = request[p]
    <3>1. Idle \in RequestType /\ Idle.pc = "idle"
      BY DEF RequestType, Idle
    <3> QED BY <2>2, <3>1, RequestTo DEF SInv
  <2>3. ASSUME NEW q \in Requests, NEW s \in known, request[q].pc = "admitted", known' = known,
               request' = [request EXCEPT ![q] = [pc |-> "exit", session |-> s, minted |-> t]]
        PROVE  /\ request' \in [Requests -> RequestType]
               /\ request[q].pc = "admitted" /\ request'[q].pc = "exit" /\ request'[q].session \in known
               /\ request'[q].minted = t /\ t \notin known'
               /\ \A p \in Requests \ {q} : request'[p] = request[p]
    <3> DEFINE r == [pc |-> "exit", session |-> s, minted |-> t]
    <3>1. r \in RequestType /\ r.pc = "exit" /\ r.session = s /\ r.minted = t
      BY <1>2 DEF RequestType, MinterType
    <3>2. request' = [request EXCEPT ![q] = r]
      BY <2>3
    <3> HIDE DEF r
    <3>3. Shape
      BY DEF SInv
    <3>4. /\ request' \in [Requests -> RequestType] /\ request'[q] = r
          /\ \A p \in Requests \ {q} : request'[p] = request[p]
      BY <3>1, <3>2, <3>3, RequestTo
    <3>5. t \notin known'
      BY <1>1, <1>2, <2>3
    <3> QED BY <2>3, <3>1, <3>4, <3>5
  <2> QED BY <2>1, <2>2, <2>3
<1>6. known \subseteq known' /\ known' \subseteq known \cup {t}
  OBVIOUS
<1>7. Shape'
  BY <1>1, <1>2, <1>5, <1>6 DEF SInv, Shape
<1>8. TypeOK'
  <2>1. \A s \in SessionIds :
          /\ session'[s].status \in {"none", "live", "expired", "revoked"}
          /\ {session'[s].aged, session'[s].assumed} \subseteq BOOLEAN
    BY <1>1 DEF SessionType
  <2>2. \A s \in SessionIds : session'[s].aged => session'[s].status = "revoked"
    BY <1>1 DEF SInv, TypeOK
  <2>3. \A s \in Made' : {session'[s].root, session'[s].login} \subseteq Made'
    BY <1>1, <1>2, <1>3
  <2>4. \A s \in SessionIds : session'[s].rotatedFrom # None =>
          LET p == session'[s].rotatedFrom
          IN  /\ session'[p].status = "revoked"
              /\ session'[p].root = session'[s].root /\ session'[p].login = session'[s].login
              /\ session'[s].assumed => session'[p].assumed
    <3> SUFFICES ASSUME NEW s \in SessionIds, session'[s].rotatedFrom # None
                 PROVE  LET p == session'[s].rotatedFrom
                        IN  /\ session'[p].status = "revoked"
                            /\ session'[p].root = session'[s].root
                            /\ session'[p].login = session'[s].login
                            /\ session'[s].assumed => session'[p].assumed
      OBVIOUS
    <3>1. session'[s] = session[s]
      BY <1>1
    <3>2. session[s].rotatedFrom \in Made
          /\ session'[session[s].rotatedFrom] = session[session[s].rotatedFrom]
      BY <1>3, <1>4, <3>1
    <3> QED BY <3>1, <3>2 DEF SInv, TypeOK
  <2>5. \A q \in Requests :
          /\ request'[q].pc \in {"idle", "admitted", "claim", "gate", "reread", "converge",
                              "stamp", "sweep", "exit"}
          /\ request'[q].pc # "idle" => request'[q].session \in known'
          /\ request'[q].pc \in {"reread", "exit"} => request'[q].minted \in Made'
    BY <1>1, <1>5, <1>6 DEF SInv, TypeOK
  <2>6. /\ \A l \in Stampers : stamper'[l].pc \in {"idle", "stamp", "revoke"}
        /\ {stamp', known', over', escaped'} \subseteq SUBSET Made'
    BY <1>1, <1>2, <1>6 DEF SInv, TypeOK
  <2> QED BY <2>1, <2>2, <2>3, <2>4, <2>5, <2>6 DEF TypeOK
<1>9. OneToken'
  <2>1. \A q \in Gate' :
          /\ q \in Gate /\ request'[q] = request[q]
          /\ request[q].session \in Made /\ Root(q)' = Root(q) /\ Root(q) # t
    <3>1. \A q \in Gate' : q \in Gate /\ request'[q] = request[q]
      BY <1>5 DEF Gate
    <3>2. \A q \in Gate : request[q].session \in Made
      BY <1>2 DEF Gate, SInv, TypeOK
    <3> QED BY <1>3, <3>1, <3>2 DEF Root
  <2>2. \A x, y \in Unrevoked' : session'[x].root = session'[y].root => x = y
    BY <1>1, <1>2, <1>3 DEF SInv, OneToken
  <2>3. \A p \in Gate', x \in Unrevoked' : session'[x].root # Root(p)'
    BY <1>1, <1>2, <1>3, <2>1 DEF SInv, OneToken
  <2>4. \A p, r \in Gate' : Root(p)' = Root(r)' => p = r
    BY <2>1 DEF SInv, OneToken
  <2>5. \A p \in Gate' :
          /\ session'[request'[p].session].status = "revoked"
          /\ \A x \in Made' : session'[x].rotatedFrom # request'[p].session
    BY <1>1, <1>2, <1>3, <2>1 DEF SInv, OneToken
  <2>6. \A x, y \in Made' : session'[x].rotatedFrom = session'[y].rotatedFrom
                             => x = y \/ session'[x].rotatedFrom = None
    BY <1>1, <1>2, <1>3 DEF SInv, OneToken
  <2> QED BY <2>2, <2>3, <2>4, <2>5, <2>6 DEF OneToken
<1>10. Mints'
  <2>1. \A q \in Requests : request[q].pc \in {"reread", "exit"} => request[q].minted \in Made
    BY DEF SInv, TypeOK
  <2>2. \A q \in Requests : request'[q].pc = "reread" =>
          session'[request'[q].minted].rotatedFrom = request'[q].session
    BY <1>3, <1>5, <2>1 DEF SInv, Mints
  <2>3. \A q \in Exits' :
          \/ q \in Exits /\ request'[q] = request[q]
          \/ request'[q].minted = t /\ t \notin known'
    BY <1>5 DEF Exits
  <2>4. \A q \in Exits' :
          LET x == request'[q].minted
          IN  /\ session'[x].rotatedFrom = None /\ session'[x].root = x /\ x \notin known'
              /\ x \in Unrevoked' \cup ended'
    <3> TAKE q \in Exits'
    <3>1. CASE q \in Exits /\ request'[q] = request[q]
      <4>1. request[q].minted \in Made
        BY <2>1, <3>1 DEF Exits
      <4> QED BY <1>1, <1>3, <1>6, <3>1, <4>1 DEF SInv, Mints
    <3>2. CASE request'[q].minted = t /\ t \notin known'
      BY <1>1, <3>2
    <3> QED BY <2>3, <3>1, <3>2
  <2>5. \A q, r \in Exits' : request'[q].minted = request'[r].minted => q = r
    <3>1. \A q \in Exits : request[q].minted # t
      BY <1>3, <2>1 DEF Exits
    <3> QED BY <1>5, <3>1 DEF SInv, Mints, Exits
  <2> QED BY <2>2, <2>4, <2>5 DEF Mints
<1>11. Stamps'
  <2>1. Instants'
    <3>1. \A F : Instant(F) => /\ F \subseteq Made'
                              /\ \A x \in F : session'[x].rotatedFrom # None => session'[x].rotatedFrom \in F
      BY <1>1, <1>3 DEF Instant
    <3>2. \A p \in Requests : request'[p].pc = "stamp" => request'[p] = request[p]
      BY <1>5
    <3>3. Instant(stamp) /\ stamp' = stamp
      BY DEF SInv, Stamps, Instants
    <3>4. ASSUME NEW l \in Stampers, stamper'[l].pc # "idle"
          PROVE  Instant(stamper[l].found) /\ stamper'[l] = stamper[l]
      BY <3>4 DEF SInv, Stamps, Instants
    <3>5. ASSUME NEW p \in Requests, request'[p].pc = "stamp"
          PROVE  Instant(request[p].found) /\ request'[p] = request[p]
      BY <3>2, <3>5 DEF SInv, Stamps, Instants
    <3> QED BY <3>1, <3>3, <3>4, <3>5 DEF Instants, Instant
  <2>2. Found' = Found /\ over \subseteq Found
    BY DEF Found
  <2>3. \A s \in stamp' : session'[s].root \in ended'
    BY <1>2, <1>3 DEF SInv, Stamps
  <2>4. ASSUME NEW u \in Made', session'[u].rotatedFrom \in escaped' \ stamp' PROVE u \in escaped'
    <3>1. session'[u].rotatedFrom \in SessionIds
      BY <1>1, <1>2, <2>4
    <3>2. u # t /\ u \in Made /\ session'[u] = session[u]
      BY <1>1, <1>3, <3>1
    <3>3. session[u].rotatedFrom \in escaped \ stamp
      BY <1>2, <1>4, <2>4, <3>1, <3>2
    <3> QED BY <3>2, <3>3 DEF SInv, Stamps
  <2>5. \A s \in Given' : s = t \/ s \in Given
    BY <1>1, <1>3, <1>6 DEF Given
  <2>6. Given \subseteq Made /\ t \notin Made
    BY <1>1, <1>2 DEF Given
  <2>7. \A s \in Given' \ stamp' : session'[s].login \in Found' => s \in escaped'
    BY <1>1, <1>3, <2>2, <2>5, <2>6 DEF SInv, Stamps
  <2>8. \A s \in Given' \cap Unrevoked' : session'[s].login \in over' => s \in escaped'
    BY <1>1, <1>3, <2>2, <2>5, <2>6 DEF SInv, Stamps
  <2> QED BY <2>1, <2>3, <2>4, <2>7, <2>8 DEF Stamps
<1>12. LineageKept'
  <2> SUFFICES ASSUME NEW x \in Made', session'[x].root \notin ended
               PROVE  \/ \E s \in Unrevoked' : session'[s].root = session'[x].root /\ (s \in known' \/ Minting(s)')
                      \/ \E q \in Requests : request'[q].pc = "gate"
                                             /\ session'[request'[q].session].root = session'[x].root
                      \/ \E q \in Requests : request'[q].pc = "exit" /\ request'[q].minted = session'[x].root
    BY DEF LineageKept
  <2>1. CASE x = t
    BY <1>1, <1>5, <2>1
  <2>2. CASE x \in Made
    <3>1. session'[x].root = session[x].root
      BY <1>3, <2>2
    <3>2. CASE \E s \in Unrevoked : session[s].root = session[x].root /\ (s \in known \/ Minting(s))
      <4>1. \A s : Minting(s) => Minting(s)'
        BY <1>5 DEF Minting
      <4> QED BY <1>1, <1>2, <1>3, <1>6, <3>1, <3>2, <4>1
    <3>3. ASSUME NEW q \in Requests, request[q].pc = "gate",
                 session[request[q].session].root = session[x].root
          PROVE  request'[q] = request[q] /\ session'[request[q].session].root = session'[x].root
      <4>1. request'[q] = request[q] /\ request[q].session \in Made
        BY <1>2, <1>5, <3>3 DEF SInv, TypeOK
      <4> QED BY <1>3, <3>1, <3>3, <4>1
    <3>4. \A q \in Requests : request[q].pc = "exit" => request'[q] = request[q]
      BY <1>5
    <3> QED BY <2>2, <3>1, <3>2, <3>3, <3>4 DEF SInv, LineageKept
  <2> QED BY <1>1, <2>1, <2>2
<1> QED BY <1>7, <1>8, <1>9, <1>10, <1>11, <1>12 DEF SInv
-----------------------------------------------------------------------------
(* The mint: the lineage's token passes from the request to the successor.   *)
LEMMA MintStep ==
  ASSUME SInv, NEW q \in Requests, NEW t \in SessionIds, NEW assumed \in BOOLEAN, mint(q, t, assumed)
  PROVE  SInv'
<1> DEFINE s == request[q].session
<1>1. /\ request[q].pc = "gate" /\ session[t].status = "none"
      /\ assumed => session[s].assumed
      /\ session' = [session EXCEPT ![t] =
                       generateTokens(s, session[s].root, session[s].login, assumed)]
      /\ escaped' = IF s \in escaped THEN escaped \cup {t} ELSE escaped
      /\ request' = [request EXCEPT ![q] = [pc |-> "reread", session |-> s, minted |-> t]]
      /\ UNCHANGED <<stamper, stamp, known, over, ended>>
  BY DEF mint
<1>2. /\ Unrevoked \subseteq Made /\ Made \subseteq SessionIds /\ known \subseteq Made
      /\ {stamp, over, escaped} \subseteq SUBSET Made
      /\ \A x \in Made : session[x].root \in Made /\ session[x].login \in Made
      /\ s \in known
  BY <1>1 DEF Unrevoked, Made, SInv, TypeOK
<1>3. /\ s \in SessionIds /\ s # None /\ session[s].root \in SessionIds
      /\ session[s].login \in SessionIds /\ session[s].status = "revoked"
      /\ \A x \in Made : session[x].rotatedFrom # s
  <2>1. session[s] \in SessionType
    BY <1>2 DEF SInv, Shape
  <2> QED BY <1>1, <1>2, <2>1 DEF SInv, OneToken, Gate, SessionType
<1> HIDE DEF s
<1>4. /\ session' \in [SessionIds -> SessionType]
      /\ session'[t].status = "live" /\ ~session'[t].aged
      /\ session'[t].rotatedFrom = s /\ session'[t].root = session[s].root
      /\ session'[t].login = session[s].login /\ session'[t].assumed = assumed
      /\ \A x \in SessionIds \ {t} : session'[x] = session[x]
      /\ t \notin Made /\ Made' = Made \cup {t} /\ Unrevoked' = Unrevoked \cup {t}
  <2> DEFINE root == session[s].root
             login == session[s].login
  <2>1. Shape /\ s \in SessionIds \cup {None} /\ root \in SessionIds /\ login \in SessionIds
    BY <1>3 DEF SInv
  <2>2. session[t].status = "none" /\ session' = [session EXCEPT ![t] = generateTokens(s, root, login, assumed)]
    BY <1>1
  <2>3. root = session[s].root /\ login = session[s].login
    OBVIOUS
  <2> HIDE DEF root, login
  <2>4. /\ session' \in [SessionIds -> SessionType]
        /\ session'[t].status = "live" /\ ~session'[t].aged
        /\ session'[t].rotatedFrom = s /\ session'[t].root = root
        /\ session'[t].login = login /\ session'[t].assumed = assumed
        /\ \A x \in SessionIds \ {t} : session'[x] = session[x]
        /\ t \notin Made /\ Made' = Made \cup {t} /\ Unrevoked' = Unrevoked \cup {t}
    BY <2>1, <2>2, NewEffect
  <2> QED BY <2>3, <2>4
<1>5. \A x \in Made : x # t /\ session'[x] = session[x]
  BY <1>2, <1>4
<1>6. \A x \in SessionIds : session[x].rotatedFrom # None =>
        session[x].rotatedFrom \in Made /\ session[x].rotatedFrom # t
  <2>1. \A x \in SessionIds : session[x].rotatedFrom \in SessionIds \cup {None}
    BY DEF SInv, Shape, SessionType
  <2>2. \A x \in SessionIds : session[x].rotatedFrom # None =>
          session[session[x].rotatedFrom].status = "revoked"
    BY DEF SInv, TypeOK
  <2> QED BY <1>1, <2>1, <2>2 DEF Made
<1>7. /\ request' \in [Requests -> RequestType]
      /\ request'[q].pc = "reread" /\ request'[q].session = s /\ request'[q].minted = t
      /\ \A p \in Requests \ {q} : request'[p] = request[p]
  <2> DEFINE r == [pc |-> "reread", session |-> s, minted |-> t]
  <2>1. r \in RequestType /\ r.pc = "reread" /\ r.session = s /\ r.minted = t
    BY <1>3 DEF RequestType, MinterType
  <2>2. request' = [request EXCEPT ![q] = r]
    BY <1>1
  <2> HIDE DEF r
  <2>3. Shape
    BY DEF SInv
  <2> QED BY <2>1, <2>2, <2>3, RequestTo
<1>8. Shape'
  BY <1>1, <1>2, <1>4, <1>7 DEF SInv, Shape
<1>9. TypeOK'
  <2>1. \A x \in SessionIds :
          /\ session'[x].status \in {"none", "live", "expired", "revoked"}
          /\ {session'[x].aged, session'[x].assumed} \subseteq BOOLEAN
    BY <1>4 DEF SessionType
  <2>2. \A x \in SessionIds : session'[x].aged => session'[x].status = "revoked"
    BY <1>4 DEF SInv, TypeOK
  <2>3. \A x \in Made' : {session'[x].root, session'[x].login} \subseteq Made'
    BY <1>2, <1>4, <1>5
  <2>4. ASSUME NEW x \in SessionIds, session'[x].rotatedFrom # None
        PROVE  LET p == session'[x].rotatedFrom
               IN  /\ session'[p].status = "revoked"
                   /\ session'[p].root = session'[x].root /\ session'[p].login = session'[x].login
                   /\ session'[x].assumed => session'[p].assumed
    <3>1. CASE x = t
      <4>1. session'[s] = session[s]
        BY <1>2, <1>5
      <4> QED BY <1>1, <1>3, <1>4, <3>1, <4>1
    <3>2. CASE x # t
      <4>1. session'[x] = session[x]
        BY <1>4, <3>2
      <4>2. session[x].rotatedFrom \in Made
            /\ session'[session[x].rotatedFrom] = session[session[x].rotatedFrom]
        BY <1>5, <1>6, <2>4, <4>1
      <4> QED BY <2>4, <4>1, <4>2 DEF SInv, TypeOK
    <3> QED BY <3>1, <3>2
  <2>5. \A p \in Requests :
          /\ request'[p].pc \in {"idle", "admitted", "claim", "gate", "reread", "converge",
                              "stamp", "sweep", "exit"}
          /\ request'[p].pc # "idle" => request'[p].session \in known'
          /\ request'[p].pc \in {"reread", "exit"} => request'[p].minted \in Made'
    BY <1>1, <1>2, <1>4, <1>7 DEF SInv, TypeOK
  <2>6. /\ \A l \in Stampers : stamper'[l].pc \in {"idle", "stamp", "revoke"}
        /\ {stamp', known', over', escaped'} \subseteq SUBSET Made'
    BY <1>1, <1>2, <1>4 DEF SInv, TypeOK
  <2> QED BY <2>1, <2>2, <2>3, <2>4, <2>5, <2>6 DEF TypeOK
<1>10. OneToken'
  <2>1. q \in Gate /\ Root(q) = session[s].root
    BY <1>1 DEF Gate, Root, s
  <2>2. \A p \in Gate' :
          /\ p \in Gate /\ p # q /\ request'[p] = request[p]
          /\ request[p].session \in Made /\ Root(p)' = Root(p) /\ Root(p) # session[s].root
    <3>1. \A p \in Gate' : p \in Gate /\ p # q /\ request'[p] = request[p]
      BY <1>7 DEF Gate
    <3>2. \A p \in Gate : request[p].session \in Made
      BY <1>2 DEF Gate, SInv, TypeOK
    <3>3. \A p \in Gate' : Root(p)' = Root(p)
      BY <1>5, <3>1, <3>2 DEF Root
    <3> QED BY <2>1, <3>1, <3>2, <3>3 DEF SInv, OneToken
  <2>3. \A x, y \in Unrevoked' : session'[x].root = session'[y].root => x = y
    BY <1>2, <1>4, <1>5, <2>1 DEF SInv, OneToken
  <2>4. \A p \in Gate', x \in Unrevoked' : session'[x].root # Root(p)'
    BY <1>2, <1>4, <1>5, <2>2 DEF SInv, OneToken
  <2>5. \A p, r \in Gate' : Root(p)' = Root(r)' => p = r
    BY <2>2 DEF SInv, OneToken
  <2>6. ASSUME NEW p \in Gate'
        PROVE  /\ session'[request'[p].session].status = "revoked"
               /\ \A x \in Made' : session'[x].rotatedFrom # request'[p].session
    <3>1. request[p].session # s
      BY <2>2 DEF Root
    <3>2. /\ session[request[p].session].status = "revoked"
          /\ \A x \in Made : session[x].rotatedFrom # request[p].session
      BY <2>2 DEF SInv, OneToken
    <3> QED BY <1>4, <1>5, <2>2, <3>1, <3>2
  <2>7. \A x, y \in Made' : session'[x].rotatedFrom = session'[y].rotatedFrom
                             => x = y \/ session'[x].rotatedFrom = None
    BY <1>2, <1>3, <1>4, <1>5 DEF SInv, OneToken
  <2> QED BY <2>3, <2>4, <2>5, <2>6, <2>7 DEF OneToken
<1>11. Mints'
  <2>1. \A p \in Requests : request[p].pc \in {"reread", "exit"} => request[p].minted \in Made
    BY DEF SInv, TypeOK
  <2>2. \A p \in Requests : request'[p].pc = "reread" =>
          session'[request'[p].minted].rotatedFrom = request'[p].session
    BY <1>4, <1>5, <1>7, <2>1 DEF SInv, Mints
  <2>3. \A p \in Exits' : p \in Exits /\ request'[p] = request[p] /\ request[p].minted \in Made
    BY <1>7, <2>1 DEF Exits
  <2>4. \A p \in Exits' :
          LET x == request'[p].minted
          IN  /\ session'[x].rotatedFrom = None /\ session'[x].root = x /\ x \notin known'
              /\ x \in Unrevoked' \cup ended'
    BY <1>1, <1>4, <1>5, <2>3 DEF SInv, Mints
  <2>5. \A p, r \in Exits' : request'[p].minted = request'[r].minted => p = r
    BY <2>3 DEF SInv, Mints
  <2> QED BY <2>2, <2>4, <2>5 DEF Mints
<1>12. Stamps'
  <2>1. Instants'
    <3>1. \A F : Instant(F) => /\ F \subseteq Made'
                              /\ \A x \in F : session'[x].rotatedFrom # None => session'[x].rotatedFrom \in F
      BY <1>4, <1>5 DEF Instant
    <3>2. \A p \in Requests : request'[p].pc = "stamp" => request'[p] = request[p]
      BY <1>7
    <3>3. Instant(stamp) /\ stamp' = stamp
      BY <1>1 DEF SInv, Stamps, Instants
    <3>4. ASSUME NEW l \in Stampers, stamper'[l].pc # "idle"
          PROVE  Instant(stamper[l].found) /\ stamper'[l] = stamper[l]
      BY <1>1, <3>4 DEF SInv, Stamps, Instants
    <3>5. ASSUME NEW p \in Requests, request'[p].pc = "stamp"
          PROVE  Instant(request[p].found) /\ request'[p] = request[p]
      BY <3>2, <3>5 DEF SInv, Stamps, Instants
    <3> QED BY <3>1, <3>3, <3>4, <3>5 DEF Instants, Instant
  <2>2. Found' = Found
    BY <1>1 DEF Found
  <2>3. \A x \in stamp' : session'[x].root \in ended'
    BY <1>1, <1>2, <1>5 DEF SInv, Stamps
  <2>4. escaped \subseteq escaped' /\ escaped' \subseteq escaped \cup {t} /\ (s \in escaped => t \in escaped')
    BY <1>1
  <2>5. ASSUME NEW u \in Made', session'[u].rotatedFrom \in escaped' \ stamp' PROVE u \in escaped'
    <3>1. CASE u = t
      BY <1>2, <1>4, <2>4, <2>5, <3>1
    <3>2. CASE u # t
      <4>1. u \in Made /\ session'[u] = session[u]
        BY <1>4, <1>5, <3>2
      <4>2. session[u].rotatedFrom \in SessionIds /\ session[u].rotatedFrom # None
        BY <1>2, <1>4, <2>4, <2>5, <4>1
      <4>3. session[u].rotatedFrom \in escaped \ stamp
        BY <1>1, <1>2, <1>6, <2>4, <2>5, <4>1, <4>2
      <4> QED BY <2>4, <4>1, <4>3 DEF SInv, Stamps
    <3> QED BY <3>1, <3>2
  <2>6. Given' = Given /\ Given \subseteq Made
    <3>1. s # None
      BY <1>3
    <3> QED BY <1>1, <1>2, <1>4, <1>5, <3>1 DEF Given
  <2>7. \A x \in Given' \ stamp' : session'[x].login \in Found' => x \in escaped'
    BY <1>1, <1>5, <2>2, <2>4, <2>6 DEF SInv, Stamps
  <2>8. \A x \in Given' \cap Unrevoked' : session'[x].login \in over' => x \in escaped'
    BY <1>1, <1>4, <1>5, <2>4, <2>6 DEF SInv, Stamps
  <2> QED BY <2>1, <2>3, <2>5, <2>7, <2>8 DEF Stamps
<1>13. LineageKept'
  <2>1. Minting(t)' /\ session'[t].root = session[s].root /\ t \in Unrevoked'
    BY <1>4, <1>7 DEF Minting
  <2>2. {session'[x].root : x \in Made'} \ ended' = {session[x].root : x \in Made} \ ended
    <3>1. {session'[x].root : x \in Made} = {session[x].root : x \in Made}
      BY <1>5
    <3>2. session[s].root \in {session[x].root : x \in Made}
      BY <1>2
    <3>3. {session'[x].root : x \in Made'} = {session'[x].root : x \in Made} \cup {session'[t].root}
      BY <1>4
    <3> QED BY <1>1, <1>4, <3>1, <3>2, <3>3
  <2> SUFFICES ASSUME NEW x \in Made, session[x].root \notin ended
               PROVE  \/ \E y \in Unrevoked' : session'[y].root = session[x].root /\ (y \in known' \/ Minting(y)')
                      \/ \E p \in Requests : request'[p].pc = "gate"
                                             /\ session'[request'[p].session].root = session[x].root
                      \/ \E p \in Requests : request'[p].pc = "exit" /\ request'[p].minted = session[x].root
    BY <2>2 DEF LineageKept
  <2>3. CASE session[x].root = session[s].root
    BY <2>1, <2>3
  <2>4. CASE \E y \in Unrevoked : session[y].root = session[x].root /\ (y \in known \/ Minting(y))
    <3>1. \A y : Minting(y) => Minting(y)'
      BY <1>1, <1>7 DEF Minting
    <3> QED BY <1>1, <1>2, <1>4, <1>5, <2>4, <3>1
  <2>5. ASSUME NEW p \in Requests, request[p].pc = "gate", p # q,
               session[request[p].session].root = session[x].root
        PROVE  request'[p] = request[p] /\ session'[request[p].session].root = session[x].root
    <3>1. request[p].session \in Made
      BY <1>2, <2>5 DEF SInv, TypeOK
    <3> QED BY <1>5, <1>7, <2>5, <3>1
  <2>6. \A p \in Requests : request[p].pc = "exit" => request'[p] = request[p]
    BY <1>1, <1>7
  <2>7. session[request[q].session].root = session[s].root
    BY DEF s
  <2> QED BY <2>3, <2>4, <2>5, <2>6, <2>7 DEF SInv, LineageKept
<1> QED BY <1>8, <1>9, <1>10, <1>11, <1>12, <1>13 DEF SInv

-----------------------------------------------------------------------------
LEMMA SInvInit == Init => SInv
<1> SUFFICES ASSUME Init PROVE SInv
  OBVIOUS
<1>1. Made = {} /\ Unrevoked = {}
  BY DEF Init, Made, Unrevoked, NoSession
<1>2. Shape
  BY DEF Init, Shape, NoSession, SessionType, StamperType, RequestType
<1>3. TypeOK
  BY <1>1 DEF Init, TypeOK, NoSession, Idle
<1>4. OneToken /\ Mints
  BY <1>1 DEF Init, OneToken, Mints, Gate, Exits, Idle
<1>5. Stamps /\ LineageKept
  BY <1>1 DEF Init, Stamps, Instants, Instant, Given, LineageKept, Idle
<1> QED BY <1>2, <1>3, <1>4, <1>5 DEF SInv

(* Under a session that was let in, by now stamped or not, a lineage starts. *)
LEMMA OpenStep ==
  ASSUME SInv, NEW q \in Requests, NEW t \in SessionIds, assumeTenant(q, t) \/ exitTenant(q, t)
  PROVE  SInv'
<1> DEFINE s == request[q].session
<1>1. /\ request[q].pc = "admitted" /\ UNCHANGED <<stamper, stamp, over, ended>>
      /\ Opened(s, t, TRUE) \/ Opened(s, t, FALSE)
      /\ \/ known' = known \cup {t} /\ request' = [request EXCEPT ![q] = Idle]
         \/ /\ known' = known
            /\ request' = [request EXCEPT ![q] = [pc |-> "exit", session |-> s, minted |-> t]]
  BY DEF assumeTenant, exitTenant
<1>2. s \in known /\ known \subseteq Made
  BY <1>1, RequestShapes
<1> HIDE DEF s
<1> DEFINE login == session[s].login
<1>3. PICK assumed \in BOOLEAN :
        /\ session[t].status = "none"
        /\ session' = [session EXCEPT ![t] = generateTokens(None, t, login, assumed)]
        /\ escaped' = IF s \in stamp \cup escaped THEN escaped \cup {t} ELSE escaped
  BY <1>1 DEF Opened
<1>4. login \in Made
  BY <1>2 DEF SInv, TypeOK, Made
<1>5. login \in Found => s \in stamp \cup escaped
  BY <1>2 DEF SInv, Stamps, Given
<1> HIDE DEF login
<1>6. /\ escaped \subseteq escaped' /\ escaped' \subseteq escaped \cup {t}
      /\ login \in Found => t \in escaped'
  BY <1>3, <1>5
<1> QED BY <1>1, <1>2, <1>3, <1>4, <1>6, RootStep

LEMMA SInvNext == SInv /\ [Next]_vars => SInv'
<1> SUFFICES ASSUME SInv, [Next]_vars PROVE SInv'
  OBVIOUS
<1>1. ASSUME NEW s \in SessionIds, verifyOtp(s) PROVE SInv'
  <2>1. s \notin Found
    <3>1. Found \subseteq Made
      BY DEF Found, SInv, TypeOK, Stamps, Instants, Instant
    <3> QED BY <1>1, <3>1 DEF verifyOtp, Made
  <2> QED BY <1>1, <2>1, RootStep DEF verifyOtp
<1>2. ASSUME NEW q \in Requests, reuseStamp(q) PROVE SInv'
  <2>1. Instant(request[q].found)
    BY <1>2 DEF reuseStamp, SInv, Stamps, Instants
  <2> QED BY <1>2, <2>1, StampStep DEF reuseStamp
<1>3. ASSUME NEW q \in Requests, reuseSweep(q) PROVE SInv'
  BY <1>3, RevokeAllStep DEF reuseSweep
<1>4. ASSUME NEW l \in Stampers, logoutAllSessions(l) PROVE SInv'
  <2>1. /\ stamper[l].pc = "idle"
        /\ stamper' = [stamper EXCEPT ![l] = [pc |-> "stamp", found |-> Made]]
        /\ UNCHANGED <<session, request, stamp, known, over, escaped, ended>>
    BY <1>4 DEF logoutAllSessions
  <2>2. /\ Made \subseteq SessionIds /\ known \subseteq Made /\ {stamp, over, escaped} \subseteq SUBSET Made
        /\ Made' = Made /\ Unrevoked' = Unrevoked
    BY <2>1 DEF Made, Unrevoked, SInv, TypeOK
  <2>3. /\ stamper' \in [Stampers -> StamperType]
        /\ stamper'[l].pc = "stamp" /\ stamper'[l].found = Made
        /\ \A k \in Stampers \ {l} : stamper'[k] = stamper[k]
    BY <2>1, <2>2 DEF SInv, Shape, StamperType
  <2>4. Tame
    BY <2>1, <2>2, <2>3 DEF Tame, Same, SInv, Shape, TypeOK, Mints, Exits
  <2>5. Plain
    BY <2>1, <2>2, <2>3, <2>4 DEF Plain, Given
  <2> QED BY <2>5, PlainStep
<1>5. ASSUME NEW l \in Stampers, stampUser(l) PROVE SInv'
  <2>1. Instant(stamper[l].found)
    BY <1>5 DEF stampUser, SInv, Stamps, Instants
  <2> QED BY <1>5, <2>1, StampStep DEF stampUser
<1>6. ASSUME NEW l \in Stampers, revokeAll(l) PROVE SInv'
  BY <1>6, RevokeAllStep DEF revokeAll
<1>7. ASSUME NEW q \in Requests, RefreshStep(q) PROVE SInv'
  BY <1>2, <1>3, <1>7, ClaimStep, MintStep, PlainRequests, QuietRequests DEF RefreshStep
<1>8. ASSUME UNCHANGED vars PROVE SInv'
  <2>1. /\ Made' = Made /\ Unrevoked' = Unrevoked
        /\ \A s : Minting(s)' = Minting(s)
        /\ \A F : Instant(F)' = Instant(F)
        /\ Found' = Found /\ Given' = Given /\ Gate' = Gate /\ Exits' = Exits
        /\ \A q : Root(q)' = Root(q)
    BY <1>8 DEF vars, Made, Unrevoked, Minting, Instant, Found, Given, Gate, Exits, Root
  <2>2. Shape' /\ TypeOK' /\ OneToken' /\ Mints'
    BY <1>8, <2>1 DEF vars, SInv, Shape, TypeOK, OneToken, Mints
  <2>3. Instants'
    BY <1>8, <2>1 DEF vars, SInv, Stamps, Instants, Instant
  <2>4. Stamps' /\ LineageKept'
    BY <1>8, <2>1, <2>3 DEF vars, SInv, Stamps, LineageKept
  <2> QED BY <2>2, <2>4 DEF SInv
<1> QED
  BY <1>1, <1>4, <1>5, <1>6, <1>7, <1>8, OpenStep, PlainRequests, QuietRequests, TimeStep DEF Next

(* The state is well formed, and a lineage goes back to its login through    *)
(* sessions that were all revoked before they had a successor.               *)
THEOREM SessionsTypeCorrect == Spec => []TypeOK
<1>1. SInv => TypeOK
  BY DEF SInv
<1> QED BY <1>1, SInvInit, SInvNext, PTL DEF Spec

(* A token is used once, however many tabs refresh it at the same time.      *)
THEOREM TokensAreUsedOnce == Spec => []UsedOnce
<1>1. SInv => UsedOnce
  BY DEF SInv, OneToken, UsedOnce
<1> QED BY <1>1, SInvInit, SInvNext, PTL DEF Spec

(* Whoever was logged in when a logout from everywhere was asked for stays   *)
(* logged out, but for the sessions that escape its stamp.                   *)
THEOREM LogoutsAreForGood == Spec => []LoggedOutForGood
<1>1. SInv => LoggedOutForGood
  BY DEF SInv, Stamps, Given, LoggedOutForGood
<1> QED BY <1>1, SInvInit, SInvNext, PTL DEF Spec

(* Tabs that refresh at the same time do not log their user out.             *)
THEOREM LineagesAreKept == Spec => []LineageKept
<1>1. SInv => LineageKept
  BY DEF SInv
<1> QED BY <1>1, SInvInit, SInvNext, PTL DEF Spec
=============================================================================
