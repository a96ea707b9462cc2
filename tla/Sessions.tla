------------------------------ MODULE Sessions ------------------------------
(***************************************************************************)
(* The sessions of one user (src/api/src/auth/auth.service.ts).  A login   *)
(* starts a lineage of sessions; a refresh claims a session, mints its     *)
(* successor and hands that out; tabs refresh the same session at the same *)
(* time and are to converge on one successor.  "Log out everywhere" stamps *)
(* the user and then revokes every session; a refresh under way reads the  *)
(* stamp again after it minted.  A token replayed after its grace, with no *)
(* successor left, counts as stolen, and ends every session too.  Under    *)
(* the token of a session an operator assumes a tenant, or leaves it       *)
(* again: either starts a lineage of its own.                              *)
(*                                                                         *)
(* Instants matter only in comparisons: an instant is the set of sessions  *)
(* made before it; a session was revoked longer ago than the grace period, *)
(* or not; it has expired, or not.                                         *)
(***************************************************************************)
EXTENDS Integers, FiniteSets

CONSTANTS
  SessionIds, Requests,
  Stampers,        \* logouts from everywhere under way: by the user, by an admin
  ServerMayDie

None == "none"

ASSUME SessionsAssumption == ServerMayDie \in BOOLEAN /\ None \notin SessionIds

VARIABLES
  session,   \* user_sessions: status, lineage (root), and the login it goes back to
  request,   \* refreshes, assumptions of a tenant and exits from it under way
  stamper,   \* logouts from everywhere under way, and the sessions they found
  stamp,     \* users.sessionsInvalidBefore: the sessions made before it
  known,     \* sessions whose tokens some client was given
  over,      \* sessions there were when a logout, finished by now, was asked for
  escaped,   \* sessions that outlive a logout, see LoggedOutForGood
  ended      \* lineages that something else ended: a gate, an exit, an expiry ...

vars == <<session, request, stamper, stamp, known, over, escaped, ended>>

NoSession == [status |-> "none", aged |-> FALSE, rotatedFrom |-> None,
              root |-> None, login |-> None, assumed |-> FALSE]
Idle == [pc |-> "idle"]

Init ==
  /\ session = [s \in SessionIds |-> NoSession]
  /\ request = [q \in Requests |-> Idle]
  /\ stamper = [l \in Stampers |-> Idle]
  /\ stamp = {} /\ known = {} /\ over = {} /\ escaped = {} /\ ended = {}

Unrevoked == {s \in SessionIds : session[s].status \in {"live", "expired"}}
Made == {s \in SessionIds : session[s].status # "none"}

Revoked(S) == [s \in SessionIds |->
  IF s \in S \cap Unrevoked THEN [session[s] EXCEPT !.status = "revoked"] ELSE session[s]]

TokensAssumed(from, root, login, assumed) ==   \* mutant: any refresh is taken for an operator's
  [NoSession EXCEPT !.status = "live", !.rotatedFrom = from, !.root = root,
                    !.login = login, !.assumed = assumed \/ from # None]

generateTokens(from, root, login, assumed) ==
  [NoSession EXCEPT !.status = "live", !.rotatedFrom = from, !.root = root,
                    !.login = login, !.assumed = assumed]

(* The user is stamped with an instant, taken before, at which there were    *)
(* the sessions `found`: what was made since escapes this logout.            *)
Stamped(found) ==
  /\ stamp' = found
  /\ escaped' = escaped \cup (Made \ found)
  /\ ended' = ended \cup {session[s].root : s \in found}

RevokedAll ==
  /\ session' = Revoked(SessionIds)
  /\ escaped' = escaped \ stamp
  /\ ended' = ended \cup {session[s].root : s \in Made}

-----------------------------------------------------------------------------
verifyOtp(s) ==
  /\ session[s].status = "none"
  /\ session' = [session EXCEPT ![s] = generateTokens(None, s, s, FALSE)]
  /\ known' = known \cup {s}
  /\ UNCHANGED <<request, stamper, stamp, over, escaped, ended>>

(* The guard lets the bearer of an unrevoked session in, once, ...           *)
Usable(s) == session[s].status = "live" /\ s \in known

validate(q, s) ==
  /\ request[q].pc = "idle"
  /\ Usable(s)
  /\ request' = [request EXCEPT ![q] = [pc |-> "admitted", session |-> s]]
  /\ UNCHANGED <<session, stamper, stamp, known, over, escaped, ended>>

(* ... and what is opened under it does not look at the session again.       *)
Opened(s, t, assumed) ==
  /\ session[t].status = "none"
  /\ session' = [session EXCEPT ![t] = generateTokens(None, t, session[s].login, assumed)]
  /\ escaped' = IF s \in stamp \cup escaped THEN escaped \cup {t} ELSE escaped

assumeTenant(q, t) ==
  /\ request[q].pc = "admitted"
  /\ Opened(request[q].session, t, TRUE)
  /\ known' = known \cup {t}
  /\ request' = [request EXCEPT ![q] = Idle]
  /\ UNCHANGED <<stamper, stamp, over, ended>>

(* An exit mints the home session first, ...                                 *)
exitTenant(q, t) ==
  LET s == request[q].session
  IN  /\ request[q].pc = "admitted" /\ session[s].assumed
      /\ Opened(s, t, FALSE)
      /\ request' = [request EXCEPT ![q] = [pc |-> "exit", session |-> s, minted |-> t]]
      /\ UNCHANGED <<stamper, stamp, known, over, ended>>

(* ... then revokes the session and the successors it has by now.            *)
exitRevoke(q) ==
  LET s == request[q].session
  IN  /\ request[q].pc = "exit"
      /\ session' = Revoked({s} \cup {t \in SessionIds : session[t].rotatedFrom = s})
      /\ known' = known \cup {request[q].minted}
      /\ ended' = ended \cup {session[s].root}
      /\ request' = [request EXCEPT ![q] = Idle]
      /\ UNCHANGED <<stamper, stamp, over, escaped>>

-----------------------------------------------------------------------------
(* A refresh reads the session, whatever became of it, and refuses one that  *)
(* predates the stamp.                                                       *)
Refused(s) == s \in stamp

refreshRead(q, s) ==
  /\ request[q].pc = "idle"
  /\ s \in known
  /\ ~Refused(s)
  /\ request' = [request EXCEPT ![q] =
       [pc |-> IF session[s].status = "live" THEN "claim" ELSE "converge",
        session |-> s, revoked |-> session[s].status = "revoked"]]
  /\ UNCHANGED <<session, stamper, stamp, known, over, escaped, ended>>

ClaimWonAsRead(s) == TRUE             \* mutant: the claim is not tested again
ClaimWon(s) == s \in Unrevoked

claim(q) ==
  LET s == request[q].session
  IN  /\ request[q].pc = "claim"
      /\ session' = Revoked({s})
      /\ request' = [request EXCEPT ![q].pc = IF ClaimWon(s) THEN "gate" ELSE "converge"]
      /\ UNCHANGED <<stamper, stamp, known, over, escaped, ended>>

(* A gate refuses (the grant was taken back, the outlet or vendor was        *)
(* deactivated), or a query throws: the claimed session stays revoked.       *)
gateRefuses(q) ==
  /\ request[q].pc = "gate"
  /\ request' = [request EXCEPT ![q] = Idle]
  /\ ended' = ended \cup {session[request[q].session].root}
  /\ UNCHANGED <<session, stamper, stamp, known, over, escaped>>

(* The successor is minted.  It stays in the assumed tenant, unless the user *)
(* is no operator any more.                                                  *)
mint(q, t, assumed) ==
  LET s == request[q].session
  IN  /\ request[q].pc = "gate"
      /\ session[t].status = "none"
      /\ assumed => session[s].assumed
      /\ session' = [session EXCEPT ![t] =
                       generateTokens(s, session[s].root, session[s].login, assumed)]
      /\ escaped' = IF s \in escaped THEN escaped \cup {t} ELSE escaped
      /\ request' = [request EXCEPT ![q] = [pc |-> "reread", session |-> s, minted |-> t]]
      /\ UNCHANGED <<stamper, stamp, known, over, ended>>

NotSwept(s) == FALSE                  \* mutant: the stamp is not read again
SweptEver(s) == stamp # {}            \* mutant: nor compared with the session
SweptSince(s) == s \in stamp

(* The stamp is read again: a successor it forbids is revoked, not handed out. *)
reread(q) ==
  LET s == request[q].session
      t == request[q].minted
  IN  /\ request[q].pc = "reread"
      /\ IF SweptSince(s)
         THEN session' = Revoked({t}) /\ UNCHANGED known
         ELSE known' = known \cup {t} /\ UNCHANGED session
      /\ request' = [request EXCEPT ![q] = Idle]
      /\ UNCHANGED <<stamper, stamp, over, escaped, ended>>

(* The server dies in the middle of a refresh or an exit.                    *)
requestDies(q) ==
  /\ ServerMayDie
  /\ request[q].pc \in {"gate", "reread", "exit"}
  /\ ended' = ended \cup {session[request[q].session].root}
                    \cup (IF request[q].pc = "exit" THEN {request[q].minted} ELSE {})
  /\ request' = [request EXCEPT ![q] = Idle]
  /\ UNCHANGED <<session, stamper, stamp, known, over, escaped>>

-----------------------------------------------------------------------------
(* What could not be claimed is answered with its successor, if one lives.   *)
Minting(t) == \E q \in Requests : request[q].pc = "reread" /\ request[q].minted = t

Successors(s) == {t \in Unrevoked : session[t].rotatedFrom = s}

converge(q, t) ==
  /\ request[q].pc = "converge"
  /\ t \in Successors(request[q].session)
  /\ known' = known \cup {t}
  /\ escaped' = IF request[q].session \in stamp THEN escaped \cup {t} ELSE escaped
  /\ request' = [request EXCEPT ![q] = Idle]
  /\ UNCHANGED <<session, stamper, stamp, over, ended>>

Reused(q) == request[q].revoked /\ session[request[q].session].aged

convergeFails(q) ==
  /\ request[q].pc = "converge"
  /\ Successors(request[q].session) = {}
  /\ request' = [request EXCEPT ![q] =
       IF Reused(q) THEN [pc |-> "stamp", session |-> request[q].session, found |-> Made] ELSE Idle]
  /\ UNCHANGED <<session, stamper, stamp, known, over, escaped, ended>>

(* A reuse stamps the user, then revokes all sessions; either may fail.      *)
reuseStamp(q) ==
  /\ request[q].pc = "stamp"
  /\ Stamped(request[q].found)
  /\ request' = [request EXCEPT ![q] = [pc |-> "sweep", session |-> request[q].session]]
  /\ UNCHANGED <<session, stamper, known, over>>

reuseSweep(q) ==
  /\ request[q].pc = "sweep"
  /\ RevokedAll
  /\ request' = [request EXCEPT ![q] = Idle]
  /\ UNCHANGED <<stamper, stamp, known, over>>

(* So may what has not begun to open a session.                              *)
requestFails(q) ==
  /\ request[q].pc \in {"admitted", "stamp", "sweep"}
  /\ request' = [request EXCEPT ![q] = Idle]
  /\ UNCHANGED <<session, stamper, stamp, known, over, escaped, ended>>

-----------------------------------------------------------------------------
(* Log out everywhere: take the instant, stamp the user with it, revoke.     *)
logoutAllSessions(l) ==
  /\ stamper[l].pc = "idle"
  /\ stamper' = [stamper EXCEPT ![l] = [pc |-> "stamp", found |-> Made]]
  /\ UNCHANGED <<session, request, stamp, known, over, escaped, ended>>

stampUser(l) ==
  /\ stamper[l].pc = "stamp"
  /\ Stamped(stamper[l].found)
  /\ stamper' = [stamper EXCEPT ![l].pc = "revoke"]
  /\ UNCHANGED <<session, request, known, over>>

revokeAll(l) ==
  /\ stamper[l].pc = "revoke"
  /\ RevokedAll
  /\ over' = over \cup stamper[l].found
  /\ stamper' = [stamper EXCEPT ![l] = Idle]
  /\ UNCHANGED <<request, stamp, known>>

(* Time passes: a session expires, a revoked one leaves its grace period.    *)
Expire(s) ==
  /\ session[s].status = "live"
  /\ session' = [session EXCEPT ![s].status = "expired"]
  /\ ended' = ended \cup {session[s].root}
  /\ UNCHANGED <<request, stamper, stamp, known, over, escaped>>

Age(s) ==
  /\ session[s].status = "revoked" /\ ~session[s].aged
  /\ session' = [session EXCEPT ![s].aged = TRUE]
  /\ UNCHANGED <<request, stamper, stamp, known, over, escaped, ended>>

-----------------------------------------------------------------------------
RefreshStep(q) ==
  \/ claim(q) \/ gateRefuses(q) \/ reread(q) \/ convergeFails(q)
  \/ reuseStamp(q) \/ reuseSweep(q)
  \/ \E t \in SessionIds : converge(q, t) \/ \E assumed \in BOOLEAN : mint(q, t, assumed)

Next ==
  \/ \E s \in SessionIds : verifyOtp(s) \/ Expire(s) \/ Age(s)
  \/ \E q \in Requests :
       \/ \E s \in SessionIds : refreshRead(q, s) \/ validate(q, s)
       \/ \E t \in SessionIds : assumeTenant(q, t) \/ exitTenant(q, t)
       \/ RefreshStep(q) \/ exitRevoke(q) \/ requestFails(q) \/ requestDies(q)
  \/ \E l \in Stampers : logoutAllSessions(l) \/ stampUser(l) \/ revokeAll(l)

Spec == Init /\ [][Next]_vars

-----------------------------------------------------------------------------
(* The state is well formed; a lineage goes back to its login through        *)
(* sessions that were all revoked before they had a successor, and a refresh *)
(* leads into no tenant that was not assumed.                                *)
TypeOK ==
  /\ \A s \in SessionIds :
       /\ session[s].status \in {"none", "live", "expired", "revoked"}
       /\ {session[s].aged, session[s].assumed} \subseteq BOOLEAN
       /\ session[s].aged => session[s].status = "revoked"
       /\ s \in Made => {session[s].root, session[s].login} \subseteq Made
       /\ session[s].rotatedFrom # None =>
            LET p == session[s].rotatedFrom
            IN  /\ session[p].status = "revoked"
                /\ session[p].root = session[s].root /\ session[p].login = session[s].login
                /\ session[s].assumed => session[p].assumed
  /\ \A q \in Requests :
       /\ request[q].pc \in {"idle", "admitted", "claim", "gate", "reread", "converge", "stamp", "sweep", "exit"}
       /\ request[q].pc # "idle" => request[q].session \in known
       /\ request[q].pc \in {"reread", "exit"} => request[q].minted \in Made
  /\ \A l \in Stampers : stamper[l].pc \in {"idle", "stamp", "revoke"}
  /\ {stamp, known, over, escaped} \subseteq SUBSET Made

(* A token is used once: a lineage has one session that is not revoked, and  *)
(* a session one successor, however many tabs refresh it at the same time.   *)
UsedOnce ==
  /\ \A s, t \in Unrevoked : session[s].root = session[t].root => s = t
  /\ \A s, t \in Made : session[s].rotatedFrom = session[t].rotatedFrom
                          => s = t \/ session[s].rotatedFrom = None

(* Whoever was logged in when "log out everywhere" was asked for is logged   *)
(* out when it is done, and stays so, whatever refreshes, assumptions and    *)
(* exits were under way: no client holds a live session that goes back to a  *)
(* login that was there.  But for what escapes, where the code falls short:  *)
(* sessions made after the logout took its instant and before the user was   *)
(* stamped with it; successors handed to a second tab before their minter    *)
(* read the stamp; what was opened under a session that the guard let in     *)
(* before; and what came of those.                                           *)
LoggedOutForGood ==
  \A s \in known \cap Unrevoked : session[s].login \in over => s \in escaped

(* "so nothing live survives 'log out everywhere'" (refreshToken).           *)
NothingSurvives ==
  \A s \in known \cap Unrevoked : session[s].root \in over => Minting(s)

(* Tabs that refresh at the same time do not log their user out: a lineage   *)
(* has a session that is not revoked, or is about to, as long as no logout,  *)
(* reuse, exit, expiry, crash or gate ended it.                              *)
LineageKept ==
  \A r \in {session[s].root : s \in Made} \ ended :
    \/ \E s \in Unrevoked : session[s].root = r /\ (s \in known \/ Minting(s))
    \/ \E q \in Requests : request[q].pc = "gate" /\ session[request[q].session].root = r
    \/ \E q \in Requests : request[q].pc = "exit" /\ request[q].minted = r

(* "Nuke the lineage ONLY when the predecessor was ALREADY REVOKED           *)
(* (previously rotated)" (refreshToken).  It may have been revoked by an     *)
(* exit, or claimed by a refresh that a gate refused.                        *)
AlarmOnlyOnReuse ==
  \A q \in Requests : request[q].pc = "stamp" =>
    \/ \E t \in Made : session[t].rotatedFrom = request[q].session
    \/ \E h \in Requests : request[h].pc = "gate" /\ request[h].session = request[q].session
=============================================================================
