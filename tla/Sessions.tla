------------------------------ MODULE Sessions ------------------------------
(* App profiles (targets.go) and session streams (session_streaming.go).  A  *)
(* request is [kind, id, perm]; with it comes what the target of the session *)
(* is at that moment: gone, or the routing its app profile resolves to.      *)
EXTENDS Integers, Sequences

\* resolveAppProfile: profiles maps the ids of a registered instance to the
\* routing of their profile; an instance that is not registered has none and
\* takes any id.
resolveAppProfile(registered, profiles, requested) ==
  LET id == IF requested = "" THEN "default" ELSE requested
  IN CASE ~registered -> "any"
       [] id \in DOMAIN profiles -> profiles[id]
       [] id = "default" -> "any"
       [] OTHER -> "refused"

\* resolveWriteTarget.
mayWrite(profile, transactional) ==
  /\ profile \notin {"refused", "dataBoost"}
  /\ transactional /\ profile # "any" => profile = "singleTransactional"

-----------------------------------------------------------------------------
NoSession == [open |-> FALSE, canRead |-> FALSE, canWrite |-> FALSE]

\* Unset grants both; a materialized view is read only.
sessionPermissions(targetType, perm) ==
  [open |-> TRUE,
   canRead |-> targetType = "mv" \/ perm # "write",
   canWrite |-> targetType # "mv" /\ perm # "read"]

readTarget(now) == now \notin {"gone", "refused"}
writeTarget(now) == readTarget(now) /\ mayWrite(now, FALSE)

openSession(targetType, perm, now) ==
  LET sess == sessionPermissions(targetType, perm)
  IN IF readTarget(now) /\ (sess.canWrite => writeTarget(now)) THEN sess ELSE NoSession

sessionVirtualRPC(sess, req, now) ==
  CASE req.kind = "read" -> IF sess.canRead /\ readTarget(now) THEN "ok" ELSE "denied"
    [] req.kind = "write" -> IF sess.canWrite /\ writeTarget(now) THEN "ok" ELSE "denied"
    [] OTHER -> "unimplemented"

NewStream == [sess |-> NoSession, sent |-> <<>>, ended |-> "no", wrote |-> {}]

\* One request of the loop of handleSessionStream.
sessionRequest(targetType, s, req, now) ==
  LET opened == openSession(targetType, req.perm, now)
      answer == sessionVirtualRPC(s.sess, req, now)
  IN IF s.ended # "no" THEN s
     ELSE CASE req.kind = "close" -> [s EXCEPT !.ended = "closed"]
            [] req.kind = "open" ->
                 IF s.sess.open \/ ~opened.open THEN [s EXCEPT !.ended = "error"]
                 ELSE [s EXCEPT !.sess = opened, !.sent = Append(@, [id |-> 0, answer |-> "opened"])]
            [] OTHER ->
                 IF ~s.sess.open \/ req.kind = "unknown" THEN [s EXCEPT !.ended = "error"]
                 ELSE [s EXCEPT !.sent = Append(@, [id |-> req.id, answer |-> answer]),
                                !.wrote = IF req.kind = "write" /\ answer = "ok" THEN @ \cup {req.id} ELSE @]

handleSessionStream(targetType, reqs, nows) ==
  LET after[i \in 0..Len(reqs)] ==
        IF i = 0 THEN NewStream ELSE sessionRequest(targetType, after[i - 1], reqs[i], nows[i])
  IN after[Len(reqs)]

\* The request that opens the stream is answered first, then every request in
\* order and with its id, until one ends it; and a row is written exactly when
\* the session was granted writes and, as of that request, its target can still
\* be written.
ContractHolds(targetType, reqs, nows) ==
  LET s == handleSessionStream(targetType, reqs, nows)
      n == Len(s.sent)
      granted == targetType # "mv" /\ reqs[1].perm # "read"
      writable(i) == nows[i] \notin {"gone", "refused", "dataBoost"}
  IN /\ n > 0 => reqs[1].kind = "open" /\ s.sent[1].answer = "opened"
     /\ \A i \in 2..n : s.sent[i].id = i /\ reqs[i].kind \in {"read", "write", "other"}
     /\ s.wrote = {i \in 2..n : reqs[i].kind = "write" /\ granted /\ writable(i)}
     /\ ((s.ended = "no") <=> (n = Len(reqs)))
=============================================================================
