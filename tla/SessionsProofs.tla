---------------------------- MODULE SessionsProofs ----------------------------
(***************************************************************************)
(* Proofs about sessions, for any numbers of users, tokens and requests    *)
(* and any lifetime, on a clock that never stops.                          *)
(***************************************************************************)
EXTENDS Sessions, TLAPS

\* What a request knows of its token.
ConnOK(r) ==
  /\ At(r, "create") =>
       /\ conn[r].token \in issued \ held
       /\ sessions[conn[r].token] = NoRow
       /\ conn[r].row \in Rows
  /\ conn[r].pc \in {"logout", "lookup", "check", "purge"} => conn[r].token \in held
  /\ At(r, "lookup") => (conn[r].late => conn[r].token \in deleted)
  /\ conn[r].pc \in {"check", "purge"} =>
       /\ conn[r].row \in Rows
       /\ ~conn[r].late
       /\ sessions[conn[r].token] \in {conn[r].row, NoRow}
  /\ At(r, "purge") => now > conn[r].row.expires

\* The inductive invariant: a token is drawn for one login only, has a row only
\* after that login, and none after the logout that deleted it.
SessionsInv ==
  /\ TypeOK
  /\ \A r \in Slots : ConnOK(r)
  /\ \A r, s \in Slots :
       r # s /\ At(r, "create") /\ At(s, "create") => conn[r].token # conn[s].token
  /\ \A t \in Tokens : sessions[t] # NoRow => t \in issued
  /\ \A t \in deleted : sessions[t] = NoRow

-----------------------------------------------------------------------------
\* A request that goes on over an unchanged table.
LEMMA ConnMoves ==
  ASSUME SessionsInv, UNCHANGED <<now, sessions, issued, born, held, deleted>>,
         NEW r \in Slots, NEW q \in Done \cup Busy, conn' = [conn EXCEPT ![r] = q],
         q.pc # "create", ConnOK(r)'
  PROVE  SessionsInv'
<1>1. conn \in [Slots -> Done \cup Busy]
  BY DEF SessionsInv, TypeOK
<1>2. conn'[r] = q /\ \A s \in Slots : s # r => conn'[s] = conn[s]
  BY <1>1
<1>3. ASSUME NEW s \in Slots, s # r PROVE ConnOK(s)'
  <2>1. conn'[s] = conn[s] /\ ConnOK(s)
    BY <1>2, <1>3 DEF SessionsInv
  <2>2. QED
    BY <2>1 DEF ConnOK, At
<1>4. \A s \in Slots : ConnOK(s)'
  BY <1>3
<1>5. conn' \in [Slots -> Done \cup Busy]
  BY <1>1
<1>6. TypeOK'
  BY <1>4, <1>5 DEF SessionsInv, TypeOK, ConnOK, At
<1>7. \A s, u \in Slots :
        s # u /\ At(s, "create")' /\ At(u, "create")' => conn'[s].token # conn'[u].token
  BY <1>2 DEF SessionsInv, At
<1>8. QED
  BY <1>4, <1>6, <1>7 DEF SessionsInv, At

LEMMA Answered ==
  ASSUME SessionsInv, UNCHANGED <<now, sessions, issued, born, held, deleted>>,
         NEW r \in Slots, NEW answer \in Answers, Reply(r, answer)
  PROVE  SessionsInv'
<1> DEFINE q == [pc |-> "idle", reply |-> answer]
<1>1. q \in Done /\ q.pc = "idle" /\ conn' = [conn EXCEPT ![r] = q]
  BY DEF Done, Reply
<1> HIDE DEF q
<1>2. conn'[r] = q
  BY <1>1 DEF SessionsInv, TypeOK
<1>3. ConnOK(r)'
  BY <1>1, <1>2 DEF ConnOK, At
<1>4. QED
  BY <1>1, <1>3, ConnMoves

LEMMA MembershipIsBoolean ==
  ASSUME NEW t, NEW S PROVE (t \in S) \in BOOLEAN
BY SMT

\* A request with the token of an earlier login.
LEMMA BeginInv ==
  ASSUME SessionsInv, UNCHANGED <<now, sessions, issued, born, held, deleted>>,
         NEW r \in Slots, NEW stage \in {"logout", "lookup"}, NEW t \in held,
         NEW a \in Actions \cup {""}, Begin(r, stage, t, NoRow, a)
  PROVE  SessionsInv'
<1> DEFINE late == t \in deleted
           q == [pc |-> stage, token |-> t, row |-> NoRow, action |-> a, late |-> late]
<1>1. conn' = [conn EXCEPT ![r] = q]
  BY DEF Begin
<1>2. t \in Tokens
  <2> HIDE DEF q
  <2>1. QED
    BY DEF SessionsInv, TypeOK
<1>3. late \in BOOLEAN
  BY MembershipIsBoolean, Zenon
<1>4. late => t \in deleted
  BY Zenon
<1> HIDE DEF late
<1>5. q \in Busy /\ q.pc = stage /\ q.token = t /\ q.late = late
  BY <1>2, <1>3 DEF Busy
<1> HIDE DEF q
<1>6. conn'[r] = q
  BY <1>1 DEF SessionsInv, TypeOK
<1>7. ConnOK(r)'
  BY <1>4, <1>5, <1>6 DEF ConnOK, At
<1>8. QED
  BY <1>1, <1>5, <1>7, ConnMoves

\* GetSession found the row of a token nobody has logged out.
LEMMA LookupInv ==
  ASSUME SessionsInv, NEW r \in Slots, Lookup(r) PROVE SessionsInv'
<1> DEFINE q == [conn[r] EXCEPT !.pc = "check", !.row = sessions[conn[r].token]]
<1>1. UNCHANGED <<now, sessions, issued, born, held, deleted>>
  BY DEF Lookup
<1>2. conn \in [Slots -> Done \cup Busy] /\ conn[r].pc = "lookup"
  BY DEF Lookup, At, SessionsInv, TypeOK
<1>3. conn[r] \in Busy
  BY <1>2 DEF Done
<1>4. conn[r].token \in Tokens /\ conn[r].late \in BOOLEAN
  BY <1>3 DEF Busy
<1>5. sessions[conn[r].token] \in Rows
  BY <1>4 DEF Lookup, SessionsInv, TypeOK
<1>6. conn[r].token \in held /\ ~conn[r].late
  BY <1>2 DEF Lookup, SessionsInv, ConnOK, At
<1>7. conn' = [conn EXCEPT ![r] = q]
  BY <1>2 DEF Lookup
<1>8. /\ q \in Busy /\ q.pc = "check" /\ q.token = conn[r].token
      /\ q.row = sessions[conn[r].token] /\ q.late = conn[r].late
  BY <1>3, <1>5 DEF Busy
<1> HIDE DEF q
<1>9. conn'[r] = q
  BY <1>2, <1>7
<1>10. ConnOK(r)'
  BY <1>1, <1>5, <1>6, <1>8, <1>9 DEF ConnOK, At
<1>11. QED
  BY <1>1, <1>7, <1>8, <1>10, ConnMoves

LEMMA FoundExpiredInv ==
  ASSUME SessionsInv, NEW r \in Slots, FoundExpired(r) PROVE SessionsInv'
<1> DEFINE q == [conn[r] EXCEPT !.pc = "purge"]
<1>1. UNCHANGED <<now, sessions, issued, born, held, deleted>>
  BY DEF FoundExpired
<1>2. conn \in [Slots -> Done \cup Busy] /\ conn[r].pc = "check" /\ ConnOK(r)
  BY DEF FoundExpired, At, SessionsInv, TypeOK
<1>3. conn[r] \in Busy
  BY <1>2 DEF Done
<1>4. conn' = [conn EXCEPT ![r] = q]
  BY <1>2 DEF FoundExpired
<1>5. /\ q \in Busy /\ q.pc = "purge" /\ q.token = conn[r].token
      /\ q.row = conn[r].row /\ q.late = conn[r].late
  BY <1>3 DEF Busy
<1> HIDE DEF q
<1>6. conn'[r] = q
  BY <1>2, <1>4
<1>7. now > conn[r].row.expires
  BY DEF FoundExpired, Expired
<1>8. ConnOK(r)'
  BY <1>1, <1>2, <1>5, <1>6, <1>7 DEF ConnOK, At
<1>9. QED
  BY <1>1, <1>4, <1>5, <1>8, ConnMoves
\* A token that was never drawn: no other request has it, no row, no client.
LEMMA LoginCheckedInv ==
  ASSUME SessionsInv, NEW r \in Slots, LoginChecked(r) PROVE SessionsInv'
<1>1. PICK u \in Users, t \in Tokens \ issued :
        /\ Begin(r, "create", t, [user |-> u, expires |-> now + TTL], "")
        /\ issued' = issued \cup {t}
  BY DEF LoginChecked
<1> DEFINE late == t \in deleted
           row == [user |-> u, expires |-> now + TTL]
           q == [pc |-> "create", token |-> t, row |-> row, action |-> "", late |-> late]
<1>2. UNCHANGED <<now, sessions, held, deleted>>
  BY DEF LoginChecked
<1>3. conn \in [Slots -> Done \cup Busy]
  BY DEF SessionsInv, TypeOK
<1>4. late \in BOOLEAN
  BY MembershipIsBoolean, Zenon
<1>5. row \in Rows
  <2>1. now \in Nat /\ TTL \in Nat
    BY SessionAssumption DEF SessionsInv, TypeOK
  <2> HIDE DEF q, late
  <2>2. QED
    BY <2>1 DEF Rows
<1>6. conn' = [conn EXCEPT ![r] = q]
  BY <1>1 DEF Begin
<1> HIDE DEF late, row
<1>7. q \in Busy /\ q.pc = "create" /\ q.token = t /\ q.row = row
  BY <1>1, <1>4, <1>5 DEF Busy
<1> HIDE DEF q
<1>8. conn'[r] = q /\ \A s \in Slots : s # r => conn'[s] = conn[s]
  BY <1>3, <1>6
<1>9. t \notin held /\ sessions[t] = NoRow
  BY <1>1 DEF SessionsInv, TypeOK
<1>10. ASSUME NEW s \in Slots PROVE ConnOK(s)'
  <2>1. CASE s = r
    BY <1>1, <1>2, <1>5, <1>7, <1>8, <1>9, <2>1 DEF ConnOK, At
  <2>2. CASE s # r
    <3>1. conn'[s] = conn[s] /\ ConnOK(s)
      BY <1>8, <2>2 DEF SessionsInv
    <3>2. QED
      BY <1>1, <1>2, <3>1 DEF ConnOK, At
  <2>3. QED
    BY <2>1, <2>2
<1>11. conn' \in [Slots -> Done \cup Busy]
  BY <1>3, <1>6, <1>7
<1>12. issued' \subseteq Tokens /\ held' \subseteq issued' /\ born' \in [Tokens -> Nat]
  BY <1>1, <1>2 DEF SessionsInv, TypeOK, LoginChecked
<1>13. TypeOK'
  BY <1>2, <1>10, <1>11, <1>12 DEF SessionsInv, TypeOK, ConnOK, At
<1>14. ASSUME NEW s \in Slots, s # r, At(s, "create") PROVE conn[s].token # t
  BY <1>1, <1>14 DEF SessionsInv, ConnOK
<1>15. \A s, w \in Slots :
         s # w /\ At(s, "create")' /\ At(w, "create")' => conn'[s].token # conn'[w].token
  BY <1>7, <1>8, <1>14 DEF SessionsInv, At
<1>16. QED
  BY <1>1, <1>2, <1>10, <1>13, <1>15 DEF SessionsInv

\* A row comes or goes; the request that did it answers.
LEMMA RowChanges ==
  ASSUME SessionsInv, NEW r \in Slots, NEW answer \in Answers, Reply(r, answer),
         UNCHANGED <<now, issued, born>>,
         sessions' \in [Tokens -> Rows \cup {NoRow}],
         held \subseteq held', held' \subseteq issued,
         deleted \subseteq deleted', deleted' \subseteq held',
         \A t \in Tokens : sessions'[t] # NoRow => t \in issued,
         \A t \in deleted' : sessions'[t] = NoRow,
         \A s \in Slots : s # r /\ At(s, "create") =>
           conn[s].token \notin held' /\ sessions'[conn[s].token] = NoRow,
         \A s \in Slots : s # r /\ conn[s].pc \in {"check", "purge"} =>
           sessions'[conn[s].token] \in {sessions[conn[s].token], NoRow}
  PROVE  SessionsInv'
<1> DEFINE q == [pc |-> "idle", reply |-> answer]
<1>1. q \in Done /\ q.pc = "idle" /\ conn' = [conn EXCEPT ![r] = q]
  BY DEF Done, Reply
<1> HIDE DEF q
<1>2. conn \in [Slots -> Done \cup Busy]
  BY DEF SessionsInv, TypeOK
<1>3. conn'[r] = q /\ \A s \in Slots : s # r => conn'[s] = conn[s]
  BY <1>1, <1>2
<1>4. ASSUME NEW s \in Slots PROVE ConnOK(s)'
  <2>1. CASE s = r
    BY <1>1, <1>3, <2>1 DEF ConnOK, At
  <2>2. CASE s # r
    <3>1. conn'[s] = conn[s] /\ ConnOK(s)
      BY <1>3, <2>2 DEF SessionsInv
    <3>2. QED
      BY <2>2, <3>1 DEF ConnOK, At
  <2>3. QED
    BY <2>1, <2>2
<1>5. conn' \in [Slots -> Done \cup Busy]
  BY <1>1, <1>2
<1>6. issued \subseteq Tokens /\ now \in Nat /\ born \in [Tokens -> Nat]
  BY DEF SessionsInv, TypeOK
<1>7. TypeOK'
  BY <1>4, <1>5, <1>6 DEF TypeOK, ConnOK, At
<1>8. \A s, w \in Slots :
        s # w /\ At(s, "create")' /\ At(w, "create")' => conn'[s].token # conn'[w].token
  BY <1>1, <1>3 DEF SessionsInv, At
<1>9. QED
  BY <1>4, <1>7, <1>8 DEF SessionsInv

\* Which token a request has.
LEMMA TokenIs ==
  ASSUME SessionsInv, NEW r \in Slots, conn[r].pc # "idle"
  PROVE  conn[r].token \in Tokens
BY DEF SessionsInv, TypeOK, Done, Busy

LEMMA CreateSessionInv ==
  ASSUME SessionsInv, NEW r \in Slots, CreateSession(r) PROVE SessionsInv'
<1> DEFINE t == conn[r].token
<1>1. At(r, "create") /\ ConnOK(r)
  BY DEF CreateSession, SessionsInv
<1>2. t \in issued \ held /\ conn[r].row \in Rows /\ t \in Tokens
  BY <1>1, TokenIs DEF ConnOK, At
<1>3. sessions \in [Tokens -> Rows \cup {NoRow}] /\ deleted \subseteq held /\ held \subseteq issued
  BY DEF SessionsInv, TypeOK
<1>4. UNCHANGED <<now, issued, born, deleted>> /\ held' \in {held, held \cup {t}}
  BY DEF CreateSession
<1>5. PICK answer \in {"ok", "error"} : Reply(r, answer)
  BY DEF CreateSession
<1>6. sessions' = [sessions EXCEPT ![t] = conn[r].row]
  BY DEF CreateSession
<1>7. \A s \in Slots : s # r /\ At(s, "create") =>
        conn[s].token # t /\ conn[s].token \notin held /\ sessions[conn[s].token] = NoRow
        /\ conn[s].token \in Tokens
  BY <1>1, TokenIs DEF SessionsInv, ConnOK, At
<1>8. \A s \in Slots : conn[s].pc \in {"check", "purge"} =>
        conn[s].token # t /\ conn[s].token \in Tokens
  BY <1>2, TokenIs DEF SessionsInv, ConnOK
<1>9. \A w \in deleted : w # t /\ w \in Tokens /\ sessions[w] = NoRow
  BY <1>2, <1>3 DEF SessionsInv, TypeOK
<1>10. \A w \in Tokens : sessions[w] # NoRow => w \in issued
  BY DEF SessionsInv
<1> HIDE DEF t
<1>11. /\ sessions' \in [Tokens -> Rows \cup {NoRow}]
       /\ \A w \in Tokens : w # t => sessions'[w] = sessions[w]
  BY <1>2, <1>3, <1>6
<1>12. answer \in Answers
  BY DEF Answers
<1>13. /\ \A w \in Tokens : sessions'[w] # NoRow => w \in issued
       /\ \A w \in deleted' : sessions'[w] = NoRow
  BY <1>2, <1>4, <1>9, <1>10, <1>11
<1>14. \A s \in Slots : s # r /\ At(s, "create") =>
         conn[s].token \notin held' /\ sessions'[conn[s].token] = NoRow
  BY <1>4, <1>7, <1>11
<1>15. \A s \in Slots : s # r /\ conn[s].pc \in {"check", "purge"} =>
         sessions'[conn[s].token] \in {sessions[conn[s].token], NoRow}
  BY <1>8, <1>11
<1>16. held \subseteq held' /\ held' \subseteq issued /\ deleted \subseteq deleted'
       /\ deleted' \subseteq held'
  BY <1>2, <1>3, <1>4
<1>17. QED
  BY <1>4, <1>5, <1>11, <1>12, <1>13, <1>14, <1>15, <1>16, RowChanges

\* DeleteSession, from Logout or from the purge of an expired row.
LEMMA EraseInv ==
  ASSUME SessionsInv, NEW r \in Slots, conn[r].pc \in {"logout", "purge"},
         Erase({conn[r].token}) \/ UNCHANGED sessions,
         NEW answer \in Answers, Reply(r, answer),
         UNCHANGED <<now, issued, born, held>>,
         deleted' = deleted \/ (deleted' = deleted \cup {conn[r].token} /\ Erase({conn[r].token}))
  PROVE  SessionsInv'
<1> DEFINE t == conn[r].token
<1>1. t \in held /\ t \in Tokens
  BY TokenIs DEF SessionsInv, ConnOK
<1>2. sessions \in [Tokens -> Rows \cup {NoRow}] /\ deleted \subseteq held /\ held \subseteq issued
      /\ issued \subseteq Tokens
  BY DEF SessionsInv, TypeOK
<1>3. /\ sessions' \in [Tokens -> Rows \cup {NoRow}]
      /\ \A w \in Tokens : sessions'[w] \in {sessions[w], NoRow}
      /\ Erase({t}) => sessions'[t] = NoRow
  BY <1>1, <1>2 DEF Erase
<1>4. /\ \A w \in Tokens : sessions'[w] # NoRow => w \in issued
      /\ \A w \in deleted' : sessions'[w] = NoRow
  BY <1>1, <1>2, <1>3 DEF SessionsInv
<1>5. \A s \in Slots : At(s, "create") =>
        conn[s].token \in Tokens /\ conn[s].token \notin held /\ sessions[conn[s].token] = NoRow
  BY TokenIs DEF SessionsInv, ConnOK, At
<1>6. \A s \in Slots : conn[s].pc \in {"check", "purge"} => conn[s].token \in Tokens
  BY TokenIs
<1>7. \A s \in Slots : s # r /\ At(s, "create") =>
        conn[s].token \notin held' /\ sessions'[conn[s].token] = NoRow
  BY <1>3, <1>5
<1>8. \A s \in Slots : s # r /\ conn[s].pc \in {"check", "purge"} =>
        sessions'[conn[s].token] \in {sessions[conn[s].token], NoRow}
  BY <1>3, <1>6
<1>9. held \subseteq held' /\ held' \subseteq issued /\ deleted \subseteq deleted'
      /\ deleted' \subseteq held'
  BY <1>1, <1>2
<1> HIDE DEF t
<1>10. QED
  BY <1>3, <1>4, <1>7, <1>8, <1>9, RowChanges

LEMMA TickInv ==
  ASSUME SessionsInv, Tick PROVE SessionsInv'
<1>1. now' = now + 1 /\ now \in Nat /\ now' \in Nat
  BY DEF Tick, SessionsInv, TypeOK
<1>2. UNCHANGED <<sessions, conn, issued, born, held, deleted>>
  BY DEF Tick
<1>3. ASSUME NEW r \in Slots PROVE ConnOK(r)'
  <2>1. ConnOK(r) /\ (At(r, "purge") => conn[r].row.expires \in Nat)
    BY DEF SessionsInv, ConnOK, At, Rows
  <2>2. QED
    BY <1>1, <1>2, <2>1 DEF ConnOK, At
<1>4. TypeOK'
  BY <1>1, <1>2 DEF SessionsInv, TypeOK
<1>5. QED
  BY <1>2, <1>3, <1>4 DEF SessionsInv, At
LEMMA SessionsStep ==
  ASSUME SessionsInv, [Next]_vars PROVE SessionsInv'
<1>1. CASE UNCHANGED vars
  BY <1>1 DEF vars, SessionsInv, TypeOK, ConnOK, At
<1>2. CASE Tick
  BY <1>2, TickInv
<1>3. ASSUME NEW r \in Slots,
             \/ LoginRefused(r) \/ LoginFails(r) \/ LogoutFails(r)
             \/ NotFound(r) \/ Admit(r) \/ Forbid(r)
      PROVE  SessionsInv'
  <2>1. PICK answer \in Answers : Reply(r, answer)
    BY <1>3 DEF LoginRefused, LoginFails, LogoutFails, NotFound, Admit, Forbid, Answers
  <2>2. UNCHANGED <<now, sessions, issued, born, held, deleted>>
    BY <1>3 DEF LoginRefused, LoginFails, LogoutFails, NotFound, Admit, Forbid
  <2>3. QED
    BY <2>1, <2>2, Answered
<1>4. ASSUME NEW r \in Slots, BeginLogout(r) \/ Present(r) PROVE SessionsInv'
  BY <1>4, BeginInv DEF BeginLogout, Present
<1>5. ASSUME NEW r \in Slots, Logout(r) PROVE SessionsInv'
  <2>1. Reply(r, "ok") /\ "ok" \in Answers
    BY <1>5 DEF Logout, Answers
  <2>2. QED
    BY <1>5, <2>1, EraseInv DEF Logout, At
<1>6. ASSUME NEW r \in Slots, Purge(r) PROVE SessionsInv'
  <2>1. Reply(r, "unauthorized") /\ "unauthorized" \in Answers
    BY <1>6 DEF Purge, Answers
  <2>2. QED
    BY <1>6, <2>1, EraseInv DEF Purge, At
<1>7. QED
  BY <1>1, <1>2, <1>3, <1>4, <1>5, <1>6, LoginCheckedInv, CreateSessionInv, LookupInv,
     FoundExpiredInv DEF Next

LEMMA SessionsStart == Init => SessionsInv
<1> SUFFICES ASSUME Init PROVE SessionsInv
  OBVIOUS
<1>1. TypeOK
  BY DEF Init, TypeOK, Done, Answers
<1>2. \A r \in Slots : conn[r].pc = "idle"
  BY DEF Init
<1>3. QED
  BY <1>1, <1>2 DEF Init, SessionsInv, ConnOK, At

-----------------------------------------------------------------------------
\* Theorems.

\* The inductive invariant holds in every reachable state.
THEOREM SessionsInductive == Spec => []SessionsInv
<1>1. SessionsInv /\ [Next]_vars => SessionsInv'
  BY SessionsStep
<1>2. QED
  BY <1>1, SessionsStart, PTL DEF Spec

\* The table and the requests keep their types; a request past GetSession has a
\* row of some user in its hands (auth.go:94-105).
THEOREM SessionTypesCorrect == Spec => []TypeOK
<1>1. SessionsInv => TypeOK
  BY DEF SessionsInv
<1>2. QED
  BY <1>1, SessionsInductive, PTL

\* Only Admit answers "served".
LEMMA ServedByAdmit ==
  ASSUME SessionsInv, [Next]_vars, NEW r \in Slots, Served(r)
  PROVE  Admit(r)
<1>1. conn \in [Slots -> Done \cup Busy]
  BY DEF SessionsInv, TypeOK
<1>2. conn'[r] # conn[r] /\ conn'[r].pc = "idle" /\ conn'[r].reply = "served"
  BY DEF Served, At
<1>3. ASSUME NEW s \in Slots, NEW answer, Reply(s, answer)
      PROVE  s = r /\ answer = "served"
  BY <1>1, <1>2, <1>3 DEF Reply
<1>4. ASSUME NEW s \in Slots, NEW q, conn' = [conn EXCEPT ![s] = q] PROVE q.pc = "idle"
  BY <1>1, <1>2, <1>4
<1>5. ~Tick /\ ~UNCHANGED vars
  BY <1>2 DEF Tick, vars
<1>6. PICK s \in Slots :
        \/ LoginRefused(s) \/ LoginChecked(s) \/ CreateSession(s) \/ LoginFails(s)
        \/ BeginLogout(s) \/ Logout(s) \/ LogoutFails(s)
        \/ Present(s) \/ Lookup(s) \/ NotFound(s) \/ Admit(s) \/ Forbid(s)
        \/ FoundExpired(s) \/ Purge(s)
  BY <1>5 DEF Next
<1>7. ASSUME NEW stage, NEW t, NEW row, NEW a, Begin(s, stage, t, row, a)
      PROVE  stage = "idle"
  <2> DEFINE late == t \in deleted
             q == [pc |-> stage, token |-> t, row |-> row, action |-> a, late |-> late]
  <2>1. conn' = [conn EXCEPT ![s] = q]
    BY <1>7 DEF Begin
  <2> HIDE DEF late
  <2>2. q.pc = stage
    OBVIOUS
  <2> HIDE DEF q
  <2>3. QED
    BY <1>4, <2>1, <2>2
<1>8. ~LoginChecked(s) /\ ~BeginLogout(s) /\ ~Present(s)
  BY <1>7 DEF LoginChecked, BeginLogout, Present
<1>9. ~Lookup(s) /\ ~FoundExpired(s)
  BY <1>1, <1>2 DEF Lookup, FoundExpired, At, Done, Busy
<1>10. QED
  BY <1>3, <1>6, <1>8, <1>9
     DEF LoginRefused, CreateSession, LoginFails, Logout, LogoutFails, NotFound, Admit,
         Forbid, Purge

\* After a logout that deleted the session, no request sent later is admitted,
\* whatever logins, queries and purges were under way (auth.go:76-105).
THEOREM LogoutHolds == Spec => NoAdmissionAfterLogout
<1>1. ASSUME SessionsInv, [Next]_vars, NEW r \in Slots, Served(r) PROVE ~conn[r].late
  BY <1>1, ServedByAdmit DEF Admit, At, SessionsInv, ConnOK
<1>2. SessionsInv /\ [Next]_vars => [\A r \in Slots : Served(r) => ~conn[r].late]_vars
  BY <1>1
<1>3. QED
  BY <1>2, SessionsInductive, PTL DEF Spec, NoAdmissionAfterLogout

\* Every copy of a session's row, in the table or in the hands of a request, ends
\* one lifetime after its token was drawn.
AgeInv ==
  /\ \A t \in Tokens : sessions[t] # NoRow => sessions[t].expires = born[t] + TTL
  /\ \A r \in Slots : conn[r].pc \in {"create", "check", "purge"} =>
       conn[r].row.expires = born[conn[r].token] + TTL

\* A request that goes on, or ends, with the row it had.
LEMMA AgeKept ==
  ASSUME AgeInv, SessionsInv, UNCHANGED born,
         \A t \in Tokens : sessions'[t] \in {sessions[t], NoRow},
         NEW r \in Slots, NEW q, conn' = [conn EXCEPT ![r] = q],
         q.pc \in {"create", "check", "purge"} => q.row.expires = born[q.token] + TTL
  PROVE  AgeInv'
<1>1. conn'[r] = q /\ \A s \in Slots : s # r => conn'[s] = conn[s]
  BY DEF SessionsInv, TypeOK
<1>2. \A t \in Tokens : sessions'[t] # NoRow => sessions'[t].expires = born[t] + TTL
  BY DEF AgeInv
<1>3. ASSUME NEW s \in Slots, conn'[s].pc \in {"create", "check", "purge"}
      PROVE  conn'[s].row.expires = born[conn'[s].token] + TTL
  BY <1>1, <1>3 DEF AgeInv
<1>4. QED
  BY <1>2, <1>3 DEF AgeInv

LEMMA AgeAnswered ==
  ASSUME AgeInv, SessionsInv, UNCHANGED born, NEW r \in Slots, NEW answer, Reply(r, answer),
         \A t \in Tokens : sessions'[t] \in {sessions[t], NoRow}
  PROVE  AgeInv'
<1> DEFINE q == [pc |-> "idle", reply |-> answer]
<1>1. conn' = [conn EXCEPT ![r] = q] /\ q.pc = "idle"
  BY DEF Reply
<1> HIDE DEF q
<1>2. QED
  BY <1>1, AgeKept

\* The lifetime is counted from here.
LEMMA AgeLogin ==
  ASSUME AgeInv, SessionsInv, NEW r \in Slots, LoginChecked(r) PROVE AgeInv'
<1>1. PICK u \in Users, t \in Tokens \ issued :
        /\ Begin(r, "create", t, [user |-> u, expires |-> now + TTL], "")
        /\ born' = [born EXCEPT ![t] = now]
  BY DEF LoginChecked
<1> DEFINE late == t \in deleted
           row == [user |-> u, expires |-> now + TTL]
           q == [pc |-> "create", token |-> t, row |-> row, action |-> "", late |-> late]
<1>2. conn' = [conn EXCEPT ![r] = q]
  BY <1>1 DEF Begin
<1>3. row.expires = now + TTL
  OBVIOUS
<1> HIDE DEF late, row
<1>4. q.token = t /\ q.row = row
  OBVIOUS
<1> HIDE DEF q
<1>5. conn'[r] = q /\ \A s \in Slots : s # r => conn'[s] = conn[s]
  BY <1>2 DEF SessionsInv, TypeOK
<1>6. born'[t] = now /\ \A w \in Tokens : w # t => born'[w] = born[w]
  BY <1>1 DEF SessionsInv, TypeOK
<1>7. \A w \in Tokens : sessions[w] # NoRow => w # t
  BY DEF SessionsInv
<1>8. sessions' = sessions
  BY DEF LoginChecked
<1>9. ASSUME NEW s \in Slots, s # r, conn[s].pc \in {"create", "check", "purge"}
      PROVE  conn[s].token # t /\ conn[s].token \in Tokens
  BY <1>9, TokenIs DEF SessionsInv, ConnOK, At, TypeOK
<1>10. \A w \in Tokens : sessions'[w] # NoRow => sessions'[w].expires = born'[w] + TTL
  BY <1>6, <1>7, <1>8 DEF AgeInv
<1>11. ASSUME NEW s \in Slots, conn'[s].pc \in {"create", "check", "purge"}
       PROVE  conn'[s].row.expires = born'[conn'[s].token] + TTL
  <2>1. CASE s = r
    BY <1>3, <1>4, <1>5, <1>6, <2>1
  <2>2. CASE s # r
    BY <1>5, <1>6, <1>9, <1>11, <2>2 DEF AgeInv
  <2>3. QED
    BY <2>1, <2>2
<1>12. QED
  BY <1>10, <1>11 DEF AgeInv

LEMMA AgeCreate ==
  ASSUME AgeInv, SessionsInv, NEW r \in Slots, CreateSession(r) PROVE AgeInv'
<1> DEFINE t == conn[r].token
<1>1. t \in Tokens /\ conn[r].row.expires = born[t] + TTL
  BY TokenIs DEF CreateSession, At, AgeInv
<1>2. sessions \in [Tokens -> Rows \cup {NoRow}] /\ conn \in [Slots -> Done \cup Busy]
  BY DEF SessionsInv, TypeOK
<1>3. sessions' = [sessions EXCEPT ![t] = conn[r].row] /\ born' = born
  BY DEF CreateSession
<1>4. PICK answer \in {"ok", "error"} : Reply(r, answer)
  BY DEF CreateSession
<1> HIDE DEF t
<1>5. \A w \in Tokens : sessions'[w] # NoRow => sessions'[w].expires = born'[w] + TTL
  BY <1>1, <1>2, <1>3 DEF AgeInv
<1>6. conn'[r].pc = "idle" /\ \A s \in Slots : s # r => conn'[s] = conn[s]
  BY <1>2, <1>4 DEF Reply
<1>7. ASSUME NEW s \in Slots, conn'[s].pc \in {"create", "check", "purge"}
      PROVE  conn'[s].row.expires = born'[conn'[s].token] + TTL
  BY <1>3, <1>6, <1>7 DEF AgeInv
<1>8. QED
  BY <1>5, <1>7 DEF AgeInv

LEMMA AgeStep ==
  ASSUME AgeInv, SessionsInv, [Next]_vars PROVE AgeInv'
<1>1. CASE UNCHANGED vars
  BY <1>1 DEF vars, AgeInv
<1>2. CASE Tick
  BY <1>2 DEF Tick, AgeInv
<1>3. ASSUME NEW r \in Slots,
             \/ LoginRefused(r) \/ LoginFails(r) \/ LogoutFails(r) \/ Logout(r)
             \/ NotFound(r) \/ Admit(r) \/ Forbid(r) \/ Purge(r)
      PROVE  AgeInv'
  <2>1. PICK answer \in Answers : Reply(r, answer)
    BY <1>3 DEF LoginRefused, LoginFails, LogoutFails, Logout, NotFound, Admit, Forbid, Purge, Answers
  <2>2. UNCHANGED born /\ (UNCHANGED sessions \/ Erase({conn[r].token}))
    BY <1>3 DEF LoginRefused, LoginFails, LogoutFails, Logout, NotFound, Admit, Forbid, Purge
  <2>3. \A t \in Tokens : sessions'[t] \in {sessions[t], NoRow}
    BY <2>2 DEF Erase
  <2>4. QED
    BY <2>1, <2>2, <2>3, AgeAnswered
<1>4. ASSUME NEW r \in Slots, BeginLogout(r) \/ Present(r) PROVE AgeInv'
  <2>1. PICK stage \in {"logout", "lookup"}, t \in held, a \in Actions \cup {""} :
          Begin(r, stage, t, NoRow, a)
    BY <1>4 DEF BeginLogout, Present
  <2> DEFINE late == t \in deleted
             q == [pc |-> stage, token |-> t, row |-> NoRow, action |-> a, late |-> late]
  <2>2. conn' = [conn EXCEPT ![r] = q]
    BY <2>1 DEF Begin
  <2> HIDE DEF late
  <2>3. q.pc = stage
    OBVIOUS
  <2> HIDE DEF q
  <2>4. UNCHANGED born /\ UNCHANGED sessions
    BY <1>4 DEF BeginLogout, Present
  <2>5. QED
    BY <2>2, <2>3, <2>4, AgeKept
<1>5. ASSUME NEW r \in Slots, Lookup(r) PROVE AgeInv'
  <2> DEFINE q == [conn[r] EXCEPT !.pc = "check", !.row = sessions[conn[r].token]]
  <2>1. /\ At(r, "lookup") /\ sessions[conn[r].token] # NoRow
        /\ UNCHANGED born /\ UNCHANGED sessions
    BY <1>5 DEF Lookup
  <2>2. conn \in [Slots -> Done \cup Busy] /\ conn[r] \in Busy /\ conn[r].token \in Tokens
    BY <2>1, TokenIs DEF At, SessionsInv, TypeOK, Done
  <2>3. conn' = [conn EXCEPT ![r] = q]
    BY <1>5, <2>2 DEF Lookup
  <2>4. q.token = conn[r].token /\ q.row = sessions[conn[r].token]
    BY <2>2 DEF Busy
  <2> HIDE DEF q
  <2>5. q.row.expires = born[q.token] + TTL
    BY <2>1, <2>2, <2>4 DEF AgeInv
  <2>6. QED
    BY <2>1, <2>3, <2>5, AgeKept
<1>6. ASSUME NEW r \in Slots, FoundExpired(r) PROVE AgeInv'
  <2> DEFINE q == [conn[r] EXCEPT !.pc = "purge"]
  <2>1. At(r, "check") /\ UNCHANGED born /\ UNCHANGED sessions
    BY <1>6 DEF FoundExpired
  <2>2. conn \in [Slots -> Done \cup Busy] /\ conn[r] \in Busy
    BY <2>1 DEF At, SessionsInv, TypeOK, Done
  <2>3. conn' = [conn EXCEPT ![r] = q]
    BY <1>6, <2>2 DEF FoundExpired
  <2>4. q.token = conn[r].token /\ q.row = conn[r].row
    BY <2>2 DEF Busy
  <2> HIDE DEF q
  <2>5. q.row.expires = born[q.token] + TTL
    BY <2>1, <2>4 DEF AgeInv, At
  <2>6. QED
    BY <2>1, <2>3, <2>5, AgeKept
<1>7. QED
  BY <1>1, <1>2, <1>3, <1>4, <1>5, <1>6, AgeLogin, AgeCreate DEF Next

\* Whatever becomes of its row, a token opens nothing once the lifetime has passed
\* since the login that drew it (auth.go:70, 78, 96-101).
THEOREM LifetimeHolds == Spec => TokensDieInTime
<1>1. ASSUME SessionsInv, AgeInv, [Next]_vars, NEW r \in Slots, Served(r)
      PROVE  now <= born[conn[r].token] + TTL
  <2>1. /\ Admit(r) /\ now \in Nat /\ conn[r].row \in Rows
        /\ conn[r].row.expires = born[conn[r].token] + TTL
    BY <1>1, ServedByAdmit DEF Admit, At, SessionsInv, AgeInv, TypeOK
  <2>2. QED
    BY <2>1 DEF Admit, Expired, Rows
<1>2. SessionsInv /\ AgeInv /\ [Next]_vars =>
        [\A r \in Slots : Served(r) => now <= born[conn[r].token] + TTL]_vars
  BY <1>1
<1>3. Init => AgeInv
  BY DEF Init, AgeInv
<1>4. SessionsInv /\ AgeInv /\ [Next]_vars => AgeInv'
  BY AgeStep
<1>5. QED
  BY <1>2, <1>3, <1>4, SessionsInductive, PTL DEF Spec, TokensDieInTime

\* A session ends by its own logout or after its own expiry (auth.go:101).
THEOREM SessionsEndAlone == Spec => SessionsEndOnTheirOwn
<1> DEFINE Ends(t) ==
      sessions[t] # NoRow /\ sessions'[t] # sessions[t] =>
        /\ sessions'[t] = NoRow
        /\ \/ now > sessions[t].expires
           \/ \E r \in Slots : At(r, "logout") /\ conn[r].token = t
<1>1. ASSUME SessionsInv, [Next]_vars, NEW t \in Tokens PROVE Ends(t)
  <2>1. SUFFICES ASSUME sessions[t] # NoRow, sessions'[t] # sessions[t]
                 PROVE  /\ sessions'[t] = NoRow
                        /\ \/ now > sessions[t].expires
                           \/ \E r \in Slots : At(r, "logout") /\ conn[r].token = t
    OBVIOUS
  <2>2. PICK r \in Slots : CreateSession(r) \/ Logout(r) \/ Purge(r)
    BY <1>1, <2>1 DEF Next, vars, Tick, LoginRefused, LoginChecked, LoginFails, BeginLogout,
       LogoutFails, Present, Lookup, NotFound, Admit, Forbid, FoundExpired
  <2>3. ConnOK(r) /\ sessions \in [Tokens -> Rows \cup {NoRow}]
    BY <1>1 DEF SessionsInv, TypeOK
  <2>4. CASE CreateSession(r)
    BY <2>1, <2>3, <2>4 DEF CreateSession, ConnOK, At
  <2>5. CASE Logout(r)
    BY <2>1, <2>5 DEF Logout, Erase
  <2>6. CASE Purge(r)
    BY <2>1, <2>3, <2>6 DEF Purge, Erase, ConnOK, At
  <2>7. QED
    BY <2>2, <2>4, <2>5, <2>6
<1>2. SessionsInv /\ [Next]_vars => [\A t \in Tokens : Ends(t)]_vars
  BY <1>1
<1>3. QED
  BY <1>2, SessionsInductive, PTL DEF Spec, SessionsEndOnTheirOwn
=============================================================================
