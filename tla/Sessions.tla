------------------------------ MODULE Sessions ------------------------------
(***************************************************************************)
(* Sessions: the table, the auth service that writes it                    *)
(* (internal/service/auth), and RequireAuth, which every studio request    *)
(* passes before the survey service sees it.  Requests run one SQL         *)
(* statement after another while others do the same; time passes between.  *)
(***************************************************************************)
EXTENDS Integers, FiniteSets, Rbac

CONSTANTS
  Users,
  RoleOf,       \* users.role
  Actions,      \* the capabilities the routes of this instance ask for, and
                \* "" for a route that asks for none
  Tokens,       \* 32 random bytes: none is drawn twice
  TTL,          \* cfg.SessionTTL
  Slots,        \* requests served at the same time
  MaxTime       \* bound of the clock, for TLC

ASSUME SessionAssumption ==
  /\ RoleOf \in [Users -> Roles]
  /\ Actions \subseteq RbacActions \cup {""}
  /\ TTL \in Nat /\ MaxTime \in Nat

VARIABLES
  now,
  sessions,     \* the table, by token
  conn,         \* the request in each slot
  issued,       \* the tokens drawn so far
  born,         \* history: when each of them was drawn
  held,         \* the tokens that reached a client, in the cookie of a login
  deleted       \* history: tokens whose logout deleted the row

vars == <<now, sessions, conn, issued, born, held, deleted>>

Rows == [user : Users, expires : Nat]

NoRow == [user |-> "none", expires |-> 0]

Answers == {"none", "ok", "served", "badRequest", "unauthorized", "forbidden", "error"}

\* A slot between requests keeps its last answer.
Done == [pc : {"idle"}, reply : Answers]

\* pc is the statement the request is about to run; row is what GetSession
\* returned; late says that the token's logout had deleted its row before the
\* request came.
Busy ==
  [pc : {"create", "logout", "lookup", "check", "purge"}, token : Tokens,
   row : Rows \cup {NoRow}, action : Actions \cup {""}, late : BOOLEAN]

Init ==
  /\ now = 0
  /\ sessions = [t \in Tokens |-> NoRow]
  /\ conn = [r \in Slots |-> [pc |-> "idle", reply |-> "none"]]
  /\ issued = {} /\ held = {} /\ deleted = {}
  /\ born = [t \in Tokens |-> 0]

At(r, stage) == conn[r].pc = stage

Reply(r, answer) == conn' = [conn EXCEPT ![r] = [pc |-> "idle", reply |-> answer]]

Begin(r, stage, t, row, a) ==
  conn' = [conn EXCEPT ![r] =
    [pc |-> stage, token |-> t, row |-> row, action |-> a, late |-> t \in deleted]]

Erase(ts) == sessions' = [t \in Tokens |-> IF t \in ts THEN NoRow ELSE sessions[t]]

-----------------------------------------------------------------------------
\* Login.

\* No account in the body; no such user, a wrong password or a failed query,
\* all with one answer; no random bytes to be had.
LoginRefused(r) ==
  /\ At(r, "idle")
  /\ \E answer \in {"badRequest", "unauthorized", "error"} : Reply(r, answer)
  /\ UNCHANGED <<now, sessions, issued, born, held, deleted>>

\* The password is right: a token is drawn and the expiry computed, before the
\* row is written.
LoginChecked(r) ==
  /\ At(r, "idle")
  /\ \E u \in Users, t \in Tokens \ issued :
       /\ Begin(r, "create", t, [user |-> u, expires |-> now + TTL], "")
       /\ issued' = issued \cup {t}
       /\ born' = [born EXCEPT ![t] = now]
  /\ UNCHANGED <<now, sessions, held, deleted>>

\* CreateSession; the answer, which carries the cookie, may be lost.
CreateSession(r) ==
  /\ At(r, "create")
  /\ sessions' = [sessions EXCEPT ![conn[r].token] = conn[r].row]
  /\ \/ Reply(r, "ok") /\ held' = held \cup {conn[r].token}
     \/ Reply(r, "error") /\ UNCHANGED held
  /\ UNCHANGED <<now, issued, born, deleted>>

\* The insert fails, or the request ends before it.
LoginFails(r) ==
  /\ At(r, "create")
  /\ Reply(r, "error")
  /\ UNCHANGED <<now, sessions, issued, born, held, deleted>>

-----------------------------------------------------------------------------
\* Logout: not behind RequireAuth, it takes whatever token the cookie holds.

BeginLogout(r) ==
  /\ At(r, "idle")
  /\ \E t \in held : Begin(r, "logout", t, NoRow, "")
  /\ UNCHANGED <<now, sessions, issued, born, held, deleted>>

\* Faulty variant: only the cookie goes.
Logout_CookieOnly(r) ==
  /\ At(r, "logout")
  /\ deleted' = deleted \cup {conn[r].token}
  /\ Reply(r, "ok")
  /\ UNCHANGED <<now, sessions, issued, born, held>>

Logout(r) ==
  /\ At(r, "logout")
  /\ Erase({conn[r].token})
  /\ deleted' = deleted \cup {conn[r].token}
  /\ Reply(r, "ok")
  /\ UNCHANGED <<now, issued, born, held>>

\* The error of DeleteSession is dropped: the answer is the same.
LogoutFails(r) ==
  /\ At(r, "logout")
  /\ Reply(r, "ok")
  /\ UNCHANGED <<now, sessions, issued, born, held, deleted>>

-----------------------------------------------------------------------------
\* RequireAuth and ValidateSession.

\* A protected request with the token of an earlier login, its session ended
\* or not; bytes that were never a token find no row either.
Present(r) ==
  /\ At(r, "idle")
  /\ \E t \in held, a \in Actions : Begin(r, "lookup", t, NoRow, a)
  /\ UNCHANGED <<now, sessions, issued, born, held, deleted>>

\* Faulty variant: goes on with the zero row when there is none.
Lookup_AnyRow(r) ==
  /\ At(r, "lookup")
  /\ conn' = [conn EXCEPT ![r].pc = "check", ![r].row = sessions[conn[r].token]]
  /\ UNCHANGED <<now, sessions, issued, born, held, deleted>>

\* Faulty variant: every use of a session prolongs it.
Lookup_Renews(r) ==
  /\ At(r, "lookup") /\ sessions[conn[r].token] # NoRow
  /\ conn' = [conn EXCEPT ![r].pc = "check", ![r].row = sessions[conn[r].token]]
  /\ sessions' = [sessions EXCEPT ![conn[r].token].expires = now + TTL]
  /\ UNCHANGED <<now, issued, born, held, deleted>>

\* GetSession finds a row.
Lookup(r) ==
  /\ At(r, "lookup") /\ sessions[conn[r].token] # NoRow
  /\ conn' = [conn EXCEPT ![r].pc = "check", ![r].row = sessions[conn[r].token]]
  /\ UNCHANGED <<now, sessions, issued, born, held, deleted>>

\* No row, or the query failed: 401 either way.
NotFound(r) ==
  /\ At(r, "lookup")
  /\ Reply(r, "unauthorized")
  /\ UNCHANGED <<now, sessions, issued, born, held, deleted>>

\* The clock is read after the row.
Expired(r) == now > conn[r].row.expires

Capable(r) == conn[r].action # "" => Can(RoleOf[conn[r].row.user], conn[r].action)

\* The request goes on to its handler.
Admit(r) ==
  /\ At(r, "check") /\ ~Expired(r) /\ Capable(r)
  /\ Reply(r, "served")
  /\ UNCHANGED <<now, sessions, issued, born, held, deleted>>

Forbid(r) ==
  /\ At(r, "check") /\ ~Expired(r) /\ ~Capable(r)
  /\ Reply(r, "forbidden")
  /\ UNCHANGED <<now, sessions, issued, born, held, deleted>>

FoundExpired(r) ==
  /\ At(r, "check") /\ Expired(r)
  /\ conn' = [conn EXCEPT ![r].pc = "purge"]
  /\ UNCHANGED <<now, sessions, issued, born, held, deleted>>

\* Faulty variant: all sessions of the user go.
Purge_ByUser(r) ==
  /\ At(r, "purge")
  /\ Erase({t \in Tokens : sessions[t].user = conn[r].row.user})
  /\ Reply(r, "unauthorized")
  /\ UNCHANGED <<now, issued, born, held, deleted>>

\* The expired row is deleted by its token; an error is dropped.
Purge(r) ==
  /\ At(r, "purge")
  /\ Erase({conn[r].token}) \/ UNCHANGED sessions
  /\ Reply(r, "unauthorized")
  /\ UNCHANGED <<now, issued, born, held, deleted>>

Tick ==
  /\ now < MaxTime
  /\ now' = now + 1
  /\ UNCHANGED <<sessions, conn, issued, born, held, deleted>>

Next ==
  \/ Tick
  \/ \E r \in Slots :
       \/ LoginRefused(r) \/ LoginChecked(r) \/ CreateSession(r) \/ LoginFails(r)
       \/ BeginLogout(r) \/ Logout(r) \/ LogoutFails(r)
       \/ Present(r) \/ Lookup(r) \/ NotFound(r) \/ Admit(r) \/ Forbid(r)
       \/ FoundExpired(r) \/ Purge(r)

Spec == Init /\ [][Next]_vars

-----------------------------------------------------------------------------
\* Types; a request past GetSession has a row of some user in its hands.
TypeOK ==
  /\ now \in Nat
  /\ sessions \in [Tokens -> Rows \cup {NoRow}]
  /\ conn \in [Slots -> Done \cup Busy]
  /\ \A r \in Slots : conn[r].pc \in {"create", "check", "purge"} => conn[r].row \in Rows
  /\ issued \subseteq Tokens /\ held \subseteq issued
  /\ born \in [Tokens -> Nat]
  /\ deleted \subseteq held

\* A request is admitted in this step.
Served(r) == ~At(r, "idle") /\ conn'[r] = [pc |-> "idle", reply |-> "served"]

\* A request sent after a logout that deleted its session is not admitted, and
\* no login, purge or query in progress at the time brings the session back
\* (auth.go:76-81, 94-105).
NoAdmissionAfterLogout ==
  [][\A r \in Slots : Served(r) => ~conn[r].late]_vars

\* A token opens nothing once the lifetime has passed since the password check
\* that drew it, whatever became of its row: neither a slow INSERT, nor use, nor a
\* logout or a purge whose DELETE failed and was ignored gives it more time
\* (auth.go:70, 78, 96-101).
TokensDieInTime ==
  [][\A r \in Slots : Served(r) => now <= born[conn[r].token] + TTL]_vars

\* A session ends by its own logout or after its own expiry: the purge of an
\* old session never takes one of the same user's newer ones with it
\* (auth.go:101, queries/sessions.sql DeleteSession).
SessionsEndOnTheirOwn ==
  [][\A t \in Tokens :
       sessions[t] # NoRow /\ sessions'[t] # sessions[t] =>
         /\ sessions'[t] = NoRow
         /\ \/ now > sessions[t].expires
            \/ \E r \in Slots : At(r, "logout") /\ conn[r].token = t]_vars
=============================================================================
