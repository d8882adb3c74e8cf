------------------------------ MODULE Sessions ------------------------------
(***************************************************************************)
(* One member of staff who signs in from browsers and phones: the row of   *)
(* users, the refresh tokens the API hands out, and the clients that keep  *)
(* and rotate them.  The row holds one token; every statement of           *)
(* AuthService is a transaction of its own, and none locks the row between *)
(* reading and writing it.                                                 *)
(***************************************************************************)
EXTENDS Integers, Sequences, TLC

CONSTANTS
  Calls,      \* requests of the clients that can be under way at once
  Apps,       \* browser tabs and phones
  AppOf,      \* which app a request belongs to
  Stores,     \* local storage of a browser, secure storage of a phone
  StoreOf,    \* where an app keeps its tokens
  MaxTokens,  \* bound: refresh tokens ever issued
  MaxAdmin,   \* bound: passwords set, accounts switched on and off
  MaxLosses   \* bound: replies that never arrive

CallsHaveApps == AppOf \in [Calls -> Apps] /\ StoreOf \in [Apps -> Stores]

VARIABLES
  user,    \* refreshTokenHash, password, mustChangePassword, isActive; who chose the password
  kept,    \* the refresh token in each store
  call,    \* each request under way
  issued,  \* history: the password each token goes back to
  ended,   \* history: tokens put out of use by something else than their own refresh
  newest,  \* history: the token of the last sign-in or of a refresh that goes back to it
  admin, losses

vars == <<user, kept, call, issued, ended, newest, admin, losses>>

NoToken == 0

\* A request: the token and the password it sends, what it has read and got.
Quiet == [pc |-> "idle", op |-> "none", sent |-> NoToken, password |-> 0, got |-> NoToken]

Store(c) == StoreOf[AppOf[c]]

\* EmployeesRepository.create has just made the account.
Init ==
  /\ user = [hash |-> NoToken, password |-> 0, temporary |-> TRUE, active |-> TRUE, by |-> "admin"]
  /\ kept = [s \in Stores |-> NoToken]
  /\ call = [c \in Calls |-> Quiet]
  /\ issued = <<>>
  /\ ended = {} /\ newest = NoToken
  /\ admin = 0 /\ losses = 0

Become(c, x) == call' = [call EXCEPT ![c] = x]

-----------------------------------------------------------------------------
(* Clients.                                                                *)

\* Mutant: every 401 starts a refresh of its own.
MayRefreshAlways(c) == TRUE

\* refreshInFlight, _refreshing: the 401s of one app share one refresh.
MayRefresh(c) == \A d \in Calls : AppOf[d] = AppOf[c] => call[d].op # "refresh"

\* A person knows the password in force; a 401 sends the token that is kept.
Send(c) ==
  /\ call[c] = Quiet
  /\ \E op \in {"login", "refresh", "change"} :
       /\ op = "login" <=> kept[Store(c)] = NoToken
       /\ op = "refresh" => MayRefresh(c)
       /\ Become(c, [Quiet EXCEPT !.pc = "sent", !.op = op,
                       !.sent = kept[Store(c)], !.password = user.password])
  /\ UNCHANGED <<user, kept, issued, ended, newest, admin, losses>>

\* The tokens of an answer are stored; a refused refresh empties the store.
Deliver(c) ==
  LET x == call[c] IN
  /\ x.pc \in {"granted", "refused"}
  /\ kept' = IF x.op = "refresh" \/ (x.op = "login" /\ x.pc = "granted")
             THEN [kept EXCEPT ![Store(c)] = x.got] ELSE kept
  /\ Become(c, Quiet)
  /\ UNCHANGED <<user, issued, ended, newest, admin, losses>>

\* A timeout or a dropped link, before or after the API has done its part: the
\* client keeps the token it has.
Lose(c) ==
  /\ call[c] # Quiet /\ losses < MaxLosses
  /\ losses' = losses + 1
  /\ ended' = ended \cup {call[c].sent, call[c].got}
  /\ Become(c, Quiet)
  /\ UNCHANGED <<user, kept, issued, newest, admin>>

\* The local tokens go even if the API is not reached.
Logout(c) == \E reached \in BOOLEAN :
  /\ call[c] = Quiet /\ kept[Store(c)] # NoToken
  /\ kept' = [kept EXCEPT ![Store(c)] = NoToken]
  /\ IF reached
     THEN user' = [user EXCEPT !.hash = NoToken] /\ ended' = ended \cup {user.hash}
     ELSE UNCHANGED <<user, ended>>
  /\ UNCHANGED <<call, issued, newest, admin, losses>>

-----------------------------------------------------------------------------
(* The API.                                                                *)

\* findActiveById, then the password or the token against what was read.
Accepts(x) ==
  /\ user.active
  /\ IF x.op = "refresh" THEN user.hash = x.sent ELSE user.password = x.password

ReadUser(c) ==
  LET x == call[c] IN
  /\ x.pc = "sent"
  /\ Become(c, IF ~Accepts(x) THEN [x EXCEPT !.pc = "refused"]
               ELSE IF x.op = "refresh"
               THEN [x EXCEPT !.pc = "read", !.password = issued[x.sent]]
               ELSE [x EXCEPT !.pc = "read"])
  /\ UNCHANGED <<user, kept, issued, ended, newest, admin, losses>>

Fresh(x) == Len(issued) + 1

\* issueTokens: setRefreshTokenHash writes by id, whatever is there by now.
IssueTokens(c) ==
  LET x     == call[c]
      token == Fresh(x)
  IN  /\ x.pc = "read" /\ x.op # "change" /\ Len(issued) < MaxTokens
      /\ issued' = Append(issued, x.password)
      /\ user' = [user EXCEPT !.hash = token]
      /\ ended' = ended \cup (IF user.hash = x.sent THEN {} ELSE {user.hash})
                        \cup (IF user.active THEN {} ELSE {token})
      /\ newest' = IF x.op = "login" \/ x.sent = newest THEN token ELSE newest
      /\ Become(c, [x EXCEPT !.pc = "granted", !.got = token])
      /\ UNCHANGED <<kept, admin, losses>>

\* A password is set or an account switched; the token in the row is done with.
Administer(u) ==
  /\ admin < MaxAdmin
  /\ admin' = admin + 1
  /\ user' = u
  /\ ended' = ended \cup {user.hash}
  /\ UNCHANGED <<kept, issued, newest, losses>>

\* changePassword, setOwnPassword.
SetOwnPassword(c) ==
  LET x == call[c] IN
  /\ x.pc = "read" /\ x.op = "change"
  /\ Administer([user EXCEPT !.hash = NoToken, !.password = admin + 1,
                             !.temporary = FALSE, !.by = "person"])
  /\ Become(c, [x EXCEPT !.pc = "granted"])

\* EmployeesRepository.update with a password: mustChangePassword of the patch
\* is not among the columns it sets.
ResetPassword ==
  /\ Administer([user EXCEPT !.hash = NoToken, !.password = admin + 1, !.by = "admin"])
  /\ UNCHANGED call

\* With isActive; the token stays in the row.
SwitchAccount ==
  /\ Administer([user EXCEPT !.active = ~@])
  /\ UNCHANGED call

Next ==
  \/ \E c \in Calls : \/ Send(c) \/ Deliver(c) \/ Lose(c) \/ Logout(c)
                      \/ ReadUser(c) \/ IssueTokens(c) \/ SetOwnPassword(c)
  \/ ResetPassword \/ SwitchAccount

Spec == Init /\ [][Next]_vars
-----------------------------------------------------------------------------
(* Properties.                                                             *)

\* Types; a token that is kept, on its way or in the row has been issued, and
\* no two devices have the same one.
TypeOK ==
  /\ user \in [hash : 0..Len(issued), password : 0..MaxAdmin, temporary : BOOLEAN,
               active : BOOLEAN, by : {"admin", "person"}]
  /\ kept \in [Stores -> 0..Len(issued)]
  /\ \A s, t \in Stores : s # t /\ kept[s] = kept[t] => kept[s] = NoToken
  /\ \A c \in Calls : {call[c].sent, call[c].got} \subseteq 0..Len(issued)
  /\ newest \in 0..Len(issued) /\ ended \subseteq 0..Len(issued)

\* "two concurrent refreshes would invalidate each other and log the user out.
\* All 401s share one in-flight refresh instead" (web/src/lib/api.ts): when
\* every store has one tab, a refresh is refused only because of something else:
\* a sign-in or sign-out, a password, a switched account or a lost reply.
RefusedForAReason ==
  \A c \in Calls : call[c].op = "refresh" /\ call[c].pc = "refused" => call[c].sent \in ended

\* "logging in on a second device evicts the first at its next refresh": the
\* token of the last sign-in goes out of the row only by a sign-out, a password
\* or another sign-in, never for an older session.
NewestSignInHolds ==
  [][newest # NoToken /\ user.hash = newest /\ user'.hash # NoToken => user'.hash = newest']_vars

\* "A password reset invalidates any live session - never leave a refresh token
\* valid for credentials that no longer apply."
SessionsFollowThePassword ==
  user.hash # NoToken => issued[user.hash] = user.password

\* "a dropped link must not sign anyone out mid-survey": on the only app of a
\* person whose account nobody touches, no refresh is refused.
DroppedLinkSignsNobodyOut ==
  admin = 0 => \A c \in Calls : ~(call[c].op = "refresh" /\ call[c].pc = "refused")

\* "You stay signed in here; every other device is signed out."
PasswordChangeKeepsThisSession ==
  [][\A c \in Calls : /\ call[c].op = "change" /\ call[c].pc = "read" /\ call'[c].pc = "granted"
                      /\ kept[Store(c)] = user.hash
                      => kept'[Store(c)] = user'.hash]_vars

\* "Set when an admin gave this person a temporary password (on creation or a
\* reset)."
GivenPasswordsAreTemporary ==
  user.by = "admin" => user.temporary
=============================================================================
