-------------------------------- MODULE SignIn --------------------------------
(***************************************************************************)
(* AuthProvider, SignInPage and the password form of AccountPage           *)
(* (frontend/src/auth.tsx, pages/login.tsx, pages/account.tsx) over the    *)
(* session cookie of backend/app/services/passwords.py: one account, used  *)
(* in several browsers, while an administrator disables and enables it or  *)
(* sets its password.                                                      *)
(*                                                                         *)
(* The clock counts the whole seconds that session tokens are stamped      *)
(* with.  A browser attaches its cookie when it sends a request, and takes *)
(* the cookie of an answer when that arrives, whoever still waits for it.  *)
(***************************************************************************)
EXTENDS Integers

CONSTANTS
  Browser,       \* browsers in which the account is used
  NoSession,     \* no cookie
  SessionTTL,    \* session_ttl_minutes, in ticks of the clock
  MaxNow,        \* bound on the clock
  MaxRevision    \* bound on changes of the password and disablings

VARIABLES
  hub,      \* the clock and the local_users row
  screen,   \* screen[b]: the cookie of the browser, and its AuthProvider
  calls     \* calls[b][k]: the request of kind k that browser b has under way

signInVars == <<hub, screen, calls>>

Kind == {"me", "login", "change", "logout"}

\* A token: its second, and how often sessions had been ended when it was issued.
Session == [iat : 0 .. MaxNow, revision : 0 .. MaxRevision]

Cookie == Session \cup {NoSession}

SignInTypeOK ==
  /\ hub \in [now : 0 .. MaxNow, validAfter : -1 .. MaxNow, active : BOOLEAN,
              revision : 0 .. MaxRevision]
  /\ screen \in [Browser -> [cookie : Cookie, user : BOOLEAN, ready : BOOLEAN]]
  /\ calls \in [Browser -> [Kind -> [step : {"none", "asked", "checked", "issued", "who",
                                             "answered", "failed"},
                                     session : Cookie, ok : BOOLEAN]]]

NoRequest == [step |-> "none", session |-> NoSession, ok |-> FALSE]

Sent(b) == [NoRequest EXCEPT !.step = "asked", !.session = screen[b].cookie]

\* The provider asks who is signed in when it is mounted, and renders no page yet.
SignInInit ==
  /\ hub = [now |-> 0, validAfter |-> -1, active |-> TRUE, revision |-> 0]
  /\ screen \in [Browser -> [cookie : {NoSession, [iat |-> 0, revision |-> 0]},
                             user : {FALSE}, ready : {FALSE}]]
  /\ calls = [b \in Browser |-> [k \in Kind |-> IF k = "me" THEN Sent(b) ELSE NoRequest]]

----------------------------------------------------------------------------
(* Sessions. *)

\* session_still_valid; nothing has ended a session where validAfter is -1.
StillValid(s) == s.iat >= hub.validAfter

\* _profile_from_token.
Accepted(s) ==
  /\ s # NoSession
  /\ hub.now <= s.iat + SessionTTL
  /\ hub.active
  /\ StillValid(s)

SecondPasses ==
  /\ hub.now < MaxNow
  /\ hub' = [hub EXCEPT !.now = @ + 1]
  /\ UNCHANGED <<screen, calls>>

\* Mutant: a disabled account is only marked.
DisableOnly ==
  /\ hub.active /\ hub.revision < MaxRevision
  /\ hub' = [hub EXCEPT !.active = FALSE, !.revision = @ + 1]
  /\ UNCHANGED <<screen, calls>>

\* update_user with is_active, from an administrator.
Disable ==
  /\ hub.active /\ hub.revision < MaxRevision
  /\ hub' = [hub EXCEPT !.active = FALSE, !.validAfter = hub.now, !.revision = @ + 1]
  /\ UNCHANGED <<screen, calls>>

\* update_user with a password, from an administrator: no session is issued.
ResetPassword ==
  /\ hub.revision < MaxRevision
  /\ hub' = [hub EXCEPT !.validAfter = hub.now, !.revision = @ + 1]
  /\ UNCHANGED <<screen, calls>>

Enable ==
  /\ ~hub.active
  /\ hub' = [hub EXCEPT !.active = TRUE]
  /\ UNCHANGED <<screen, calls>>

----------------------------------------------------------------------------
(* The pages. *)

\* Mutant: pages are rendered while the session is still being checked.
SendAtOnce(b, k) ==
  /\ screen[b].user = (k # "login")
  /\ calls[b][k].step = "none"
  /\ calls' = [calls EXCEPT ![b][k] = Sent(b)]
  /\ UNCHANGED <<hub, screen>>

\* submitLocal on the sign-in page; Save password and Log out for a user.
Send(b, k) ==
  /\ screen[b].ready
  /\ screen[b].user = (k # "login")
  /\ calls[b][k].step = "none"
  /\ calls' = [calls EXCEPT ![b][k] = Sent(b)]
  /\ UNCHANGED <<hub, screen>>

\* login, up to the password.
CheckPassword(b) ==
  /\ calls[b]["login"].step = "asked"
  /\ hub.active
  /\ calls' = [calls EXCEPT ![b]["login"].step = "checked"]
  /\ UNCHANGED <<hub, screen>>

\* update_user with a password, up to its commit.
ChangePassword(b) ==
  /\ calls[b]["change"].step = "asked"
  /\ Accepted(calls[b]["change"].session)
  /\ hub.revision < MaxRevision
  /\ hub' = [hub EXCEPT !.validAfter = hub.now, !.revision = @ + 1]
  /\ calls' = [calls EXCEPT ![b]["change"].step = "checked"]
  /\ UNCHANGED screen

Fresh == [iat |-> hub.now, revision |-> hub.revision]

\* _set_session, and the logout route, which only deletes the cookie.
SetSession(b, k) ==
  /\ calls[b][k].step = IF k = "logout" THEN "asked" ELSE "checked"
  /\ calls' = [calls EXCEPT ![b][k].step = "issued",
                            ![b][k].session = IF k = "logout" THEN NoSession ELSE Fresh]
  /\ UNCHANGED <<hub, screen>>

WhoAmI(b, k) ==
  /\ calls[b][k].step = IF k = "me" THEN "asked" ELSE "who"
  /\ calls' = [calls EXCEPT ![b][k].step = "answered", ![b][k].ok = Accepted(calls[b][k].session)]
  /\ UNCHANGED <<hub, screen>>

RequestFails(b, k) ==
  /\ calls[b][k].step \in {"asked", "checked", "who"}
  /\ calls' = [calls EXCEPT ![b][k].step = "failed"]
  /\ UNCHANGED <<hub, screen>>

\* submitLocal goes on with refresh(), and logout with setUser(null).
CookieArrives(b, k) ==
  /\ calls[b][k].step = "issued"
  /\ screen' = [screen EXCEPT ![b].cookie = calls[b][k].session, ![b].user = @ /\ k # "logout"]
  /\ calls' = [calls EXCEPT ![b][k] = IF k = "login" THEN [@ EXCEPT !.step = "who"]
                                      ELSE NoRequest]
  /\ UNCHANGED hub

UserArrives(b, k) ==
  /\ calls[b][k].step = "answered"
  /\ screen' = [screen EXCEPT ![b].user = calls[b][k].ok, ![b].ready = TRUE]
  /\ calls' = [calls EXCEPT ![b][k] = NoRequest]
  /\ UNCHANGED hub

FailureArrives(b, k) ==
  /\ calls[b][k].step = "failed"
  /\ screen' = IF k = "me" THEN [screen EXCEPT ![b].user = FALSE, ![b].ready = TRUE] ELSE screen
  /\ calls' = [calls EXCEPT ![b][k] = NoRequest]
  /\ UNCHANGED hub

SignInNext ==
  \/ SecondPasses \/ Disable \/ Enable \/ ResetPassword
  \/ \E b \in Browser :
       \/ CheckPassword(b) \/ ChangePassword(b)
       \/ \E k \in Kind \ {"me"} : Send(b, k) \/ SetSession(b, k) \/ CookieArrives(b, k)
       \/ \E k \in Kind : WhoAmI(b, k) \/ RequestFails(b, k) \/ UserArrives(b, k)
                          \/ FailureArrives(b, k)

SignInSpec == SignInInit /\ [][SignInNext]_signInVars

----------------------------------------------------------------------------
(* Properties. *)

\* The cookies of browsers, and those on their way to one.
Issued ==
  {screen[b].cookie : b \in Browser}
    \cup {calls[b][k].session : b \in Browser, k \in {"login", "change"}}

\* Who changes the password goes on with the answer's cookie: what is issued
\* after sessions were ended is not ended with them, however slow the answer is.
NewSessionsPass ==
  \A s \in Issued \ {NoSession} : s.revision = hub.revision => StillValid(s)

\* A change of the password, or a time of being disabled, ends the sessions that
\* came before it, in every browser and for good; only a session of that very
\* second is spared.
OldSessionsEnd ==
  \A s \in Issued \ {NoSession} :
    s.revision < hub.revision /\ Accepted(s) => s.iat = hub.validAfter

\* Sessions follow the account, whoever ends them and whatever is under way.
SessionsFollowAccount == NewSessionsPass /\ OldSessionsEnd

\* The check of the mount never lands on a user who has signed in since: only
\* Log out takes a user away.
OnlyByLogOut ==
  \A b \in Browser :
    screen[b].user /\ ~screen'[b].user => calls[b]["logout"].step = "issued"

OnlyLogOutSignsOut == [][OnlyByLogOut]_signInVars
=============================================================================
