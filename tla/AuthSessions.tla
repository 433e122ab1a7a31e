---------------------------- MODULE AuthSessions ----------------------------
(***************************************************************************)
(* The auth service of the backend, for one user: registration, login,     *)
(* refresh, logout, password changes, reset tokens and one-time codes.     *)
(* A call is a sequence of awaited statements; between them other calls    *)
(* run, and each statement may reject, which ends its call there.          *)
(***************************************************************************)
EXTENDS Integers, Sequences, FiniteSets

CONSTANTS
    Slots,        \* calls that run at the same time
    MaxPerUser,   \* maxSessionsPerUser
    MaxCalls,     \* bound on the calls, suspensions and expiries
    MaxSessions,  \* bound on the rows of auth_sessions
    MaxTokens,    \* bound on the refresh tokens ever issued
    MaxOthers     \* bound on codes, reset tokens and password changes

ASSUME AuthBounds ==
    /\ MaxPerUser \in Nat \ {0}
    /\ {MaxCalls, MaxSessions, MaxTokens, MaxOthers} \subseteq Nat

VARIABLES
    db,       \* the tables: user, credential, sessions, tokens, codes, resets
    calls,    \* per slot: the statement a running call waits for, and what it has read
    made,     \* how many of MaxCalls have happened
    history   \* for the properties: see Remember

vars == <<db, calls, made, history>>

Session == [token : 1..MaxTokens, version : Nat, passwordVersion : Nat,
            status : {"active", "revoked"}, lapsed : BOOLEAN, byCode : BOOLEAN]
Token == [session : 1..MaxSessions, version : Nat, passwordVersion : Nat]
Idle == [at |-> "idle"]

\* revived: sessions that a refresh made active again after they had ended;
\* overtaken: sessions created from a credential that was changed meanwhile;
\* unpruned: sessions whose login was cut short before it pruned;
\* kept: sessions that a password change left alone, on request or because it was cut short;
\* uses, contested: how often a code or a reset token took effect, and those presented again
\* before they were marked, or never marked.
Remember == [revived |-> {}, overtaken |-> {}, unpruned |-> {},
             uses |-> [k \in {"code", "reset"} \X (1..MaxOthers) |-> 0], contested |-> {}, kept |-> {}]

Init ==
    /\ db = [user |-> "none", credential |-> [version |-> 0, password |-> 0], passwords |-> 0,
             sessions |-> <<>>, tokens |-> <<>>, codes |-> <<>>, resets |-> <<>>]
    /\ calls = [c \in Slots |-> Idle]
    /\ made = 0
    /\ history = Remember

Active == {s \in DOMAIN db.sessions : db.sessions[s].status = "active"}

\* A plausible slip: the reason is stored as the status.
RevokeWithReason(ended) ==
    [s \in DOMAIN db.sessions |->
        IF s \in ended \cap Active THEN [db.sessions[s] EXCEPT !.status = "manual"] ELSE db.sessions[s]]

\* markInactive and markInactiveByUser change active rows only.
Revoke(ended) ==
    [s \in DOMAIN db.sessions |->
        IF s \in ended \cap Active THEN [db.sessions[s] EXCEPT !.status = "revoked"] ELSE db.sessions[s]]

\* The statement that ran was the last one, or the next one is call.
Go(c, call) == calls' = [calls EXCEPT ![c] = call]
Return(c) == Go(c, Idle)

\* A new call of the service, which waits for statement call.
Arrive(c, call) ==
    /\ calls[c].at = "idle" /\ made < MaxCalls
    /\ made' = made + 1
    /\ Go(c, call)

Waits(c, statement) == calls[c].at = statement /\ UNCHANGED made

-----------------------------------------------------------------------------
(* Registration and login                                                   *)

Register(c) ==
    /\ db.user = "none" /\ Arrive(c, [at |-> "insertUser"])
    /\ UNCHANGED <<db, history>>

\* The email is unique: the second INSERT rejects.
InsertUser(c) ==
    /\ Waits(c, "insertUser")
    /\ IF db.user = "none"
         THEN db' = [db EXCEPT !.user = "active"] /\ Go(c, [at |-> "insertCredential"])
         ELSE UNCHANGED db /\ Return(c)
    /\ UNCHANGED history

\* issueSession may be false.
InsertCredential(c) ==
    /\ Waits(c, "insertCredential")
    /\ db' = [db EXCEPT !.credential = [version |-> 1, password |-> 1], !.passwords = 1]
    /\ Return(c) \/ Go(c, [at |-> "create", seen |-> 1, code |-> 0])
    /\ UNCHANGED history

\* authenticate found the user, who is active; somebody presents a password.
Login(c) ==
    /\ db.user = "active"
    /\ \E p \in 1..db.passwords : Arrive(c, [at |-> "verify", password |-> p])
    /\ UNCHANGED <<db, history>>

Verify(c) ==
    /\ Waits(c, "verify")
    /\ IF db.credential.version > 0 /\ db.credential.password = calls[c].password
         THEN Go(c, [at |-> "create", seen |-> db.credential.version, code |-> 0])
         ELSE Return(c)
    /\ UNCHANGED <<db, history>>

\* issueInitialSession; a session that comes from a code is not followed by pruneSessions.
CreateSession(c) ==
    LET call == calls[c]
        s == Len(db.sessions) + 1
        t == Len(db.tokens) + 1
    IN  /\ Waits(c, "create") /\ s <= MaxSessions /\ t <= MaxTokens
        /\ db' = [db EXCEPT
               !.tokens = Append(@, [session |-> s, version |-> 1, passwordVersion |-> call.seen]),
               !.sessions = Append(@, [token |-> t, version |-> 1, passwordVersion |-> call.seen,
                                       status |-> "active", lapsed |-> FALSE, byCode |-> call.code # 0])]
        /\ IF call.code = 0 THEN Go(c, [at |-> "list", own |-> s]) ELSE Return(c)
        /\ history' = [history EXCEPT
               !.overtaken = IF call.seen # db.credential.version THEN @ \cup {s} ELSE @,
               !.uses = IF call.code = 0 THEN @ ELSE [history.uses EXCEPT ![<<"code", call.code>>] = @ + 1]]

\* A plausible slip: one session too many is kept.
SurplusLessOne(own, limit) ==
    {s \in Active \ {own} : Cardinality({o \in Active \ {own} : o > s}) > limit}

\* pruneSessions: of the sessions other than its own, all but the youngest ones.
Surplus(own, limit) ==
    LET listed == {s \in Active : ~db.sessions[s].lapsed}
        others == listed \ {own}
    IN  IF Cardinality(listed) <= limit THEN {}
        ELSE {s \in others : Cardinality({o \in others : o > s}) >= limit}

List(c) ==
    /\ Waits(c, "list")
    /\ LET surplus == Surplus(calls[c].own, MaxPerUser)
       IN  IF surplus = {} THEN Return(c)
                           ELSE Go(c, [at |-> "prune", own |-> calls[c].own, surplus |-> surplus])
    /\ UNCHANGED <<db, history>>

\* The statements of Promise.all take effect in any order.
Prune(c) ==
    /\ Waits(c, "prune")
    /\ \E s \in calls[c].surplus :
          /\ db' = [db EXCEPT !.sessions = Revoke({s})]
          /\ IF calls[c].surplus = {s} THEN Return(c)
             ELSE Go(c, [calls[c] EXCEPT !.surplus = @ \ {s}])
    /\ UNCHANGED history

-----------------------------------------------------------------------------
(* Refresh and logout                                                       *)

\* A plausible slip: the status of the session is not looked at.
RefreshAny(c, t) ==
    LET session == db.sessions[db.tokens[t].session]
    IN  /\ session.token = t
        /\ Arrive(c, [at |-> "findUser", session |-> db.tokens[t].session, seen |-> session])
        /\ UNCHANGED <<db, history>>

\* The session as refreshSession reads it, and what it does about token t.
Refresh(c, t) ==
    LET token == db.tokens[t]
        session == db.sessions[token.session]
    IN  /\ session.status = "active"
        /\ IF session.lapsed \/ session.token # t
             THEN Arrive(c, [at |-> "revoke", session |-> token.session])
             ELSE /\ token.version = session.version /\ token.passwordVersion = session.passwordVersion
                  /\ Arrive(c, [at |-> "findUser", session |-> token.session, seen |-> session])
        /\ UNCHANGED <<db, history>>

FindUser(c) ==
    /\ Waits(c, "findUser")
    /\ IF db.user = "active" THEN Go(c, [calls[c] EXCEPT !.at = "rotate"]) ELSE Return(c)
    /\ UNCHANGED <<db, history>>

\* replaceRefreshToken sets the status to active whatever it is.
Rotate(c) ==
    LET call == calls[c]
        s == call.session
        t == Len(db.tokens) + 1
    IN  /\ Waits(c, "rotate") /\ t <= MaxTokens
        /\ db' = [db EXCEPT
               !.tokens = Append(@, [session |-> s, version |-> call.seen.version + 1,
                                     passwordVersion |-> call.seen.passwordVersion]),
               !.sessions[s] = [@ EXCEPT !.token = t, !.version = call.seen.version + 1,
                                         !.status = "active", !.lapsed = FALSE]]
        /\ history' = [history EXCEPT !.revived = IF s \in Active /\ ~db.sessions[s].lapsed THEN @ ELSE @ \cup {s}]
        /\ Return(c)

\* logout read an active session.
Logout(c, s) ==
    /\ s \in Active /\ Arrive(c, [at |-> "revoke", session |-> s])
    /\ UNCHANGED <<db, history>>

\* markInactive, of a logout, a lapsed session or a token that was replaced.
RevokeOne(c) ==
    /\ Waits(c, "revoke")
    /\ db' = [db EXCEPT !.sessions = Revoke({calls[c].session})]
    /\ Return(c) /\ UNCHANGED history

LogoutAll(c, except) ==
    /\ calls[c].at = "idle" /\ made < MaxCalls /\ Active # {}
    /\ made' = made + 1
    /\ db' = [db EXCEPT !.sessions = Revoke(DOMAIN db.sessions \ except)]
    /\ UNCHANGED <<calls, history>>

-----------------------------------------------------------------------------
(* Passwords, reset tokens and codes                                        *)

\* updatePassword read the credential, and verified the current password if one was given.
UpdatePassword(c) ==
    /\ db.credential.version > 0
    /\ \E invalidate \in BOOLEAN :
          Arrive(c, [at |-> "change", seen |-> db.credential.version, invalidate |-> invalidate, reset |-> 0])
    /\ UNCHANGED <<db, history>>

\* Another call that found code or reset token k unused has yet to mark it.
Unmarked(kind, k) ==
    \E d \in Slots :
        \/ kind = "code" /\ calls[d].at = "markCode" /\ calls[d].code = k
        \/ kind = "reset" /\ calls[d].at \in {"findCredential", "change", "endAll", "markReset"} /\ calls[d].reset = k

Contest(kind, k) ==
    history' = [history EXCEPT !.contested = IF Unmarked(kind, k) THEN @ \cup {<<kind, k>>} ELSE @]

\* confirmPasswordReset found the token unused.
ConfirmReset(c, r) ==
    /\ ~db.resets[r] /\ Arrive(c, [at |-> "findCredential", reset |-> r])
    /\ Contest("reset", r) /\ UNCHANGED db

FindCredential(c) ==
    /\ Waits(c, "findCredential")
    /\ IF db.credential.version > 0
         THEN Go(c, [at |-> "change", seen |-> db.credential.version, invalidate |-> TRUE,
                     reset |-> calls[c].reset])
         ELSE Return(c)
    /\ UNCHANGED <<db, history>>

Change(c) ==
    LET call == calls[c]
    IN  /\ Waits(c, "change") /\ db.passwords <= MaxOthers
        /\ db' = [db EXCEPT !.passwords = @ + 1,
                            !.credential = [version |-> call.seen + 1, password |-> db.passwords + 1]]
        /\ IF call.invalidate THEN Go(c, [at |-> "endAll", reset |-> call.reset]) ELSE Return(c)
        /\ history' = [history EXCEPT
               !.kept = IF call.invalidate THEN @ ELSE @ \cup DOMAIN db.sessions,
               !.uses = IF call.reset = 0 THEN @ ELSE [history.uses EXCEPT ![<<"reset", call.reset>>] = @ + 1]]

\* A plausible slip: the sessions of the new password version end instead of the old ones.
EndCurrent(c) ==
    /\ Waits(c, "endAll")
    /\ db' = [db EXCEPT !.sessions =
           Revoke({s \in DOMAIN @ : @[s].passwordVersion = db.credential.version})]
    /\ Return(c) /\ UNCHANGED history

EndAll(c) ==
    /\ Waits(c, "endAll")
    /\ db' = [db EXCEPT !.sessions = Revoke(DOMAIN db.sessions)]
    /\ IF calls[c].reset = 0 THEN Return(c) ELSE Go(c, [at |-> "markReset", reset |-> calls[c].reset])
    /\ UNCHANGED history

MarkReset(c) ==
    /\ Waits(c, "markReset")
    /\ db' = [db EXCEPT !.resets[calls[c].reset] = TRUE]
    /\ Return(c) /\ UNCHANGED history

\* requestPasswordReset: revokeAllForUser, then create.
RequestReset(c) ==
    /\ db.user # "none" /\ Arrive(c, [at |-> "createReset"])
    /\ db' = [db EXCEPT !.resets = [r \in DOMAIN @ |-> TRUE]]
    /\ UNCHANGED history

CreateReset(c) ==
    /\ Waits(c, "createReset") /\ Len(db.resets) < MaxOthers
    /\ db' = [db EXCEPT !.resets = Append(@, FALSE)]
    /\ Return(c) /\ UNCHANGED history

GenerateCode(c) ==
    /\ calls[c].at = "idle" /\ made < MaxCalls /\ db.user # "none" /\ Len(db.codes) < MaxOthers
    /\ made' = made + 1
    /\ db' = [db EXCEPT !.codes = Append(@, FALSE)]
    /\ UNCHANGED <<calls, history>>

\* A plausible slip: usedAt is not looked at.
ExchangeAny(c, k) ==
    /\ Arrive(c, [at |-> "markCode", code |-> k])
    /\ Contest("code", k) /\ UNCHANGED db

\* exchangeAuthCode found the code unused.
Exchange(c, k) ==
    /\ ~db.codes[k] /\ Arrive(c, [at |-> "markCode", code |-> k])
    /\ Contest("code", k) /\ UNCHANGED db

MarkCode(c) ==
    /\ Waits(c, "markCode")
    /\ db' = [db EXCEPT !.codes[calls[c].code] = TRUE]
    /\ Go(c, [calls[c] EXCEPT !.at = "codeUser"]) /\ UNCHANGED history

CodeUser(c) ==
    /\ Waits(c, "codeUser")
    /\ IF db.user = "active" THEN Go(c, [calls[c] EXCEPT !.at = "codeCredential"]) ELSE Return(c)
    /\ UNCHANGED <<db, history>>

CodeCredential(c) ==
    /\ Waits(c, "codeCredential")
    /\ IF db.credential.version > 0
         THEN Go(c, [at |-> "create", seen |-> db.credential.version, code |-> calls[c].code])
         ELSE Return(c)
    /\ UNCHANGED <<db, history>>

-----------------------------------------------------------------------------

\* An administrator suspends or reinstates the user.
SetStatus(status) ==
    /\ db.user \notin {"none", status} /\ made < MaxCalls
    /\ made' = made + 1
    /\ db' = [db EXCEPT !.user = status]
    /\ UNCHANGED <<calls, history>>

\* The expiry of a session passes.
Lapse(s) ==
    /\ s \in Active /\ ~db.sessions[s].lapsed /\ made < MaxCalls
    /\ made' = made + 1
    /\ db' = [db EXCEPT !.sessions[s].lapsed = TRUE]
    /\ UNCHANGED <<calls, history>>

\* The next statement of a call rejects, or its process stops.
Reject(c) ==
    /\ calls[c].at # "idle" /\ Return(c)
    /\ history' = [history EXCEPT
           !.unpruned = IF calls[c].at \in {"list", "prune"} THEN @ \cup {calls[c].own} ELSE @,
           !.kept = IF calls[c].at = "endAll" THEN @ \cup DOMAIN db.sessions ELSE @,
           !.contested = IF calls[c].at \in {"endAll", "markReset"} THEN @ \cup {<<"reset", calls[c].reset>>} ELSE @]
    /\ UNCHANGED <<db, made>>

Next ==
    \/ \E c \in Slots :
          \/ Register(c) \/ InsertUser(c) \/ InsertCredential(c)
          \/ Login(c) \/ Verify(c) \/ CreateSession(c) \/ List(c) \/ Prune(c)
          \/ \E t \in DOMAIN db.tokens : Refresh(c, t)
          \/ FindUser(c) \/ Rotate(c)
          \/ \E s \in DOMAIN db.sessions : Logout(c, s)
          \/ RevokeOne(c)
          \/ \E except \in {{}} \cup {{s} : s \in DOMAIN db.sessions} : LogoutAll(c, except)
          \/ UpdatePassword(c) \/ Change(c) \/ EndAll(c)
          \/ RequestReset(c) \/ CreateReset(c)
          \/ \E r \in DOMAIN db.resets : ConfirmReset(c, r)
          \/ FindCredential(c) \/ MarkReset(c)
          \/ GenerateCode(c)
          \/ \E k \in DOMAIN db.codes : Exchange(c, k)
          \/ MarkCode(c) \/ CodeUser(c) \/ CodeCredential(c)
          \/ Reject(c)
    \/ \E status \in {"active", "suspended"} : SetStatus(status)
    \/ \E s \in DOMAIN db.sessions : Lapse(s)

Spec == Init /\ [][Next]_vars

-----------------------------------------------------------------------------
(* Properties                                                               *)

TypeOK ==
    /\ db.user \in {"none", "active", "suspended"}
    /\ db.credential \in [version : Nat, password : Nat]
    /\ db.sessions \in Seq(Session) /\ Len(db.sessions) <= MaxSessions
    /\ db.tokens \in Seq(Token) /\ Len(db.tokens) <= MaxTokens
    /\ db.codes \in Seq(BOOLEAN) /\ db.resets \in Seq(BOOLEAN)
    /\ made \in 0..MaxCalls

\* A refresh under way: it read the session while that was active.
Renewing(s) ==
    \E c \in Slots :
        calls[c].at \in {"findUser", "rotate"} /\ calls[c].session = s /\ calls[c].seen.status = "active"

\* A session that was ended by a logout, the limit, a reused token or a new password stays
\* ended; only a refresh that read it before it ended can bring it back.
EndedStaysEnded ==
    [][\A s \in DOMAIN db.sessions :
          db.sessions[s].status = "revoked" /\ ~Renewing(s) => db'.sessions[s].status = "revoked"]_vars

Entering(c) == calls[c].at \in {"list", "prune"}

\* The sessions a login is to keep within the limit: those that came from codes or that a
\* race brought back, and those whose login was cut short before it pruned, are not among them.
Counted == {s \in Active : ~db.sessions[s].lapsed /\ ~db.sessions[s].byCode}
               \ (history.revived \cup history.unpruned)

\* However logins, refreshes and logouts overlap, once every login has pruned a user is left
\* with one session more than the limit and no more: pruneSessions sets its own session apart
\* before it counts the surplus (auth.service.ts:198), so SessionsWithinLimit is not kept.
OneMoreThanLimit == (\A c \in Slots : ~Entering(c)) => Cardinality(Counted) <= MaxPerUser + 1

\* "Maximum concurrent sessions per user" (auth.config.ts:39): once every login has pruned, a
\* user has no more sessions than the limit.
SessionsWithinLimit == (\A c \in Slots : ~Entering(c)) => Cardinality(Counted) <= MaxPerUser

\* After a password change that invalidates sessions, every active session of an older password
\* version was created from a credential read before, was brought back by a refresh, or was
\* left alone on request or because the change was cut short.
OldSessionsExplained ==
    (\A c \in Slots : calls[c].at # "endAll") =>
        \A s \in Active :
            db.sessions[s].passwordVersion < db.credential.version =>
                s \in history.revived \cup history.overtaken \cup history.kept

\* A code gives one session and a reset token one new password, unless it is presented again
\* before its first use marks it, or that use is cut short.
SingleUse ==
    \A k \in DOMAIN history.uses : k \notin history.contested => history.uses[k] <= 1

\* "Password version (for invalidation on password change)" (token.manager.ts:48): a session
\* of an older password is not active once the change is done.
PasswordChangeEndsSessions ==
    (\A c \in Slots : calls[c].at # "endAll") =>
        \A s \in Active \ history.kept : db.sessions[s].passwordVersion >= db.credential.version
=============================================================================
