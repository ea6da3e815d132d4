------------------------------ MODULE WebAuth ------------------------------
(***************************************************************************)
(* The accounts of the web UI (apps/webui: repository.cpp, the login, user *)
(* and security controllers, session_guard.cpp, ws_controller.cpp): users, *)
(* tokens and WebSocket sessions.  All handlers run on one IO thread, so a *)
(* request is one step; a request that is refused changes nothing and is   *)
(* no step at all.  What lives outside the thread is what makes it hard:   *)
(* tokens that stay in the browsers, connections that are told to close    *)
(* and close later, and the database that outlives the process.            *)
(***************************************************************************)
EXTENDS Integers, FiniteSets

CONSTANTS Names, AdminName,      \* user names, and the configured one
          Conns, Addrs,          \* WebSocket connections, client addresses
          Ttl, LockSecs,         \* token_ttl_sec, lockout_duration_sec
          MaxNow, MaxVersion,    \* bounds: the clock, the password changes of a user
          MaxFails, MaxTokens,   \* wrong passwords in a row, tokens kept by browsers
          MaxRequests            \* and the REST calls after the logins

ASSUME AuthAssumption ==
    /\ AdminName \in Names
    /\ Ttl \in Nat /\ LockSecs \in Nat /\ MaxVersion \in Nat

VARIABLES users,      \* the table users, by name
          tokens,     \* the tokens signed so far
          sessions,   \* sessions_, with the connections asked to close
          security,   \* security_config and the two address lists
          now,
          calls,   \* the REST calls made so far
          told,       \* the scopes the last step broadcast as data_changed
          fresh,      \* ghost: online by a login that no connection followed
          dimmed,     \* ghost: set offline by an admin while connected
          demoted     \* ghost: an admin has lost the role

authVars == <<users, tokens, sessions, security, now, calls,
              told, fresh, dimmed, demoted>>

-----------------------------------------------------------------------------
(* Rows and queries: the table with its defaults, and the Repository.  The
   login history is not kept here: nothing decides by it, and all that its
   entries do is to be announced. *)
NewRow(role) ==
    [role |-> role, status |-> "offline", until |-> 0, fails |-> 0, ver |-> 0,
     must |-> FALSE, initial |-> FALSE]

Has(n) == n \in DOMAIN users
Set(n, row) == [m \in DOMAIN users \cup {n} |-> IF m = n THEN row ELSE users[m]]
create_user(n, role) == Set(n, NewRow(role))
delete_user(n) == [m \in DOMAIN users \ {n} |-> users[m]]
update_user_status(n, status) == Set(n, [users[n] EXCEPT !.status = status])
revoke_user_tokens(row) == [row EXCEPT !.ver = @ + 1]

set_security_config(lockout, mode, max) ==
    [security EXCEPT !.lockout = lockout, !.mode = mode, !.max = max]

recorded == {"login_history"}

Blocked(row) == row.status \in {"disabled", "locked"}

SessionsOf(n) == {c \in DOMAIN sessions : sessions[c].user = n}
Open(c) == ~ sessions[c].closing

(* The plausible bug: a demotion closes no connection. *)
NeverDemotes(row, role) == FALSE

demotes(row, role) == row.role = "admin" /\ role # "admin"

(* conn->shutdown(): the connection is told to close and stays in sessions_
   until its close callback. *)
kick_user(n) ==
    sessions' = [c \in DOMAIN sessions |->
                   IF sessions[c].user = n THEN [sessions[c] EXCEPT !.closing = TRUE]
                   ELSE sessions[c]]

-----------------------------------------------------------------------------
(* Tokens: jwt_sign, jwt_verify, check_session, and the advice before every
   REST handler. *)
jwt_sign(n, ver) == [user |-> n, ver |-> ver, exp |-> now + Ttl]
jwt_verify(t) == now < t.exp

check_session(t) ==
    IF ~ Has(t.user) \/ users[t.user].status = "disabled" \/ users[t.user].ver # t.ver
    THEN "InvalidToken"
    ELSE IF users[t.user].must THEN "PasswordChangeRequired" ELSE "Valid"

is_admin(t) ==
    jwt_verify(t) /\ check_session(t) = "Valid" /\ users[t.user].role = "admin"

-----------------------------------------------------------------------------
(* LoginCtrl::login. *)
banned(ip) ==
    \/ security.mode = "blacklist" /\ ip \in security.black
    \/ security.mode = "whitelist" /\ ip \notin security.white

MayTry(n, ip) ==
    /\ Has(n) /\ ~ Blocked(users[n]) /\ users[n].until <= now
    /\ ~ banned(ip)

(* The plausible bug: a locked account is only a matter of the login history. *)
HistoryOnly(locks) == recorded

failure_scopes(locks) == IF locks THEN recorded \cup {"users"} ELSE recorded

LoginFails(n, ip) ==
    LET fails == users[n].fails + 1
        locks == security.lockout /\ fails >= security.max
    IN /\ MayTry(n, ip) /\ fails <= MaxFails
       /\ users' = Set(n, IF locks THEN [users[n] EXCEPT !.fails = fails, !.status = "locked",
                                                         !.until = now + LockSecs]
                                   ELSE [users[n] EXCEPT !.fails = fails])
       /\ told' = failure_scopes(locks)
       /\ UNCHANGED <<tokens, sessions, security, now, fresh, dimmed, demoted>>

LoginSucceeds(n, ip) ==
    /\ MayTry(n, ip)
    /\ users' = Set(n, [users[n] EXCEPT !.fails = 0, !.status = "online"])
    /\ tokens' = tokens \cup {jwt_sign(n, users[n].ver)} /\ Cardinality(tokens') <= MaxTokens
    /\ told' = recorded \cup {"users"}
    /\ fresh' = fresh \cup {n} /\ dimmed' = dimmed \ {n}
    /\ UNCHANGED <<sessions, security, now, demoted>>

-----------------------------------------------------------------------------
(* UserCtrl: create, update, remove, update_status and the two passwords. *)
create(t, n, role) ==
    /\ is_admin(t) /\ ~ Has(n)
    /\ users' = create_user(n, role)
    /\ told' = {"users"}
    /\ UNCHANGED <<tokens, sessions, security, now, fresh, dimmed, demoted>>

update(t, n, role) ==
    /\ is_admin(t) /\ Has(n)
    /\ users' = Set(n, [users[n] EXCEPT !.role = role])
    /\ IF demotes(users[n], role) THEN kick_user(n) ELSE UNCHANGED sessions
    /\ demoted' = (demoted \/ (users[n].role = "admin" /\ role # "admin"))
    /\ told' = {"users"}
    /\ UNCHANGED <<tokens, security, now, fresh, dimmed>>

remove(t, n) ==
    /\ is_admin(t) /\ Has(n) /\ n # t.user /\ users[n].role # "admin"
    /\ users' = delete_user(n)
    /\ kick_user(n)
    /\ told' = {"users"} /\ fresh' = fresh \ {n} /\ dimmed' = dimmed \ {n}
    /\ UNCHANGED <<tokens, security, now, demoted>>

(* "disabled": status, then revoke_user_tokens, then the kick. *)
Disable(t, n) ==
    /\ is_admin(t) /\ Has(n) /\ users[n].role # "admin" /\ users[n].ver < MaxVersion
    /\ users' = Set(n, revoke_user_tokens([users[n] EXCEPT !.status = "disabled"]))
    /\ kick_user(n)
    /\ told' = {"users"}
    /\ UNCHANGED <<tokens, security, now, fresh, dimmed, demoted>>

Dim(n) == dimmed' = IF SessionsOf(n) # {} THEN dimmed \cup {n} ELSE dimmed

Enable(t, n) ==
    /\ is_admin(t) /\ Has(n)
    /\ users' = update_user_status(n, "offline")
    /\ told' = {"users"} /\ Dim(n) /\ fresh' = fresh \ {n}
    /\ UNCHANGED <<tokens, sessions, security, now, demoted>>

LockByAdmin(t, n) ==
    /\ is_admin(t) /\ Has(n) /\ users[n].role # "admin"
    /\ users' = Set(n, [users[n] EXCEPT !.status = "locked", !.until = now + LockSecs])
    /\ told' = {"users"}
    /\ UNCHANGED <<tokens, sessions, security, now, fresh, dimmed, demoted>>

Unlock(t, n) ==
    /\ is_admin(t) /\ Has(n)
    /\ users' = Set(n, [users[n] EXCEPT !.fails = 0, !.until = 0, !.status = "offline"])
    /\ told' = {"users"} /\ Dim(n) /\ fresh' = fresh \ {n}
    /\ UNCHANGED <<tokens, sessions, security, now, demoted>>

(* One UPDATE: the hash, the version and the flag. *)
write_password(row, must) ==
    [row EXCEPT !.ver = @ + 1, !.must = must, !.initial = FALSE]

reset_password(t, n) ==
    /\ is_admin(t) /\ Has(n) /\ users[n].ver < MaxVersion
    /\ users' = Set(n, write_password(users[n], TRUE))
    /\ kick_user(n)
    /\ told' = {}
    /\ UNCHANGED <<tokens, security, now, fresh, dimmed, demoted>>

change_password(t) ==
    /\ jwt_verify(t) /\ check_session(t) # "InvalidToken"
    /\ users[t.user].ver < MaxVersion
    /\ users' = Set(t.user, write_password(users[t.user], FALSE))
    /\ kick_user(t.user)
    /\ told' = {}
    /\ UNCHANGED <<tokens, security, now, fresh, dimmed, demoted>>

-----------------------------------------------------------------------------
(* SecurityCtrl: the configuration, and an entry put on a list or taken off. *)
set_config(t, lockout, mode, max) ==
    /\ is_admin(t)
    /\ security' = set_security_config(lockout, mode, max)
    /\ told' = {"security_config"}
    /\ UNCHANGED <<users, tokens, sessions, now, fresh, dimmed, demoted>>

Toggle(S, x) == IF x \in S THEN S \ {x} ELSE S \cup {x}

add_or_remove_blacklist(t, ip) ==
    /\ is_admin(t)
    /\ security' = [security EXCEPT !.black = Toggle(@, ip)] /\ told' = {"blacklist"}
    /\ UNCHANGED <<users, tokens, sessions, now, fresh, dimmed, demoted>>

add_or_remove_whitelist(t, ip) ==
    /\ is_admin(t)
    /\ security' = [security EXCEPT !.white = Toggle(@, ip)] /\ told' = {"whitelist"}
    /\ UNCHANGED <<users, tokens, sessions, now, fresh, dimmed, demoted>>

-----------------------------------------------------------------------------
(* WsController. *)
handleNewConnection(c, t) ==
    LET n == t.user
    IN /\ c \notin DOMAIN sessions
       /\ jwt_verify(t) /\ check_session(t) = "Valid"
       /\ sessions' = [d \in DOMAIN sessions \cup {c} |->
                         IF d = c THEN [user |-> n, admin |-> users[n].role = "admin",
                                        ver |-> t.ver, closing |-> FALSE]
                         ELSE sessions[d]]
       /\ users' = IF Blocked(users[n]) THEN users ELSE update_user_status(n, "online")
       /\ told' = {"users"} /\ dimmed' = dimmed \ {n}
       /\ UNCHANGED <<tokens, security, now, fresh, demoted>>

handleConnectionClosed(c) ==
    /\ c \in DOMAIN sessions
    /\ sessions' = [d \in DOMAIN sessions \ {c} |-> sessions[d]]
    /\ LET n    == sessions[c].user
           last == SessionsOf(n) = {c}
       IN /\ users' = IF last /\ Has(n) /\ ~ Blocked(users[n])
                      THEN update_user_status(n, "offline") ELSE users
          /\ told' = IF last THEN {"users"} ELSE {}
          /\ fresh' = IF last THEN fresh \ {n} ELSE fresh
          /\ dimmed' = IF last THEN dimmed \ {n} ELSE dimmed
    /\ UNCHANGED <<tokens, security, now, demoted>>

-----------------------------------------------------------------------------
(* main: seed_admin_user and force_password_change_if_default. *)
Admins(us) == {n \in DOMAIN us : us[n].role = "admin"}

seed_admin_user(us) ==
    IF Admins(us) # {} \/ AdminName \in DOMAIN us THEN us
    ELSE [n \in DOMAIN us \cup {AdminName} |->
            IF n = AdminName THEN [NewRow("admin") EXCEPT !.initial = TRUE] ELSE us[n]]

force_password_change_if_default(us) ==
    [n \in DOMAIN us |-> IF n = AdminName /\ us[n].initial
                         THEN [us[n] EXCEPT !.must = TRUE] ELSE us[n]]

Boot(us) == force_password_change_if_default(seed_admin_user(us))

(* The process ends, however, and is started again; the database stays. *)
Restart ==
    /\ users' = Boot(users)
    /\ sessions' = <<>>
    /\ fresh' = {n \in DOMAIN users : users[n].status = "online"} /\ dimmed' = {}
    /\ told' = {}
    /\ UNCHANGED <<tokens, security, now, demoted>>

Tick == now < MaxNow /\ now' = now + 1 /\ told' = {}
        /\ UNCHANGED <<users, tokens, sessions, security, fresh, dimmed, demoted>>

-----------------------------------------------------------------------------
(* The first start, or a later one with users in the database. *)
AuthInit ==
    /\ users \in {Boot(<<>>), [n \in Names |-> NewRow(IF n = AdminName THEN "admin" ELSE "user")]}
    /\ tokens = {} /\ sessions = <<>>
    /\ security = [lockout |-> TRUE, mode |-> "auto", max |-> 2, black |-> {}, white |-> {}]
    /\ now = 0 /\ calls = 0 /\ told = {} /\ fresh = {} /\ dimmed = {} /\ demoted = FALSE

Request(t) ==
    \/ change_password(t)
    \/ \E n \in Names :
         \/ \E role \in {"admin", "user"} : create(t, n, role) \/ update(t, n, role)
         \/ remove(t, n) \/ Disable(t, n) \/ Enable(t, n)
         \/ LockByAdmin(t, n) \/ Unlock(t, n) \/ reset_password(t, n)
    \/ \E ip \in Addrs : add_or_remove_blacklist(t, ip) \/ add_or_remove_whitelist(t, ip)
    \/ \E lockout \in BOOLEAN, mode \in {"auto", "blacklist", "whitelist"} :
         set_config(t, lockout, mode, security.max)

AuthNext ==
    \/ /\ calls < MaxRequests /\ calls' = calls + 1
       /\ \E t \in tokens : Request(t)
    \/ /\ \/ \E n \in Names, ip \in Addrs : LoginFails(n, ip) \/ LoginSucceeds(n, ip)
          \/ \E c \in Conns : \/ \E t \in tokens : handleNewConnection(c, t)
                             \/ handleConnectionClosed(c)
          \/ Restart
          \/ Tick
       /\ UNCHANGED calls

AuthSpec == AuthInit /\ [][AuthNext]_authVars

-----------------------------------------------------------------------------
AuthTypeOK ==
    /\ DOMAIN users \subseteq Names /\ DOMAIN sessions \subseteq Conns
    /\ \A n \in DOMAIN users :
         /\ users[n].status \in {"offline", "online", "disabled", "locked"}
         /\ users[n].ver \in 0..MaxVersion
    /\ fresh \subseteq DOMAIN users

(* ws_controller.cpp, user_controller.cpp: a connection that has not been told
   to close belongs to a user who exists, is not disabled, has not changed the
   password since, does not have to change it, and is an admin if the
   connection counts as one. *)
SessionsCurrent ==
    \A c \in DOMAIN sessions : Open(c) =>
        /\ Has(sessions[c].user)
        /\ LET u == users[sessions[c].user]
           IN /\ u.status # "disabled" /\ u.ver = sessions[c].ver /\ ~ u.must
              /\ sessions[c].admin => u.role = "admin"

(* ws_controller.cpp: a connected user is shown online unless locked, or set
   offline by an admin meanwhile; a user shown online is connected, or has
   logged in and not connected yet, or was online when the process ended. *)
PresenceShown ==
    \A n \in DOMAIN users :
        /\ (\E c \in SessionsOf(n) : Open(c)) =>
              users[n].status \in {"online", "locked"} \/ n \in dimmed
        /\ users[n].status = "online" => SessionsOf(n) # {} \/ n \in fresh

(* user_controller.cpp remove, update_status: no request leaves the program
   without an admin who can be let in, short of taking the role away. *)
AdminRemains == demoted \/ \E n \in Admins(users) : users[n].status # "disabled"

AccountsHonest == AuthTypeOK /\ SessionsCurrent /\ PresenceShown /\ AdminRemains

(* What the lists of the UI show of a table: list_users, and UserCtrl. *)
user_to_json(row) == <<row.role, row.status, row.until>>
Shown(us) == [n \in DOMAIN us |-> user_to_json(us[n])]

(* broadcast_data_changed: whoever is connected is told of every change of a
   list it may be looking at, also of one made by a login that failed or by a
   connection that closed. *)
ListsAnnounced ==
    [][sessions' # <<>> =>
         /\ Shown(users') # Shown(users) => "users" \in told'
         /\ security' # security => told' \cap {"security_config", "blacklist", "whitelist"} # {}]_authVars
=============================================================================
