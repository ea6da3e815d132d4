---------------------------- MODULE Webui_proofs ----------------------------
(***************************************************************************)
(* Three parts of the web UI, for any users, connections, gateways,        *)
(* accounts, processes and bounds.  WebAuth: the accounts of the UI stay   *)
(* honest, and whoever is connected is told of every change of a list.     *)
(* TdAccounts: the registry of trading accounts is honest.  WebMirror:     *)
(* the mirror of the processes and what a browser shows of it are honest.  *)
(***************************************************************************)
EXTENDS WebAuth, TdAccounts, WebMirror, SequenceTheorems, FunctionTheorems, FiniteSetTheorems,
        WellFoundedInduction, TLAPS

-----------------------------------------------------------------------------
(* AccountsHonest with the types of the tables. *)
Rows ==
    [role : {"admin", "user"}, status : {"offline", "online", "disabled", "locked"},
     until : Int, fails : Int, ver : 0..MaxVersion, must : BOOLEAN, initial : BOOLEAN]

Tokens == [user : Names, ver : 0..MaxVersion, exp : Int]

Sessions == [user : Names, admin : BOOLEAN, ver : 0..MaxVersion, closing : BOOLEAN]

Tables ==
    /\ users \in [DOMAIN users -> Rows] /\ DOMAIN users \subseteq Names
    /\ tokens \subseteq Tokens
    /\ sessions \in [DOMAIN sessions -> Sessions] /\ DOMAIN sessions \subseteq Conns
    /\ now \in Int /\ fresh \subseteq DOMAIN users

IInv == Tables /\ SessionsCurrent /\ PresenceShown /\ AdminRemains

LEMMA Honest == IInv => AccountsHonest
BY DEF IInv, Tables, Rows, AccountsHonest, AuthTypeOK

-----------------------------------------------------------------------------
(* A row put into the table, and the sessions of a user told to close. *)
LEMMA SetRow ==
    ASSUME Tables, NEW n \in Names, NEW row \in Rows
    PROVE  /\ Set(n, row) \in [DOMAIN users \cup {n} -> Rows]
           /\ DOMAIN Set(n, row) = DOMAIN users \cup {n}
           /\ DOMAIN users \cup {n} \subseteq Names
           /\ Set(n, row)[n] = row
           /\ \A m \in DOMAIN users : m # n => Set(n, row)[m] = users[m]
BY DEF Tables, Set

LEMMA OtherRows ==
    ASSUME Tables, NEW n \in Names, NEW row \in Rows, users' = Set(n, row)
    PROVE  /\ users' \in [DOMAIN users' -> Rows] /\ DOMAIN users' = DOMAIN users \cup {n}
           /\ DOMAIN users' \subseteq Names
           /\ users'[n] = row
           /\ \A m \in DOMAIN users : m # n => users'[m] = users[m]
BY SetRow

LEMMA Kicked ==
    ASSUME Tables, NEW n, kick_user(n)
    PROVE  /\ sessions' \in [DOMAIN sessions' -> Sessions] /\ DOMAIN sessions' = DOMAIN sessions
           /\ \A c \in DOMAIN sessions :
                /\ sessions'[c].user = sessions[c].user
                /\ sessions'[c].ver = sessions[c].ver
                /\ sessions'[c].admin = sessions[c].admin
                /\ ~ sessions'[c].closing <=> ~ sessions[c].closing /\ sessions[c].user # n
<1>1. \A c \in DOMAIN sessions : sessions[c] \in Sessions
  BY DEF Tables
<1>2. sessions' = [c \in DOMAIN sessions |->
                     IF sessions[c].user = n THEN [sessions[c] EXCEPT !.closing = TRUE]
                     ELSE sessions[c]]
  BY DEF kick_user
<1>3. \A c \in DOMAIN sessions : [sessions[c] EXCEPT !.closing = TRUE] \in Sessions
  BY <1>1 DEF Sessions
<1>. QED
  BY <1>1, <1>2, <1>3 DEF Sessions

-----------------------------------------------------------------------------
(* A step that puts the row of one user: what each part of the invariant
   asks of the row. *)
OnlyRow(n, row) ==
    /\ users' = Set(n, row)
    /\ UNCHANGED sessions \/ kick_user(n)

LEMMA RowTables ==
    ASSUME Tables, NEW n \in Names, NEW row \in Rows, OnlyRow(n, row),
           tokens' \subseteq Tokens, now' \in Int, fresh' \subseteq DOMAIN users \cup {n}
    PROVE  Tables'
<1>1. /\ users' \in [DOMAIN users' -> Rows] /\ DOMAIN users' \subseteq Names
      /\ fresh' \subseteq DOMAIN users'
  BY OtherRows DEF OnlyRow
<1>2. sessions' \in [DOMAIN sessions' -> Sessions] /\ DOMAIN sessions' \subseteq Conns
  <2>1. CASE UNCHANGED sessions
    BY <2>1 DEF Tables
  <2>2. CASE kick_user(n)
    BY <2>2, Kicked DEF Tables
  <2>. QED
    BY <2>1, <2>2 DEF OnlyRow
<1>. QED
  BY <1>1, <1>2 DEF Tables

(* Nothing in the row ends a session. *)
Mild(n, row) ==
    /\ row.status = "disabled" => n \in DOMAIN users /\ users[n].status = "disabled"
    /\ n \in DOMAIN users =>
         /\ row.ver = users[n].ver /\ row.must = users[n].must
         /\ users[n].role = "admin" => row.role = "admin"

LEMMA RowSessions ==
    ASSUME Tables, SessionsCurrent, NEW n \in Names, NEW row \in Rows, users' = Set(n, row),
           (UNCHANGED sessions /\ Mild(n, row)) \/ kick_user(n)
    PROVE  SessionsCurrent'
<1>. DEFINE Current(us, s) ==
        /\ s.user \in DOMAIN us
        /\ us[s.user].status # "disabled" /\ us[s.user].ver = s.ver /\ ~ us[s.user].must
        /\ s.admin => us[s.user].role = "admin"
<1>1. SUFFICES ASSUME NEW c \in DOMAIN sessions', ~ sessions'[c].closing
               PROVE  Current(users', sessions'[c])
  BY DEF SessionsCurrent, Open, Has
<1>2. /\ DOMAIN users' = DOMAIN users \cup {n} /\ users'[n] = row
      /\ \A m \in DOMAIN users : m # n => users'[m] = users[m]
  BY OtherRows
<1>3. /\ c \in DOMAIN sessions /\ ~ sessions[c].closing
      /\ sessions'[c].user = sessions[c].user /\ sessions'[c].ver = sessions[c].ver
      /\ sessions'[c].admin = sessions[c].admin
      /\ sessions[c].user = n => Mild(n, row)
  <2>1. CASE UNCHANGED sessions /\ Mild(n, row)
    BY <1>1, <2>1
  <2>2. CASE kick_user(n)
    BY <1>1, <2>2, Kicked
  <2>. QED
    BY <2>1, <2>2
<1>4. Current(users, sessions[c])
  BY <1>3 DEF SessionsCurrent, Open, Has
<1>5. CASE sessions[c].user = n
  BY <1>2, <1>3, <1>4, <1>5 DEF Mild
<1>6. CASE sessions[c].user # n
  BY <1>2, <1>3, <1>4, <1>6
<1>. QED
  BY <1>5, <1>6

LEMMA RowPresence ==
    ASSUME Tables, PresenceShown, NEW n \in Names, NEW row \in Rows, OnlyRow(n, row),
           \A m \in Names \ {n} : (m \in fresh' <=> m \in fresh) /\ (m \in dimmed' <=> m \in dimmed),
           (\E c \in SessionsOf(n) : Open(c)) /\ UNCHANGED sessions =>
              row.status \in {"online", "locked"} \/ n \in dimmed',
           row.status = "online" => SessionsOf(n) # {} \/ n \in fresh'
    PROVE  PresenceShown'
<1>1. /\ DOMAIN users' = DOMAIN users \cup {n} /\ users'[n] = row /\ DOMAIN users' \subseteq Names
      /\ \A m \in DOMAIN users : m # n => users'[m] = users[m]
  BY OtherRows DEF OnlyRow
<1>2. \A m : SessionsOf(m)' = SessionsOf(m)
  <2>1. CASE UNCHANGED sessions
    BY <2>1 DEF SessionsOf
  <2>2. CASE kick_user(n)
    BY <2>2, Kicked DEF SessionsOf
  <2>. QED
    BY <2>1, <2>2 DEF OnlyRow
<1>3. \A c \in DOMAIN sessions : Open(c)' => Open(c) /\ (sessions[c].user = n => UNCHANGED sessions)
  <2>1. CASE UNCHANGED sessions
    BY <2>1 DEF Open
  <2>2. CASE kick_user(n)
    BY <2>2, Kicked DEF Open
  <2>. QED
    BY <2>1, <2>2 DEF OnlyRow
<1>4. ASSUME NEW m \in DOMAIN users', NEW c \in SessionsOf(m)', Open(c)'
      PROVE  users'[m].status \in {"online", "locked"} \/ m \in dimmed'
  <2>1. c \in SessionsOf(m) /\ c \in DOMAIN sessions /\ sessions[c].user = m
    BY <1>2, <1>4 DEF SessionsOf
  <2>2. Open(c) /\ (m = n => UNCHANGED sessions)
    BY <1>3, <1>4, <2>1
  <2>3. CASE m = n
    BY <1>1, <2>1, <2>2, <2>3
  <2>4. CASE m # n
    BY <1>1, <1>4, <2>1, <2>2, <2>4 DEF PresenceShown
  <2>. QED
    BY <2>3, <2>4
<1>5. ASSUME NEW m \in DOMAIN users', users'[m].status = "online"
      PROVE  SessionsOf(m)' # {} \/ m \in fresh'
  <2>1. CASE m = n
    BY <1>1, <1>2, <1>5, <2>1
  <2>2. CASE m # n
    BY <1>1, <1>2, <1>5, <2>2 DEF PresenceShown
  <2>. QED
    BY <2>1, <2>2
<1>. QED
  BY <1>4, <1>5 DEF PresenceShown

LEMMA RowAdmins ==
    ASSUME Tables, AdminRemains, NEW n \in Names, NEW row \in Rows, users' = Set(n, row),
           demoted => demoted',
           n \in DOMAIN users /\ users[n].role = "admin" /\ users[n].status # "disabled" =>
              demoted' \/ (row.role = "admin" /\ row.status # "disabled")
    PROVE  AdminRemains'
<1>1. /\ DOMAIN users' = DOMAIN users \cup {n} /\ users'[n] = row
      /\ \A m \in DOMAIN users : m # n => users'[m] = users[m]
  BY OtherRows
<1>2. CASE ~ demoted
  <2>1. PICK m \in DOMAIN users : users[m].role = "admin" /\ users[m].status # "disabled"
    BY <1>2 DEF AdminRemains, Admins
  <2>2. CASE m = n
    BY <1>1, <2>1, <2>2 DEF AdminRemains, Admins
  <2>3. CASE m # n
    BY <1>1, <2>1, <2>3 DEF AdminRemains, Admins
  <2>. QED
    BY <2>2, <2>3
<1>. QED
  BY <1>2 DEF AdminRemains

(* The four together, for a step that changes neither the ghosts of others
   nor the flag of the admins. *)
LEMMA RowStep ==
    ASSUME IInv, NEW n \in Names, NEW row \in Rows, users' = Set(n, row),
           (UNCHANGED sessions /\ Mild(n, row)) \/ kick_user(n),
           tokens' \subseteq Tokens, now' \in Int, fresh' \subseteq DOMAIN users \cup {n},
           \A m \in Names \ {n} : (m \in fresh' <=> m \in fresh) /\ (m \in dimmed' <=> m \in dimmed),
           (\E c \in SessionsOf(n) : Open(c)) /\ UNCHANGED sessions =>
              row.status \in {"online", "locked"} \/ n \in dimmed',
           row.status = "online" => SessionsOf(n) # {} \/ n \in fresh',
           demoted => demoted',
           n \in DOMAIN users /\ users[n].role = "admin" /\ users[n].status # "disabled" =>
              demoted' \/ (row.role = "admin" /\ row.status # "disabled")
    PROVE  IInv'
<1>1. OnlyRow(n, row)
  BY DEF OnlyRow
<1>2. Tables /\ SessionsCurrent /\ PresenceShown /\ AdminRemains
  BY DEF IInv
<1>3. Tables'
  BY <1>1, <1>2, RowTables
<1>4. SessionsCurrent'
  BY <1>2, RowSessions
<1>5. PresenceShown'
  BY <1>1, <1>2, RowPresence
<1>6. AdminRemains'
  BY <1>2, RowAdmins
<1>. QED
  BY <1>3, <1>4, <1>5, <1>6 DEF IInv

-----------------------------------------------------------------------------
(* One lemma per request.  First what is known of a row in the table. *)
LEMMA Known ==
    ASSUME IInv, NEW n \in DOMAIN users
    PROVE  /\ n \in Names /\ users[n] \in Rows
           /\ (\E c \in SessionsOf(n) : Open(c)) =>
                 users[n].status \in {"online", "locked"} \/ n \in dimmed
           /\ users[n].status = "online" => SessionsOf(n) # {} \/ n \in fresh
           /\ DOMAIN users \cup {n} = DOMAIN users
BY DEF IInv, Tables, PresenceShown

LEMMA Typed ==
    ASSUME IInv
    PROVE  tokens \subseteq Tokens /\ now \in Int /\ fresh \subseteq DOMAIN users
           /\ DOMAIN users \subseteq Names
BY DEF IInv, Tables

(* What the requests write into a row, beside its version and its flags. *)
RowWith(row, status, fails, until) ==
    [row EXCEPT !.fails = fails, !.status = status, !.until = until]

LEMMA WrittenRow ==
    ASSUME NEW row \in Rows, NEW fails \in Int, NEW until \in Int,
           NEW status \in {"offline", "online", "disabled", "locked"}
    PROVE  /\ RowWith(row, status, fails, until) \in Rows
           /\ RowWith(row, status, fails, until).status = status
           /\ RowWith(row, status, fails, until).ver = row.ver
           /\ RowWith(row, status, fails, until).must = row.must
           /\ RowWith(row, status, fails, until).role = row.role
BY DEF Rows, RowWith

LEMMA StepLoginFails ==
    ASSUME IInv, NEW n \in Names, NEW ip, LoginFails(n, ip)
    PROVE  IInv'
<1>. DEFINE fails == users[n].fails + 1
            locks == security.lockout /\ fails >= security.max
            tried == [users[n] EXCEPT !.fails = fails]
            shut  == [users[n] EXCEPT !.fails = fails, !.status = "locked",
                                      !.until = now + LockSecs]
            row   == IF locks THEN shut ELSE tried
<1>1. /\ n \in DOMAIN users /\ users[n].status \notin {"disabled", "locked"}
      /\ users' = Set(n, row) /\ UNCHANGED <<tokens, sessions, now, fresh, dimmed, demoted>>
  BY DEF LoginFails, MayTry, Has, Blocked
<1>2. users[n] \in Rows
  BY <1>1, Known
<1>3. now + LockSecs \in Int /\ fails \in Int
  BY <1>2, Typed, AuthAssumption DEF Rows
<1>. HIDE DEF fails, locks
<1>4. /\ tried \in Rows /\ shut \in Rows
      /\ tried.status = users[n].status /\ shut.status = "locked"
      /\ tried.ver = users[n].ver /\ tried.must = users[n].must /\ tried.role = users[n].role
      /\ shut.ver = users[n].ver /\ shut.must = users[n].must /\ shut.role = users[n].role
  BY <1>2, <1>3 DEF Rows
<1>. HIDE DEF tried, shut
<1>5. /\ row \in Rows
      /\ row.status = "locked" \/ row.status = users[n].status
      /\ row.ver = users[n].ver /\ row.must = users[n].must /\ row.role = users[n].role
  BY <1>4
<1>. HIDE DEF row
<1>6. Mild(n, row)
  BY <1>1, <1>5 DEF Mild
<1>. QED
  BY <1>1, <1>5, <1>6, Known, Typed, RowStep

LEMMA StepLoginSucceeds ==
    ASSUME IInv, NEW n \in Names, NEW ip, LoginSucceeds(n, ip)
    PROVE  IInv'
<1>. DEFINE row == [users[n] EXCEPT !.fails = 0, !.status = "online"]
<1>1. /\ n \in DOMAIN users /\ users' = Set(n, row) /\ fresh' = fresh \cup {n} /\ dimmed' = dimmed \ {n}
      /\ UNCHANGED <<sessions, now, demoted>>
      /\ tokens' = tokens \cup {jwt_sign(n, users[n].ver)}
  BY DEF LoginSucceeds, MayTry, Has
<1>2. users[n] \in Rows
  BY <1>1, Known
<1>3. jwt_sign(n, users[n].ver) \in Tokens
  BY <1>2, Typed, AuthAssumption DEF Rows, Tokens, jwt_sign
<1>4. /\ row \in Rows /\ row.status = "online"
      /\ row.ver = users[n].ver /\ row.must = users[n].must /\ row.role = users[n].role
  <2>1. row = RowWith(users[n], "online", 0, users[n].until)
    BY <1>2 DEF Rows, RowWith
  <2>2. users[n].until \in Int
    BY <1>2 DEF Rows
  <2>. HIDE DEF row
  <2>. QED
    BY <1>2, <2>1, <2>2, WrittenRow
<1>. HIDE DEF row
<1>5. Mild(n, row)
  BY <1>1, <1>4 DEF Mild
<1>6. tokens' \subseteq Tokens /\ fresh' \subseteq DOMAIN users \cup {n}
  BY <1>1, <1>3, Typed
<1>. QED
  BY <1>1, <1>4, <1>5, <1>6, Typed, RowStep

LEMMA NewRowIsRow ==
    ASSUME NEW role \in {"admin", "user"}
    PROVE  /\ NewRow(role) \in Rows /\ NewRow(role).role = role
           /\ NewRow(role).status = "offline"
BY AuthAssumption DEF NewRow, Rows

LEMMA Nobody ==
    ASSUME IInv, NEW n, n \notin DOMAIN users
    PROVE  ~ \E c \in SessionsOf(n) : Open(c)
BY DEF IInv, SessionsCurrent, SessionsOf, Has

LEMMA StepCreate ==
    ASSUME IInv, NEW t \in tokens, NEW n \in Names, NEW role \in {"admin", "user"}, create(t, n, role)
    PROVE  IInv'
<1>. DEFINE row == NewRow(role)
<1>1. /\ n \notin DOMAIN users /\ users' = Set(n, row)
      /\ UNCHANGED <<tokens, sessions, now, fresh, dimmed, demoted>>
  BY DEF create, create_user, Has
<1>2. row \in Rows /\ row.status = "offline"
  BY NewRowIsRow
<1>. HIDE DEF row
<1>3. Mild(n, row)
  BY <1>1, <1>2 DEF Mild
<1>. QED
  BY <1>1, <1>2, <1>3, Nobody, Typed, RowStep

LEMMA StepUpdate ==
    ASSUME IInv, NEW t \in tokens, NEW n \in Names, NEW role \in {"admin", "user"}, update(t, n, role)
    PROVE  IInv'
<1>. DEFINE row == [users[n] EXCEPT !.role = role]
<1>1. /\ n \in DOMAIN users /\ users' = Set(n, row)
      /\ IF demotes(users[n], role) THEN kick_user(n) ELSE UNCHANGED sessions
      /\ demoted' = (demoted \/ (users[n].role = "admin" /\ role # "admin"))
      /\ UNCHANGED <<tokens, now, fresh, dimmed>>
  BY DEF update, Has
<1>2. users[n] \in Rows
  BY <1>1, Known
<1>3. /\ row \in Rows /\ row.role = role /\ row.status = users[n].status
      /\ row.ver = users[n].ver /\ row.must = users[n].must
  BY <1>2 DEF Rows
<1>. HIDE DEF row
<1>4. demoted => demoted'
  BY <1>1
<1>5. users[n].role = "admin" /\ role # "admin" => demoted'
  BY <1>1
<1>6. users[n].role = "admin" /\ role # "admin" => kick_user(n)
  BY <1>1 DEF demotes
<1>7. ~ (users[n].role = "admin" /\ role # "admin") => UNCHANGED sessions
  BY <1>1 DEF demotes
<1>8. (UNCHANGED sessions /\ Mild(n, row)) \/ kick_user(n)
  <2>1. CASE users[n].role = "admin" /\ role # "admin"
    BY <1>6, <2>1
  <2>2. CASE ~ (users[n].role = "admin" /\ role # "admin")
    BY <1>1, <1>3, <1>7, <2>2 DEF Mild
  <2>. QED
    BY <2>1, <2>2
<1>9. users[n].role = "admin" /\ users[n].status # "disabled" =>
        demoted' \/ (row.role = "admin" /\ row.status # "disabled")
  BY <1>3, <1>5
<1>10. (\E c \in SessionsOf(n) : Open(c)) => row.status \in {"online", "locked"} \/ n \in dimmed'
  BY <1>1, <1>3, Known
<1>11. row.status = "online" => SessionsOf(n) # {} \/ n \in fresh'
  BY <1>1, <1>3, Known
<1>12. tokens' \subseteq Tokens /\ now' \in Int /\ fresh' \subseteq DOMAIN users \cup {n}
       /\ \A m \in Names \ {n} : (m \in fresh' <=> m \in fresh) /\ (m \in dimmed' <=> m \in dimmed)
  BY <1>1, Typed
<1>. QED
  BY <1>1, <1>3, <1>4, <1>8, <1>9, <1>10, <1>11, <1>12, RowStep

LEMMA KickEnds ==
    ASSUME IInv, NEW n, kick_user(n), NEW c \in SessionsOf(n), Open(c)
    PROVE  sessions' # sessions
BY Kicked DEF IInv, SessionsOf, Open

LEMMA StepDisable ==
    ASSUME IInv, NEW t \in tokens, NEW n \in Names, Disable(t, n)
    PROVE  IInv'
<1>. DEFINE row == revoke_user_tokens([users[n] EXCEPT !.status = "disabled"])
<1>1. /\ n \in DOMAIN users /\ users' = Set(n, row) /\ kick_user(n)
      /\ users[n].role # "admin" /\ users[n].ver < MaxVersion
      /\ UNCHANGED <<tokens, now, fresh, dimmed, demoted>>
  BY DEF Disable, Has
<1>2. users[n] \in Rows
  BY <1>1, Known
<1>3. users[n].ver + 1 \in 0..MaxVersion
  BY <1>1, <1>2, AuthAssumption DEF Rows
<1>4. row \in Rows /\ row.status = "disabled"
  BY <1>2, <1>3 DEF Rows, revoke_user_tokens
<1>. HIDE DEF row
<1>. QED
  BY <1>1, <1>4, KickEnds, Typed, RowStep

LEMMA StepEnable ==
    ASSUME IInv, NEW t \in tokens, NEW n \in Names, Enable(t, n)
    PROVE  IInv'
<1>. DEFINE row == RowWith(users[n], "offline", users[n].fails, users[n].until)
<1>1. n \in DOMAIN users /\ users[n] \in Rows
  BY Known DEF Enable, Has
<1>2. users' = Set(n, row) /\ Dim(n) /\ fresh' = fresh \ {n}
      /\ UNCHANGED <<tokens, sessions, now, demoted>>
  BY <1>1 DEF Enable, update_user_status, RowWith, Rows
<1>3. users[n].fails \in Int /\ users[n].until \in Int
  BY <1>1 DEF Rows
<1>4. /\ row \in Rows /\ row.status = "offline"
      /\ row.ver = users[n].ver /\ row.must = users[n].must /\ row.role = users[n].role
  BY <1>1, <1>3, WrittenRow
<1>. HIDE DEF row
<1>5. Mild(n, row)
  BY <1>4 DEF Mild
<1>. QED
  BY <1>1, <1>2, <1>4, <1>5, Typed, RowStep DEF Dim

LEMMA StepLockByAdmin ==
    ASSUME IInv, NEW t \in tokens, NEW n \in Names, LockByAdmin(t, n)
    PROVE  IInv'
<1>. DEFINE row == RowWith(users[n], "locked", users[n].fails, now + LockSecs)
<1>1. n \in DOMAIN users /\ users[n] \in Rows /\ users[n].role # "admin"
  BY Known DEF LockByAdmin, Has
<1>2. users' = Set(n, row) /\ UNCHANGED <<tokens, sessions, now, fresh, dimmed, demoted>>
  BY <1>1 DEF LockByAdmin, RowWith, Rows
<1>3. users[n].fails \in Int /\ now + LockSecs \in Int
  BY <1>1, Typed, AuthAssumption DEF Rows
<1>4. /\ row \in Rows /\ row.status = "locked"
      /\ row.ver = users[n].ver /\ row.must = users[n].must /\ row.role = users[n].role
  BY <1>1, <1>3, WrittenRow
<1>. HIDE DEF row
<1>5. Mild(n, row)
  BY <1>4 DEF Mild
<1>. QED
  BY <1>1, <1>2, <1>4, <1>5, Typed, RowStep

LEMMA StepUnlock ==
    ASSUME IInv, NEW t \in tokens, NEW n \in Names, Unlock(t, n)
    PROVE  IInv'
<1>. DEFINE row == RowWith(users[n], "offline", 0, 0)
<1>1. n \in DOMAIN users /\ users[n] \in Rows
  BY Known DEF Unlock, Has
<1>2. users' = Set(n, row) /\ Dim(n) /\ fresh' = fresh \ {n}
      /\ UNCHANGED <<tokens, sessions, now, demoted>>
  BY <1>1 DEF Unlock, RowWith, Rows
<1>3. /\ row \in Rows /\ row.status = "offline"
      /\ row.ver = users[n].ver /\ row.must = users[n].must /\ row.role = users[n].role
  BY <1>1, WrittenRow
<1>. HIDE DEF row
<1>4. Mild(n, row)
  BY <1>3 DEF Mild
<1>. QED
  BY <1>1, <1>2, <1>3, <1>4, Typed, RowStep DEF Dim

(* Both passwords: one UPDATE, and the kick. *)
LEMMA StepPassword ==
    ASSUME IInv, NEW n \in DOMAIN users, NEW must \in BOOLEAN, users[n].ver < MaxVersion,
           users' = Set(n, write_password(users[n], must)), kick_user(n),
           UNCHANGED <<tokens, now, fresh, dimmed, demoted>>
    PROVE  IInv'
<1>. DEFINE row == write_password(users[n], must)
<1>1. n \in Names /\ users[n] \in Rows
  BY Known
<1>2. users[n].ver + 1 \in 0..MaxVersion
  BY <1>1, AuthAssumption DEF Rows
<1>3. row \in Rows /\ row.status = users[n].status /\ row.role = users[n].role
  BY <1>1, <1>2 DEF Rows, write_password
<1>4. users' = Set(n, row)
  OBVIOUS
<1>. HIDE DEF row
<1>. QED
  BY <1>1, <1>3, <1>4, Known, KickEnds, Typed, RowStep

LEMMA StepResetPassword ==
    ASSUME IInv, NEW t \in tokens, NEW n \in Names, reset_password(t, n)
    PROVE  IInv'
BY StepPassword DEF reset_password, Has

LEMMA StepChangePassword ==
    ASSUME IInv, NEW t \in tokens, change_password(t)
    PROVE  IInv'
BY StepPassword DEF change_password, check_session, Has

-----------------------------------------------------------------------------
(* The requests that leave the accounts alone, and the clock. *)
LEMMA StepElsewhere ==
    ASSUME IInv, now' \in Int, UNCHANGED <<users, tokens, sessions, fresh, dimmed, demoted>>
    PROVE  IInv'
<1>1. Tables'
  BY DEF IInv, Tables
<1>2. SessionsCurrent'
  BY DEF IInv, SessionsCurrent, Has, Open
<1>3. PresenceShown'
  BY DEF IInv, PresenceShown, SessionsOf, Open
<1>4. AdminRemains'
  BY DEF IInv, AdminRemains, Admins
<1>. QED
  BY <1>1, <1>2, <1>3, <1>4 DEF IInv

LEMMA StepRemove ==
    ASSUME IInv, NEW t \in tokens, NEW n \in Names, remove(t, n)
    PROVE  IInv'
<1>1. /\ users[n].role # "admin" /\ kick_user(n)
      /\ fresh' = fresh \ {n} /\ dimmed' = dimmed \ {n} /\ UNCHANGED <<tokens, now, demoted>>
  BY DEF remove
<1>2. /\ DOMAIN users' = DOMAIN users \ {n}
      /\ users' = [m \in DOMAIN users \ {n} |-> users[m]]
      /\ \A m \in DOMAIN users \ {n} : users'[m] = users[m]
  BY DEF remove, delete_user
<1>3. /\ sessions' \in [DOMAIN sessions' -> Sessions] /\ DOMAIN sessions' = DOMAIN sessions
      /\ \A c \in DOMAIN sessions :
           /\ sessions'[c].user = sessions[c].user /\ sessions'[c].ver = sessions[c].ver
           /\ sessions'[c].admin = sessions[c].admin
           /\ ~ sessions'[c].closing => ~ sessions[c].closing /\ sessions[c].user # n
  BY <1>1, Kicked DEF IInv
<1>4. Tables'
  BY <1>1, <1>2, <1>3 DEF IInv, Tables
<1>5. SessionsCurrent'
  BY <1>2, <1>3 DEF IInv, SessionsCurrent, Open, Has
<1>6. PresenceShown'
  <2>1. \A m : SessionsOf(m)' = SessionsOf(m)
    BY <1>3 DEF SessionsOf
  <2>2. \A m, c \in DOMAIN sessions : Open(c)' => Open(c)
    BY <1>3 DEF Open
  <2>. QED
    BY <1>1, <1>2, <2>1, <2>2, ZenonT(60) DEF IInv, PresenceShown, SessionsOf
<1>7. AdminRemains'
  BY <1>1, <1>2 DEF IInv, AdminRemains, Admins
<1>. QED
  BY <1>4, <1>5, <1>6, <1>7 DEF IInv

-----------------------------------------------------------------------------
(* The connections.  What they do to the row of their user: nothing, or the
   status alone, and never to or from a blocked one. *)
Presented(n, status) ==
    users' = users \/ (Has(n) /\ ~ Blocked(users[n]) /\ users' = update_user_status(n, status))

LEMMA PresentedRows ==
    ASSUME IInv, NEW n \in Names, NEW status \in {"online", "offline"}, Presented(n, status)
    PROVE  /\ users' \in [DOMAIN users -> Rows] /\ DOMAIN users' = DOMAIN users
           /\ \A m \in DOMAIN users :
                /\ users'[m].role = users[m].role /\ users'[m].ver = users[m].ver
                /\ users'[m].must = users[m].must
                /\ m # n => users'[m] = users[m]
                /\ users'[m].status = "disabled" => users[m].status = "disabled"
<1>1. CASE users' = users
  BY <1>1 DEF IInv, Tables
<1>2. CASE Has(n) /\ ~ Blocked(users[n]) /\ users' = update_user_status(n, status)
  <2>. DEFINE row == RowWith(users[n], status, users[n].fails, users[n].until)
  <2>1. n \in DOMAIN users /\ users[n] \in Rows
    BY <1>2, Known DEF Has
  <2>2. users' = Set(n, row)
    BY <1>2, <2>1 DEF update_user_status, RowWith, Rows
  <2>3. users[n].fails \in Int /\ users[n].until \in Int
    BY <2>1 DEF Rows
  <2>4. /\ row \in Rows /\ row.status = status
        /\ row.ver = users[n].ver /\ row.must = users[n].must /\ row.role = users[n].role
    BY <2>1, <2>3, WrittenRow
  <2>. HIDE DEF row
  <2>5. /\ users' \in [DOMAIN users' -> Rows] /\ DOMAIN users' = DOMAIN users \cup {n}
        /\ users'[n] = row /\ \A m \in DOMAIN users : m # n => users'[m] = users[m]
    BY <2>2, <2>4, OtherRows DEF IInv
  <2>. QED
    BY <2>1, <2>4, <2>5
<1>. QED
  BY <1>1, <1>2 DEF Presented

LEMMA AdminField ==
    ASSUME NEW user, NEW admin, NEW ver
    PROVE  [user |-> user, admin |-> admin, ver |-> ver, closing |-> FALSE].admin = admin
OBVIOUS

LEMMA StepConnects ==
    ASSUME IInv, NEW c \in Conns, NEW t \in tokens, handleNewConnection(c, t)
    PROVE  IInv'
<1>. DEFINE n == t.user
<1>1. /\ c \notin DOMAIN sessions
      /\ sessions' = [d \in DOMAIN sessions \cup {c} |->
                        IF d = c THEN [user |-> n, admin |-> users[n].role = "admin",
                                       ver |-> t.ver, closing |-> FALSE]
                        ELSE sessions[d]]
      /\ dimmed' = dimmed \ {n} /\ UNCHANGED <<tokens, now, fresh, demoted>>
  BY DEF handleNewConnection
<1>2. n \in DOMAIN users /\ users[n].status # "disabled" /\ users[n].ver = t.ver /\ ~ users[n].must
  BY DEF handleNewConnection, check_session, Has
<1>3. t \in Tokens /\ n \in Names /\ users[n] \in Rows
  BY <1>2, Typed, Known
<1>4. /\ Presented(n, "online")
      /\ ~ Blocked(users[n]) => users' = update_user_status(n, "online")
      /\ Blocked(users[n]) => users' = users
  BY <1>2 DEF handleNewConnection, Presented, Has
<1>5. /\ users' \in [DOMAIN users -> Rows] /\ DOMAIN users' = DOMAIN users
      /\ \A m \in DOMAIN users :
           /\ users'[m].role = users[m].role /\ users'[m].ver = users[m].ver
           /\ users'[m].must = users[m].must /\ (m # n => users'[m] = users[m])
           /\ users'[m].status = "disabled" => users[m].status = "disabled"
  BY <1>3, <1>4, PresentedRows
<1>6. /\ DOMAIN sessions' = DOMAIN sessions \cup {c}
      /\ sessions'[c] = [user |-> n, admin |-> users[n].role = "admin",
                         ver |-> t.ver, closing |-> FALSE]
      /\ \A d \in DOMAIN sessions : sessions'[d] = sessions[d]
  BY <1>1
<1>7. Tables'
  <2>1. sessions'[c] \in Sessions
    BY <1>3, <1>6 DEF Sessions, Tokens
  <2>2. sessions' \in [DOMAIN sessions' -> Sessions] /\ DOMAIN sessions' \subseteq Conns
    BY <1>1, <1>6, <2>1 DEF IInv, Tables
  <2>. QED
    BY <1>1, <1>5, <2>2 DEF IInv, Tables
<1>8. SessionsCurrent'
  <2>1. users'[n].status # "disabled" /\ users'[n].ver = t.ver /\ ~ users'[n].must
    BY <1>2, <1>5
  <2>2. users'[n].role = users[n].role
    BY <1>2, <1>5
  <2>3. sessions'[c].user = n /\ sessions'[c].ver = t.ver
    BY <1>6
  <2>0. sessions'[c].admin => users[n].role = "admin"
    BY <1>6, AdminField, Zenon
  <2>4. \A d \in DOMAIN sessions : sessions[d] \in Sessions
    BY DEF IInv, Tables
  <2>. HIDE DEF n
  <2>5. ASSUME NEW d \in DOMAIN sessions', ~ sessions'[d].closing
        PROVE  /\ sessions'[d].user \in DOMAIN users'
               /\ LET u == users'[sessions'[d].user]
                  IN /\ u.status # "disabled" /\ u.ver = sessions'[d].ver /\ ~ u.must
                     /\ sessions'[d].admin => u.role = "admin"
    <3>1. CASE d = c
      BY <1>2, <1>5, <2>0, <2>1, <2>2, <2>3, <3>1
    <3>2. CASE d # c
      BY <1>5, <1>6, <2>4, <2>5, <3>2 DEF IInv, SessionsCurrent, Open, Has
    <3>. QED
      BY <3>1, <3>2
  <2>. QED
    BY <2>5 DEF SessionsCurrent, Has, Open
<1>9. PresenceShown'
  <2>1. \A m : m # n => SessionsOf(m)' = SessionsOf(m)
    BY <1>1, <1>6 DEF SessionsOf
  <2>2. c \in SessionsOf(n)'
    BY <1>6 DEF SessionsOf
  <2>3. users'[n].status \in {"online", "locked"}
    <3>1. CASE Blocked(users[n])
      BY <1>2, <1>4, <3>1 DEF Blocked
    <3>2. CASE ~ Blocked(users[n])
      BY <1>2, <1>3, <1>4, <3>2 DEF update_user_status, Set, Rows
    <3>. QED
      BY <3>1, <3>2
  <2>4. \A d \in DOMAIN sessions : Open(d)' <=> Open(d)
    BY <1>6 DEF Open
  <2>5. \A m \in DOMAIN users' : m # n =>
          /\ users'[m] = users[m] /\ m \in DOMAIN users
          /\ SessionsOf(m)' = SessionsOf(m) /\ SessionsOf(m) \subseteq DOMAIN sessions
          /\ m \in dimmed <=> m \in dimmed'
    BY <1>1, <1>5, <2>1 DEF SessionsOf
  <2>6. fresh' = fresh
    BY <1>1
  <2>. HIDE DEF n
  <2>. QED
    BY <2>2, <2>3, <2>4, <2>5, <2>6 DEF IInv, PresenceShown
<1>10. AdminRemains'
  BY <1>1, <1>5 DEF IInv, AdminRemains, Admins
<1>. QED
  BY <1>7, <1>8, <1>9, <1>10 DEF IInv

LEMMA StepCloses ==
    ASSUME IInv, NEW c \in Conns, handleConnectionClosed(c)
    PROVE  IInv'
<1>0. PICK n : n = sessions[c].user
  OBVIOUS
<1>. DEFINE last == SessionsOf(n) = {c}
<1>1. /\ c \in DOMAIN sessions /\ UNCHANGED <<tokens, now, demoted>>
      /\ sessions' = [d \in DOMAIN sessions \ {c} |-> sessions[d]]
      /\ users' = IF last /\ Has(n) /\ ~ Blocked(users[n])
                  THEN update_user_status(n, "offline") ELSE users
      /\ fresh' = IF last THEN fresh \ {n} ELSE fresh
      /\ dimmed' = IF last THEN dimmed \ {n} ELSE dimmed
  BY <1>0 DEF handleConnectionClosed
<1>2. sessions[c] \in Sessions /\ n \in Names
  BY <1>0, <1>1 DEF IInv, Tables, Sessions
<1>3. Presented(n, "offline") /\ (~ last => users' = users)
  BY <1>1 DEF Presented
<1>4. /\ users' \in [DOMAIN users -> Rows] /\ DOMAIN users' = DOMAIN users
      /\ \A m \in DOMAIN users :
           /\ users'[m].role = users[m].role /\ users'[m].ver = users[m].ver
           /\ users'[m].must = users[m].must /\ (m # n => users'[m] = users[m])
           /\ users'[m].status = "disabled" => users[m].status = "disabled"
  BY <1>2, <1>3, PresentedRows
<1>5. last /\ n \in DOMAIN users => users'[n].status # "online"
  <2>1. CASE last /\ n \in DOMAIN users /\ ~ Blocked(users[n])
    BY <1>1, <2>1, Known DEF Has, update_user_status, Set, Rows
  <2>2. CASE last /\ n \in DOMAIN users /\ Blocked(users[n])
    BY <1>1, <2>2 DEF Blocked
  <2>. QED
    BY <2>1, <2>2
<1>6. /\ DOMAIN sessions' = DOMAIN sessions \ {c}
      /\ \A d \in DOMAIN sessions' : sessions'[d] = sessions[d]
  BY <1>1
<1>7. \A m : SessionsOf(m)' = SessionsOf(m) \ {c}
  BY <1>6 DEF SessionsOf
<1>8. \A m : m # n => c \notin SessionsOf(m)
  BY <1>0 DEF SessionsOf
<1>9. c \in SessionsOf(n)
  BY <1>0, <1>1 DEF SessionsOf
<1>10. Tables'
  BY <1>1, <1>4, <1>6 DEF IInv, Tables
<1>11. SessionsCurrent'
  BY <1>4, <1>6 DEF IInv, SessionsCurrent, Open, Has
<1>12. PresenceShown'
  <2>1. \A m, d : d \in SessionsOf(m)' /\ Open(d)' => d \in SessionsOf(m) /\ Open(d)
    BY <1>6 DEF SessionsOf, Open
  <2>2. ASSUME NEW m \in DOMAIN users', m # n \/ ~ last
        PROVE  /\ users'[m] = users[m] /\ m \in DOMAIN users
               /\ m \in dimmed' <=> m \in dimmed
               /\ m \in fresh' <=> m \in fresh
               /\ SessionsOf(m) # {} => SessionsOf(m)' # {}
    BY <1>1, <1>3, <1>4, <1>7, <1>8, <1>9, <2>2
  <2>3. last => SessionsOf(n)' = {}
    BY <1>7
  <2>. HIDE DEF last
  <2>. QED
    BY <1>4, <1>5, <2>1, <2>2, <2>3 DEF IInv, PresenceShown
<1>13. AdminRemains'
  BY <1>1, <1>4 DEF IInv, AdminRemains, Admins
<1>. QED
  BY <1>10, <1>11, <1>12, <1>13 DEF IInv

-----------------------------------------------------------------------------
(* The start: the rows of the database, with the configured admin among them
   and perhaps marked. *)
LEMMA Booted ==
    ASSUME NEW us, us \in [DOMAIN us -> Rows], DOMAIN us \subseteq Names
    PROVE  /\ Boot(us) \in [DOMAIN Boot(us) -> Rows] /\ DOMAIN us \subseteq DOMAIN Boot(us)
           /\ DOMAIN Boot(us) \subseteq Names
           /\ \A n \in DOMAIN us : /\ Boot(us)[n].status = us[n].status
                                   /\ Boot(us)[n].role = us[n].role
           /\ \A n \in DOMAIN Boot(us) \ DOMAIN us : /\ Boot(us)[n].status = "offline"
                                                     /\ n = AdminName /\ Boot(us)[n].role = "admin"
<1>. DEFINE seeded == seed_admin_user(us)
<1>1. /\ seeded \in [DOMAIN seeded -> Rows] /\ DOMAIN us \subseteq DOMAIN seeded
      /\ DOMAIN seeded \subseteq Names
      /\ \A n \in DOMAIN us : seeded[n] = us[n]
      /\ \A n \in DOMAIN seeded \ DOMAIN us : /\ seeded[n].status = "offline"
                                              /\ n = AdminName /\ seeded[n].role = "admin"
  <2>1. CASE Admins(us) # {} \/ AdminName \in DOMAIN us
    BY <2>1 DEF seed_admin_user
  <2>2. CASE ~ (Admins(us) # {} \/ AdminName \in DOMAIN us)
    <3>. DEFINE admin == [NewRow("admin") EXCEPT !.initial = TRUE]
    <3>1. admin \in Rows /\ admin.status = "offline" /\ admin.role = "admin"
      <4>1. NewRow("admin") \in Rows /\ NewRow("admin").role = "admin"
            /\ NewRow("admin").status = "offline"
        BY NewRowIsRow
      <4>2. \A r \in Rows : /\ [r EXCEPT !.initial = TRUE] \in Rows
                            /\ [r EXCEPT !.initial = TRUE].status = r.status
                            /\ [r EXCEPT !.initial = TRUE].role = r.role
        BY DEF Rows
      <4>. QED
        BY <4>1, <4>2
    <3>2. seeded = [n \in DOMAIN us \cup {AdminName} |-> IF n = AdminName THEN admin ELSE us[n]]
      BY <2>2 DEF seed_admin_user
    <3>. HIDE DEF admin, seeded
    <3>. QED
      BY <2>2, <3>1, <3>2, AuthAssumption
  <2>. QED
    BY <2>1, <2>2
<1>2. Boot(us) = [n \in DOMAIN seeded |-> IF n = AdminName /\ seeded[n].initial
                                          THEN [seeded[n] EXCEPT !.must = TRUE] ELSE seeded[n]]
  BY DEF Boot, force_password_change_if_default
<1>. HIDE DEF seeded
<1>3. \A r \in Rows : /\ [r EXCEPT !.must = TRUE] \in Rows
                      /\ [r EXCEPT !.must = TRUE].status = r.status
                      /\ [r EXCEPT !.must = TRUE].role = r.role
  BY DEF Rows
<1>4. DOMAIN Boot(us) = DOMAIN seeded
  BY <1>2
<1>5. ASSUME NEW n \in DOMAIN seeded
      PROVE  /\ Boot(us)[n] \in Rows /\ Boot(us)[n].status = seeded[n].status
             /\ Boot(us)[n].role = seeded[n].role
  <2>1. Boot(us)[n] = seeded[n] \/ Boot(us)[n] = [seeded[n] EXCEPT !.must = TRUE]
    BY <1>2
  <2>2. seeded[n] \in Rows
    BY <1>1
  <2>. QED
    BY <1>3, <2>1, <2>2
<1>6. Boot(us) \in [DOMAIN seeded -> Rows]
  BY <1>2, <1>5
<1>. QED
  BY <1>1, <1>4, <1>5, <1>6

LEMMA NoSessions ==
    ASSUME sessions = <<>>
    PROVE  DOMAIN sessions = {}
OBVIOUS

LEMMA StepRestart ==
    ASSUME IInv, Restart
    PROVE  IInv'
<1>1. /\ users' = Boot(users) /\ UNCHANGED <<tokens, now, demoted>> /\ DOMAIN sessions' = {}
      /\ fresh' = {n \in DOMAIN users : users[n].status = "online"}
  BY DEF Restart
<1>2. /\ users' \in [DOMAIN users' -> Rows] /\ DOMAIN users \subseteq DOMAIN users'
      /\ DOMAIN users' \subseteq Names
      /\ \A n \in DOMAIN users : users'[n].status = users[n].status /\ users'[n].role = users[n].role
      /\ \A n \in DOMAIN users' \ DOMAIN users : users'[n].status = "offline"
  BY <1>1, Booted DEF IInv, Tables
<1>3. Tables'
  <2>1. sessions' \in [DOMAIN sessions' -> Sessions]
    BY <1>1 DEF Restart
  <2>. QED
    BY <1>1, <1>2, <2>1 DEF IInv, Tables
<1>4. SessionsCurrent'
  BY <1>1 DEF SessionsCurrent
<1>5. PresenceShown'
  BY <1>1, <1>2 DEF PresenceShown, SessionsOf
<1>6. AdminRemains'
  BY <1>1, <1>2 DEF IInv, AdminRemains, Admins
<1>. QED
  BY <1>3, <1>4, <1>5, <1>6 DEF IInv

LEMMA Start ==
    ASSUME AuthInit
    PROVE  IInv
<1>1. /\ tokens = {} /\ now = 0 /\ fresh = {} /\ DOMAIN sessions = {}
      /\ sessions \in [DOMAIN sessions -> Sessions]
  BY DEF AuthInit
<1>2. /\ users \in [DOMAIN users -> Rows] /\ DOMAIN users \subseteq Names
      /\ \A n \in DOMAIN users : users[n].status = "offline"
      /\ AdminName \in DOMAIN users /\ users[AdminName].role = "admin"
  <2>1. CASE users = Boot(<<>>)
    <3>1. DOMAIN <<>> = {} /\ <<>> \in [DOMAIN <<>> -> Rows]
      OBVIOUS
    <3>2. AdminName \in DOMAIN Boot(<<>>)
      BY <3>1 DEF Boot, force_password_change_if_default, seed_admin_user, Admins
    <3>. QED
      BY <2>1, <3>1, <3>2, Booted
  <2>2. CASE users = [n \in Names |-> NewRow(IF n = AdminName THEN "admin" ELSE "user")]
    <3>1. NewRow("admin") \in Rows /\ NewRow("admin").role = "admin" /\ NewRow("admin").status = "offline"
      BY NewRowIsRow
    <3>2. NewRow("user") \in Rows /\ NewRow("user").status = "offline"
      BY NewRowIsRow
    <3>3. \A n \in Names : users[n] = IF n = AdminName THEN NewRow("admin") ELSE NewRow("user")
      BY <2>2
    <3>4. DOMAIN users = Names /\ users \in [Names -> Rows]
      BY <2>2, <3>1, <3>2, <3>3
    <3>. QED
      BY <3>1, <3>2, <3>3, <3>4, AuthAssumption
  <2>. QED
    BY <2>1, <2>2 DEF AuthInit
<1>3. Tables
  BY <1>1, <1>2 DEF Tables
<1>4. SessionsCurrent
  BY <1>1 DEF SessionsCurrent
<1>5. PresenceShown
  BY <1>1, <1>2 DEF PresenceShown, SessionsOf
<1>6. AdminRemains
  BY <1>2 DEF AdminRemains, Admins
<1>. QED
  BY <1>3, <1>4, <1>5, <1>6 DEF IInv

-----------------------------------------------------------------------------
(* Every step. *)
LEMMA StepRequest ==
    ASSUME IInv, NEW t \in tokens, Request(t)
    PROVE  IInv'
<1>1. CASE change_password(t)
  BY <1>1, StepChangePassword
<1>2. CASE \E n \in Names, role \in {"admin", "user"} : create(t, n, role)
  BY <1>2, StepCreate
<1>3. CASE \E n \in Names, role \in {"admin", "user"} : update(t, n, role)
  BY <1>3, StepUpdate
<1>4. CASE \E n \in Names : remove(t, n)
  BY <1>4, StepRemove
<1>5. CASE \E n \in Names : Disable(t, n)
  BY <1>5, StepDisable
<1>6. CASE \E n \in Names : Enable(t, n)
  BY <1>6, StepEnable
<1>7. CASE \E n \in Names : LockByAdmin(t, n)
  BY <1>7, StepLockByAdmin
<1>8. CASE \E n \in Names : Unlock(t, n)
  BY <1>8, StepUnlock
<1>9. CASE \E n \in Names : reset_password(t, n)
  BY <1>9, StepResetPassword
<1>10. CASE \E ip \in Addrs : add_or_remove_blacklist(t, ip) \/ add_or_remove_whitelist(t, ip)
  BY <1>10, Typed, StepElsewhere DEF add_or_remove_blacklist, add_or_remove_whitelist
<1>11. CASE \E lockout \in BOOLEAN, mode \in {"auto", "blacklist", "whitelist"} :
              set_config(t, lockout, mode, security.max)
  BY <1>11, Typed, StepElsewhere DEF set_config
<1>. QED
  BY <1>1, <1>2, <1>3, <1>4, <1>5, <1>6, <1>7, <1>8, <1>9, <1>10, <1>11 DEF Request

LEMMA Step ==
    ASSUME IInv, [AuthNext]_authVars
    PROVE  IInv'
<1>1. CASE \E t \in tokens : Request(t)
  BY <1>1, StepRequest
<1>2. CASE \E n \in Names, ip \in Addrs : LoginFails(n, ip) \/ LoginSucceeds(n, ip)
  BY <1>2, StepLoginFails, StepLoginSucceeds
<1>3. CASE \E c \in Conns : \E t \in tokens : handleNewConnection(c, t)
  BY <1>3, StepConnects
<1>4. CASE \E c \in Conns : handleConnectionClosed(c)
  BY <1>4, StepCloses
<1>5. CASE Restart
  BY <1>5, StepRestart
<1>6. CASE Tick
  BY <1>6, Typed, StepElsewhere DEF Tick
<1>7. CASE UNCHANGED authVars
  BY <1>7, Typed, StepElsewhere DEF authVars
<1>. QED
  BY <1>1, <1>2, <1>3, <1>4, <1>5, <1>6, <1>7 DEF AuthNext

(* repository.cpp, the controllers, ws_controller.cpp: in every interleaving of
   requests, connections and restarts, a connection that has not been told to
   close belongs to a user as the table has him, the presence shown is true,
   and an admin remains who can be let in. *)
THEOREM AccountsAreHonest == AuthSpec => []AccountsHonest
<1>1. AuthInit => IInv
  BY Start
<1>2. IInv /\ [AuthNext]_authVars => IInv'
  BY Step
<1>. QED
  BY <1>1, <1>2, Honest, PTL DEF AuthSpec

-----------------------------------------------------------------------------
(* What the lists show changes with the role, the status and the end of the
   lock alone. *)
LEMMA SameShown ==
    ASSUME Tables, NEW n \in DOMAIN users, NEW row \in Rows, users' = Set(n, row),
           row.role = users[n].role, row.status = users[n].status, row.until = users[n].until
    PROVE  Shown(users') = Shown(users)
<1>1. n \in Names
  BY DEF Tables
<1>2. /\ DOMAIN users' = DOMAIN users /\ users'[n] = row
      /\ \A m \in DOMAIN users : m # n => users'[m] = users[m]
  BY <1>1, OtherRows
<1>3. \A m \in DOMAIN users : user_to_json(users'[m]) = user_to_json(users[m])
  BY <1>2 DEF user_to_json
<1>. QED
  BY <1>2, <1>3 DEF Shown

Announced ==
    sessions' # <<>> =>
      /\ Shown(users') # Shown(users) => "users" \in told'
      /\ security' # security => told' \cap {"security_config", "blacklist", "whitelist"} # {}

LEMMA RequestAnnounced ==
    ASSUME IInv, NEW t \in tokens, Request(t)
    PROVE  Announced
<1>1. CASE UNCHANGED users /\ told' \cap {"security_config", "blacklist", "whitelist"} # {}
  BY <1>1 DEF Announced
<1>2. CASE UNCHANGED security /\ "users" \in told'
  BY <1>2 DEF Announced
<1>3. ASSUME NEW n \in DOMAIN users, NEW must \in BOOLEAN, UNCHANGED security,
             users' = Set(n, write_password(users[n], must)), users[n].ver < MaxVersion
      PROVE  Announced
  <2>. DEFINE row == write_password(users[n], must)
  <2>1. users[n] \in Rows
    BY <1>3, Known
  <2>2. users[n].ver + 1 \in 0..MaxVersion
    BY <1>3, <2>1, AuthAssumption DEF Rows
  <2>3. row \in Rows
    BY <2>1, <2>2 DEF Rows, write_password
  <2>4. row.role = users[n].role /\ row.status = users[n].status /\ row.until = users[n].until
    BY <2>1 DEF Rows, write_password
  <2>5. users' = Set(n, row)
    BY <1>3
  <2>. HIDE DEF row
  <2>6. Shown(users') = Shown(users)
    BY <2>3, <2>4, <2>5, SameShown DEF IInv
  <2>. QED
    BY <1>3, <2>6 DEF Announced
<1>4. CASE change_password(t)
  BY <1>3, <1>4 DEF change_password, check_session, Has
<1>5. CASE \E n \in Names : reset_password(t, n)
  BY <1>3, <1>5 DEF reset_password, Has
<1>6. CASE \E n \in Names, role \in {"admin", "user"} : create(t, n, role) \/ update(t, n, role)
  BY <1>2, <1>6 DEF create, update
<1>7. CASE \E n \in Names : \/ remove(t, n) \/ Disable(t, n) \/ Enable(t, n)
                            \/ LockByAdmin(t, n) \/ Unlock(t, n)
  BY <1>2, <1>7 DEF remove, Disable, Enable, LockByAdmin, Unlock
<1>8. CASE \E ip \in Addrs : add_or_remove_blacklist(t, ip) \/ add_or_remove_whitelist(t, ip)
  BY <1>1, <1>8 DEF add_or_remove_blacklist, add_or_remove_whitelist
<1>9. CASE \E lockout \in BOOLEAN, mode \in {"auto", "blacklist", "whitelist"} :
              set_config(t, lockout, mode, security.max)
  BY <1>1, <1>9 DEF set_config
<1>. QED
  BY <1>4, <1>5, <1>6, <1>7, <1>8, <1>9 DEF Request

(* A wrong password that locks nothing only counts. *)
LEMMA FailureAnnounced ==
    ASSUME IInv, NEW n \in Names, NEW ip, LoginFails(n, ip)
    PROVE  Announced
<1>. DEFINE fails == users[n].fails + 1
            locks == security.lockout /\ fails >= security.max
            tried == [users[n] EXCEPT !.fails = fails]
<1>1. UNCHANGED security /\ n \in DOMAIN users
  BY DEF LoginFails, MayTry, Has
<1>2. CASE locks
  BY <1>1, <1>2 DEF LoginFails, failure_scopes, Announced
<1>3. CASE ~ locks
  <2>1. users' = Set(n, tried)
    BY <1>3 DEF LoginFails
  <2>2. users[n] \in Rows
    BY <1>1, Known
  <2>3. fails \in Int
    BY <2>2 DEF Rows
  <2>. HIDE DEF fails
  <2>4. /\ tried \in Rows /\ tried.role = users[n].role
        /\ tried.status = users[n].status /\ tried.until = users[n].until
    BY <2>2, <2>3 DEF Rows
  <2>. HIDE DEF tried
  <2>5. Shown(users') = Shown(users)
    BY <1>1, <2>1, <2>4, SameShown DEF IInv
  <2>. QED
    BY <1>1, <2>5 DEF Announced
<1>. QED
  BY <1>2, <1>3

LEMMA StepAnnounced ==
    ASSUME IInv, [AuthNext]_authVars
    PROVE  Announced
<1>1. CASE \E t \in tokens : Request(t)
  BY <1>1, RequestAnnounced
<1>2. CASE \E n \in Names, ip \in Addrs : LoginFails(n, ip)
  BY <1>2, FailureAnnounced
<1>3. CASE \E n \in Names, ip \in Addrs : LoginSucceeds(n, ip)
  BY <1>3 DEF LoginSucceeds, Announced
<1>4. CASE \E c \in Conns : \E t \in tokens : handleNewConnection(c, t)
  BY <1>4 DEF handleNewConnection, Announced
<1>5. CASE \E c \in Conns : handleConnectionClosed(c)
  BY <1>5 DEF handleConnectionClosed, Announced
<1>6. CASE Restart
  BY <1>6 DEF Restart, Announced
<1>7. CASE Tick
  BY <1>7 DEF Tick, Announced
<1>8. CASE UNCHANGED authVars
  BY <1>8 DEF authVars, Announced
<1>. QED
  BY <1>1, <1>2, <1>3, <1>4, <1>5, <1>6, <1>7, <1>8 DEF AuthNext

(* ws_controller.cpp broadcast_data_changed: no step changes what a list of
   the UI shows, while anybody may be connected, without announcing it. *)
THEOREM ListsAreAnnounced == AuthSpec => ListsAnnounced
<1>1. AuthInit => IInv
  BY Start
<1>2. IInv /\ [AuthNext]_authVars => IInv'
  BY Step
<1>3. IInv /\ [AuthNext]_authVars =>
        [sessions' # <<>> =>
           /\ Shown(users') # Shown(users) => "users" \in told'
           /\ security' # security =>
                told' \cap {"security_config", "blacklist", "whitelist"} # {}]_authVars
  BY StepAnnounced DEF Announced
<1>. QED
  BY <1>1, <1>2, <1>3, PTL DEF AuthSpec, ListsAnnounced

-----------------------------------------------------------------------------
(***************************************************************************)
(* The registry of trading accounts is honest for any gateways, accounts   *)
(* and bounds: what is configured is what the registry, its table and the  *)
(* page show once everything has been applied, and every request of the    *)
(* page is answered.                                                       *)
(*                                                                         *)
(* What makes it inductive is what is under way.  A frame is a word its    *)
(* gateway has said; the mirror of the server is the word before the first *)
(* frame (Said, Word).  The last word of a gateway is what it has now      *)
(* (Spoken), no two gateways have the same account in words that were    *)
(* true at the same time (Apart), and the registry has what the mirror     *)
(* says (Kept).  In the same way the page is the word before the first     *)
(* message (Seen, Value, Pictured).                                           *)
(***************************************************************************)

Confs    == [Accounts -> {"none", "on", "off"}]
Entries  == [gw : Gateways, on : BOOLEAN]
Regs     == UNION {[D -> Entries] : D \in SUBSET Accounts}
ConfMaps == UNION {[D -> Confs] : D \in SUBSET Gateways}
AccountOps      == {"add", "update", "remove"}
Requests == [g : Gateways, op : AccountOps, a : Accounts, to : {"on", "off"}]
Posts    == [n : Nat, g : Gateways, a : Accounts, op : AccountOps, to : {"on", "off"},
             at : {"server", "failed"}]
Loads    == [at : {"server", "answer", "failed"}, avail : BOOLEAN, reg : Regs]
Lists    == [reg : Regs, avail : BOOLEAN, confs : ConfMaps]
ConfigFrames == [k : {"config"}, g : Gateways, conf : Confs]
Frames   == ConfigFrames \cup [k : {"processes"}, live : SUBSET Gateways]
Changes  == [t : {"data_changed"}]
Messages == Changes \cup [t : {"config"}, g : Gateways, conf : Confs]
              \cup [t : {"snapshot"}, confs : ConfMaps]

GatewayOK ==
    /\ own \in [Gateways -> Confs] /\ live \subseteq Gateways /\ up \subseteq Gateways
    /\ toGw \in Seq(Requests) /\ frames \in Seq(Frames)

RegistryOK ==
    /\ entries \in Regs /\ configs \in ConfMaps
    /\ store \in [DOMAIN store -> Gateways] /\ DOMAIN store \subseteq Accounts
    /\ snapshot \in BOOLEAN

PageOK ==
    /\ sent \in Seq(Messages) /\ linked \in BOOLEAN /\ unseen \in BOOLEAN
    /\ list \in Lists /\ retry \in BOOLEAN /\ submits \in Nat
    /\ loads \subseteq Loads /\ posts \subseteq Posts
    /\ \A l, m \in loads : l = m

Types == GatewayOK /\ RegistryOK /\ PageOK

(* Words under way to the registry: 0 is the mirror, i is the i-th frame. *)
ConfigAt(i, g) == i \in DOMAIN frames /\ frames[i].k = "config" /\ frames[i].g = g
Said(i, g) == (i = 0 /\ g \in DOMAIN configs) \/ ConfigAt(i, g)
Word(i, g) == IF i = 0 THEN configs[g] ELSE frames[i].conf

(* Whatever changes, the accounts of a and b apart at any time. *)
Alone ==
    \A a \in Accounts \ contested, g, h \in Gateways :
        a \in Holds(own[g]) /\ a \in Holds(own[h]) => g = h

LastWord(i, g) == Said(i, g) /\ \A j \in 0..Len(frames) : j > i => ~ Said(j, g)

Spoken ==
    \A g \in Gateways :
        /\ \A i \in 0..Len(frames) : LastWord(i, g) => Word(i, g) = own[g]
        /\ g \in up => g \in asked \/ \E i \in 0..Len(frames) : Said(i, g)

(* The word j of h is still true when g says the word i. *)
Standing(j, h, i) == j <= i /\ Said(j, h) /\ \A k \in 0..i : j < k => ~ Said(k, h)

Apart ==
    \A a \in Accounts \ contested, g, h \in Gateways :
        \A i, j \in 0..Len(frames) :
            g # h /\ Said(i, g) /\ Standing(j, h, i) =>
                ~ (a \in Holds(Word(i, g)) /\ a \in Holds(Word(j, h)))

(* The registry has what the mirror says, and of gateways that are not
   configured only what is still to be pruned. *)
KeptFor(a, g) ==
    g \in DOMAIN configs /\ g \notin stray /\ a \in Holds(configs[g]) =>
        a \in DOMAIN entries /\ entries[a].gw = g

True(a) ==
    entries[a].gw \in DOMAIN configs =>
        /\ a \in Holds(configs[entries[a].gw])
        /\ entries[a].on = (configs[entries[a].gw][a] = "on")

Prunes(g) == \E i \in DOMAIN frames : frames[i].k = "processes" /\ g \notin frames[i].live

Configured(g) == g \in stray \/ g \in live \/ "master" \in asked \/ Prunes(g)

Backed(a) == True(a) /\ Configured(entries[a].gw)

Kept ==
    /\ \A a \in Accounts \ contested, g \in Gateways : KeptFor(a, g)
    /\ \A a \in DOMAIN entries : Backed(a)

(* The page has the registry, or will ask for it. *)
Told == unseen \/ \E i \in DOMAIN sent : sent[i].t = "data_changed"

Listed ==
    ~ Told =>
        /\ loads = {} /\ ~ retry => list.avail /\ list.reg = entries
        /\ \A l \in loads : l.at = "answer" /\ l.avail => l.reg = entries

(* Words under way to the page: 0 is what it has, i is the i-th message. *)
Carries(m, g) == (m.t = "config" /\ m.g = g) \/ (m.t = "snapshot" /\ g \in DOMAIN m.confs)
Carried(m, g) == IF m.t = "config" THEN m.conf ELSE m.confs[g]
Seen(i, g) == (i = 0 /\ g \in DOMAIN list.confs) \/ (i \in DOMAIN sent /\ Carries(sent[i], g))
Value(i, g) == IF i = 0 THEN list.confs[g] ELSE Carried(sent[i], g)
LastSeen(i, g) == Seen(i, g) /\ \A j \in 0..Len(sent) : j > i => ~ Seen(j, g)

Pictured ==
    /\ ~ linked => sent = <<>>
    /\ \A i \in DOMAIN sent, g \in Gateways : Carries(sent[i], g) => g \in DOMAIN configs
    /\ linked => \A g \in DOMAIN configs :
                    /\ \E i \in 0..Len(sent) : Seen(i, g)
                    /\ \A i \in 0..Len(sent) : LastSeen(i, g) => Value(i, g) = configs[g]

(* What will end an operation of the page. *)
Answer(k) ==
    \/ \E r \in posts : <<r.g, r.a, r.op>> = k
    \/ \E i \in DOMAIN toGw : <<toGw[i].g, toGw[i].a, toGw[i].op>> = k
    \/ \E i \in DOMAIN frames : ConfigAt(i, k[1])
    \/ linked /\ \E i \in DOMAIN sent : Carries(sent[i], k[1])
    \/ ~ linked /\ k[1] \in DOMAIN configs

Answering ==
    /\ waiting \subseteq Gateways \X Accounts \X AccountOps
    /\ \A k \in waiting \ ignored : Answer(k)

RInv ==
    /\ Types /\ Alone /\ Spoken /\ Apart /\ Kept /\ StoreFollows
    /\ Listed /\ Pictured /\ Answering

-----------------------------------------------------------------------------
(* Sequences: what is added at the end or taken from the front. *)
LEMMA AppendFacts ==
    ASSUME NEW S, NEW s \in Seq(S), NEW e \in S
    PROVE  /\ Append(s, e) \in Seq(S) /\ Len(Append(s, e)) = Len(s) + 1
           /\ DOMAIN Append(s, e) = 1..(Len(s) + 1) /\ DOMAIN s = 1..Len(s) /\ Len(s) \in Nat
           /\ Append(s, e)[Len(s) + 1] = e
           /\ \A i \in DOMAIN s : Append(s, e)[i] = s[i]
OBVIOUS

LEMMA TailFacts ==
    ASSUME NEW S, NEW s \in Seq(S), s # <<>>
    PROVE  /\ Tail(s) \in Seq(S) /\ Len(Tail(s)) = Len(s) - 1
           /\ DOMAIN Tail(s) = 1..(Len(s) - 1) /\ DOMAIN s = 1..Len(s) /\ Len(s) \in Nat
           /\ Len(s) >= 1 /\ Head(s) = s[1] /\ Head(s) \in S
           /\ \A i \in DOMAIN Tail(s) : Tail(s)[i] = s[i + 1]
BY EmptySeq

LEMMA ConcatFacts ==
    ASSUME NEW S, NEW s \in Seq(S), NEW t \in Seq(S)
    PROVE  /\ s \o t \in Seq(S) /\ Len(s \o t) = Len(s) + Len(t)
           /\ DOMAIN (s \o t) = 1..(Len(s) + Len(t)) /\ Len(s) \in Nat /\ Len(t) \in Nat
           /\ DOMAIN s = 1..Len(s) /\ DOMAIN t = 1..Len(t)
           /\ \A i \in DOMAIN s : (s \o t)[i] = s[i]
           /\ \A i \in DOMAIN t : (s \o t)[Len(s) + i] = t[i]
BY ConcatProperties

LEMMA NoElements == DOMAIN <<>> = {} /\ Len(<<>>) = 0
OBVIOUS

LEMMA NothingMapped == <<>> \in Regs /\ <<>> \in ConfMaps
<1>1. \A S : <<>> \in [{} -> S]
  <2>1. \A S : <<>> = [x \in {} |-> x]
    OBVIOUS
  <2>. QED
    BY <2>1
<1>. QED
  BY <1>1 DEF Regs, ConfMaps

-----------------------------------------------------------------------------
(* Types. *)
LEMMA ConfigChanged ==
    ASSUME NEW cf \in Confs, NEW c \in Requests
    PROVE  apply_config_op(cf, c) \in Confs
<1>1. c.a \in Accounts /\ c.to \in {"none", "on", "off"}
  BY DEF Requests
<1>. QED
  BY <1>1 DEF apply_config_op, Confs

LEMMA ConfigFrame ==
    ASSUME NEW g \in Gateways, NEW cf \in Confs
    PROVE  /\ [k |-> "config", g |-> g, conf |-> cf] \in Frames
           /\ [t |-> "config", g |-> g, conf |-> cf] \in Messages
BY DEF Frames, ConfigFrames, Messages

LEMMA AFrame ==
    ASSUME NEW f \in Frames
    PROVE  /\ f.k = "config" => f.g \in Gateways /\ f.conf \in Confs
           /\ f.k = "config" \/ f.k = "processes"
BY DEF Frames, ConfigFrames

LEMMA Reconciled ==
    ASSUME NEW es \in Regs, NEW g \in Gateways, NEW cf \in Confs
    PROVE  /\ reconcile_gateway(es, g, cf) \in Regs
           /\ DOMAIN reconcile_gateway(es, g, cf)
                = {a \in DOMAIN es : es[a].gw # g} \cup Holds(cf)
           /\ \A a \in Holds(cf) :
                reconcile_gateway(es, g, cf)[a] = [gw |-> g, on |-> cf[a] = "on"]
           /\ \A a \in DOMAIN es : es[a].gw # g /\ a \notin Holds(cf) =>
                reconcile_gateway(es, g, cf)[a] = es[a]
<1>. DEFINE D == {a \in DOMAIN es : es[a].gw # g} \cup Holds(cf)
            r == reconcile_gateway(es, g, cf)
<1>1. DOMAIN es \subseteq Accounts /\ \A a \in DOMAIN es : es[a] \in Entries
  BY DEF Regs
<1>2. D \in SUBSET Accounts
  BY <1>1 DEF Holds
<1>3. r = [a \in D |-> IF a \in Holds(cf) THEN [gw |-> g, on |-> cf[a] = "on"] ELSE es[a]]
  BY DEF reconcile_gateway
<1>4. \A a : [gw |-> g, on |-> cf[a] = "on"] \in Entries
  BY DEF Entries
<1>5. r \in [D -> Entries]
  BY <1>1, <1>3, <1>4
<1>6. r \in Regs
  BY <1>2, <1>5 DEF Regs
<1>. QED
  BY <1>3, <1>6

LEMMA Pruned ==
    ASSUME NEW es \in Regs, NEW names
    PROVE  /\ prune_gateways_not_in(es, names) \in Regs
           /\ DOMAIN prune_gateways_not_in(es, names) = {a \in DOMAIN es : es[a].gw \in names}
           /\ \A a \in DOMAIN prune_gateways_not_in(es, names) :
                prune_gateways_not_in(es, names)[a] = es[a]
<1>. DEFINE D == {a \in DOMAIN es : es[a].gw \in names}
            r == prune_gateways_not_in(es, names)
<1>1. DOMAIN es \in SUBSET Accounts /\ \A a \in DOMAIN es : es[a] \in Entries
  BY DEF Regs
<1>2. r = [a \in D |-> es[a]]
  BY DEF prune_gateways_not_in, Restrict
<1>3. r \in [D -> Entries] /\ D \in SUBSET Accounts
  BY <1>1, <1>2
<1>4. r \in Regs
  BY <1>3 DEF Regs
<1>. QED
  BY <1>2, <1>4

LEMMA Loaded ==
    ASSUME NEW rows, rows \in [DOMAIN rows -> Gateways], DOMAIN rows \subseteq Accounts
    PROVE  /\ load(rows) \in Regs /\ DOMAIN load(rows) = DOMAIN rows
           /\ \A a \in DOMAIN rows : load(rows)[a].gw = rows[a]
<1>1. load(rows) = [a \in DOMAIN rows |-> [gw |-> rows[a], on |-> TRUE]]
  BY DEF load
<1>2. load(rows) \in [DOMAIN rows -> Entries]
  BY <1>1 DEF Entries
<1>. QED
  BY <1>1, <1>2 DEF Regs

LEMMA PutConfig ==
    ASSUME NEW cs \in ConfMaps, NEW g \in Gateways, NEW cf \in Confs
    PROVE  /\ Put(cs, g, cf) \in ConfMaps /\ DOMAIN Put(cs, g, cf) = DOMAIN cs \cup {g}
           /\ Put(cs, g, cf)[g] = cf
           /\ \A h \in DOMAIN cs : h # g => Put(cs, g, cf)[h] = cs[h]
<1>1. DOMAIN cs \in SUBSET Gateways /\ \A h \in DOMAIN cs : cs[h] \in Confs
  BY DEF ConfMaps
<1>2. Put(cs, g, cf) = [h \in DOMAIN cs \cup {g} |-> IF h = g THEN cf ELSE cs[h]]
  BY DEF Put
<1>3. Put(cs, g, cf) \in [DOMAIN cs \cup {g} -> Confs] /\ DOMAIN cs \cup {g} \in SUBSET Gateways
  BY <1>1, <1>2
<1>4. Put(cs, g, cf) \in ConfMaps
  BY <1>3 DEF ConfMaps
<1>. QED
  BY <1>2, <1>4

LEMMA Merged ==
    ASSUME NEW old \in ConfMaps, NEW confs \in ConfMaps
    PROVE  LET m == [g \in DOMAIN old \cup DOMAIN confs |->
                        IF g \in DOMAIN confs THEN confs[g] ELSE old[g]]
           IN /\ m \in ConfMaps /\ DOMAIN m = DOMAIN old \cup DOMAIN confs
              /\ \A g \in DOMAIN confs : m[g] = confs[g]
              /\ \A g \in DOMAIN old : g \notin DOMAIN confs => m[g] = old[g]
<1>. DEFINE m == [g \in DOMAIN old \cup DOMAIN confs |->
                     IF g \in DOMAIN confs THEN confs[g] ELSE old[g]]
<1>1. /\ DOMAIN old \in SUBSET Gateways /\ \A g \in DOMAIN old : old[g] \in Confs
      /\ DOMAIN confs \in SUBSET Gateways /\ \A g \in DOMAIN confs : confs[g] \in Confs
  BY DEF ConfMaps
<1>2. m \in [DOMAIN old \cup DOMAIN confs -> Confs]
      /\ DOMAIN old \cup DOMAIN confs \in SUBSET Gateways
  BY <1>1
<1>3. m \in ConfMaps
  BY <1>2 DEF ConfMaps
<1>. QED
  BY <1>3

LEMMA InitTypes ==
    ASSUME AccountInit
    PROVE  Types
<1>1. own \in [Gateways -> Confs] /\ own \in ConfMaps
  <2>1. PICK has \in BOOLEAN :
           own = [g \in Gateways |-> [a \in Accounts |->
                    IF g = (CHOOSE h \in Gateways : TRUE) /\ has THEN "on" ELSE "none"]]
    BY DEF AccountInit
  <2>2. own \in [Gateways -> Confs]
    BY <2>1 DEF Confs
  <2>. QED
    BY <2>2 DEF ConfMaps
<1>2. store \in [DOMAIN store -> Gateways] /\ DOMAIN store \subseteq Accounts
  <2>. DEFINE D == {b \in Accounts : \E g \in Gateways : b \in Holds(own[g])}
  <2>1. store = [a \in D |-> CHOOSE g \in Gateways : a \in Holds(own[g])]
    BY DEF AccountInit
  <2>2. \A a \in D : (CHOOSE g \in Gateways : a \in Holds(own[g])) \in Gateways
    OBVIOUS
  <2>. QED
    BY <2>1, <2>2
<1>3. entries \in Regs
  BY <1>2, Loaded DEF AccountInit
<1>4. list \in Lists
  BY <1>1, <1>3 DEF AccountInit, Lists
<1>5. GatewayOK
  BY <1>1 DEF AccountInit, GatewayOK
<1>6. RegistryOK
  BY <1>1, <1>2, <1>3 DEF AccountInit, RegistryOK
<1>7. PageOK
  <2>1. sent \in Seq(Messages) /\ submits \in Nat /\ loads = {} /\ posts = {}
    BY DEF AccountInit
  <2>2. linked \in BOOLEAN /\ unseen \in BOOLEAN /\ retry \in BOOLEAN
    BY DEF AccountInit
  <2>. QED
    BY <1>4, <2>1, <2>2 DEF PageOK
<1>. QED
  BY <1>5, <1>6, <1>7 DEF Types

(* The actions, those of one kind together. *)
LEMMA Kinds ==
    ASSUME AccountNext
    PROVE  \/ apply_config_change
           \/ \E g \in Gateways : GatewayStarts(g)
           \/ \E g \in Gateways : GatewayAnswers(g)
           \/ \E g \in Gateways : GatewayExits(g)
           \/ \E g \in Gateways, a \in Accounts : SessionChanges(g, a)
           \/ MasterReports
           \/ ApplyFrame
           \/ \E r \in posts : dispatch(r)
           \/ \E r \in posts : Respond(r)
           \/ \E l \in loads : AnswerList(l)
           \/ \E l \in loads : TakeList(l)
           \/ \E g \in Gateways, a \in Accounts, op \in AccountOps, to \in {"on", "off"} : Submit(g, a, op, to)
           \/ \E key \in waiting : Timeout(key)
           \/ Retry
           \/ Receive
           \/ Connect
           \/ Disconnect
           \/ ServerRestarts
BY Zenon DEF AccountNext, AccountOps

LEMMA ReportFrame ==
    ASSUME own' \in [Gateways -> Confs], frames \in Seq(Frames), NEW g \in Gateways,
           frames' = Append(frames, Report(g))
    PROVE  frames' \in Seq(Frames)
<1>1. Report(g) \in Frames
  BY ConfigFrame DEF Report
<1>. QED
  BY <1>1

LEMMA GatewayTypes ==
    ASSUME Types, AccountNext
    PROVE  GatewayOK'
<1>1. CASE apply_config_change
  <2>1. toGw # <<>> /\ toGw' = Tail(toGw) /\ Head(toGw) \in Requests /\ toGw' \in Seq(Requests)
    BY <1>1, TailFacts DEF apply_config_change, Types, GatewayOK
  <2>2. Head(toGw).g \in Gateways
    BY <2>1 DEF Requests
  <2>3. own' \in [Gateways -> Confs]
    <3>1. CASE UNCHANGED own
      BY <3>1 DEF Types, GatewayOK
    <3>2. CASE ~ UNCHANGED own
      <4>1. apply_config_op(own[Head(toGw).g], Head(toGw)) \in Confs
        BY <2>1, <2>2, ConfigChanged DEF Types, GatewayOK
      <4>. QED
        BY <1>1, <3>2, <4>1 DEF apply_config_change, Types, GatewayOK
    <3>. QED
      BY <3>1, <3>2
  <2>4. UNCHANGED frames \/ frames' = Append(frames, Report(Head(toGw).g))
    BY <1>1 DEF apply_config_change
  <2>5. frames' \in Seq(Frames)
    BY <2>2, <2>3, <2>4, ReportFrame DEF Types, GatewayOK
  <2>. QED
    BY <1>1, <2>1, <2>3, <2>5 DEF apply_config_change, Types, GatewayOK
<1>2. CASE (\E g \in Gateways : GatewayStarts(g)) \/ (\E g \in Gateways : GatewayAnswers(g))
  BY <1>2, ReportFrame DEF GatewayStarts, GatewayAnswers, Types, GatewayOK
<1>3. CASE \/ \E g \in Gateways : GatewayExits(g)
           \/ \E g \in Gateways, a \in Accounts : SessionChanges(g, a)
  BY <1>3 DEF GatewayExits, SessionChanges, Types, GatewayOK
<1>4. CASE MasterReports
  <2>1. live' \subseteq Gateways
    BY <1>4 DEF MasterReports, Types, GatewayOK
  <2>2. Processes \in Frames
    BY <2>1 DEF Processes, Frames
  <2>. QED
    BY <1>4, <2>1, <2>2 DEF MasterReports, Types, GatewayOK
<1>5. CASE ApplyFrame
  BY <1>5, TailFacts DEF ApplyFrame, gateways, Types, GatewayOK
<1>6. CASE \E r \in posts : dispatch(r)
  <2>1. PICK r \in posts : dispatch(r)
    BY <1>6
  <2>2. r \in Posts
    BY DEF Types, PageOK
  <2>3. Admitted(r) => Target(r) \in Gateways
    BY <2>2 DEF Admitted, Target, Posts, Types, RegistryOK, Regs, Entries
  <2>4. Admitted(r) => [g |-> Target(r), op |-> r.op, a |-> r.a, to |-> r.to] \in Requests
    BY <2>2, <2>3 DEF Posts, Requests
  <2>5. toGw' \in Seq(Requests)
    <3>. DEFINE e == [g |-> Target(r), op |-> r.op, a |-> r.a, to |-> r.to]
    <3>1. toGw \in Seq(Requests)
      BY DEF Types, GatewayOK
    <3>2. UNCHANGED toGw \/ (e \in Requests /\ toGw' = Append(toGw, e))
      BY <2>1, <2>4 DEF dispatch
    <3>3. e \in Requests => Append(toGw, e) \in Seq(Requests)
      BY <3>1, AppendFacts
    <3>. QED
      BY <3>1, <3>2, <3>3
  <2>6. UNCHANGED <<own, live, up, frames>>
    BY <2>1 DEF dispatch
  <2>. QED
    BY <2>5, <2>6 DEF Types, GatewayOK
<1>7. CASE ServerRestarts
  BY <1>7 DEF ServerRestarts, Types, GatewayOK
<1>8. CASE \E r \in posts : Respond(r)
  BY <1>8 DEF Respond, gateways, Types, GatewayOK
<1>9. CASE (\E l \in loads : AnswerList(l)) \/ (\E l \in loads : TakeList(l))
  BY <1>9 DEF AnswerList, TakeList, gateways, Types, GatewayOK
<1>10. CASE \E g \in Gateways, a \in Accounts, op \in AccountOps, to \in {"on", "off"} : Submit(g, a, op, to)
  BY <1>10 DEF Submit, gateways, Types, GatewayOK
<1>11. CASE \E key \in waiting : Timeout(key)
  BY <1>11 DEF Timeout, gateways, Types, GatewayOK
<1>12. CASE Retry \/ Receive \/ Connect \/ Disconnect
  BY <1>12 DEF Retry, Receive, Connect, Disconnect, gateways, Types, GatewayOK
<1>. QED
  BY Kinds, <1>1, <1>2, <1>3, <1>4, <1>5, <1>6, <1>7, <1>8, <1>9, <1>10, <1>11, <1>12, Zenon

(* A report as the server applies it. *)
LEMMA Applied ==
    ASSUME GatewayOK, ApplyFrame
    PROVE  /\ frames # <<>> /\ frames' = Tail(frames) /\ Head(frames) \in Frames
           /\ Head(frames) = frames[1] /\ 1 \in DOMAIN frames
           /\ \/ /\ Head(frames).k = "config" /\ on_rtn_td_config(Head(frames))
                 /\ Head(frames).g \in Gateways /\ Head(frames).conf \in Confs
              \/ Head(frames).k = "processes" /\ on_rtn_process_config(Head(frames))
<1>1. /\ frames # <<>> /\ frames' = Tail(frames) /\ Head(frames) \in Frames
      /\ Head(frames) = frames[1] /\ 1 \in DOMAIN frames
  BY TailFacts DEF ApplyFrame, GatewayOK
<1>. QED
  BY <1>1, AFrame DEF ApplyFrame

LEMMA RegistryTypes ==
    ASSUME Types, AccountNext
    PROVE  RegistryOK'
<1>1. CASE ApplyFrame
  <2>. DEFINE f == Head(frames)
  <2>1. CASE f.k = "config" /\ on_rtn_td_config(f) /\ f.g \in Gateways /\ f.conf \in Confs
    <3>1. entries' \in Regs /\ configs' \in ConfMaps /\ snapshot' \in BOOLEAN
      BY <2>1, Reconciled, PutConfig DEF on_rtn_td_config, Types, RegistryOK
    <3>2. replace_gateway(store, f.g, Holds(f.conf))
            \in [DOMAIN replace_gateway(store, f.g, Holds(f.conf)) -> Gateways]
          /\ DOMAIN replace_gateway(store, f.g, Holds(f.conf)) \subseteq Accounts
      BY <2>1 DEF replace_gateway, Holds, Types, RegistryOK
    <3>3. UNCHANGED store \/ store' = replace_gateway(store, f.g, Holds(f.conf))
      BY <2>1 DEF on_rtn_td_config
    <3>. QED
      BY <3>1, <3>2, <3>3 DEF Types, RegistryOK
  <2>2. CASE f.k = "processes" /\ on_rtn_process_config(f)
    <3>1. entries' \in Regs /\ UNCHANGED <<configs, snapshot>>
      BY <2>2, Pruned DEF on_rtn_process_config, Types, RegistryOK
    <3>2. PICK failed : store' = Restrict(store, {a \in DOMAIN store :
                                             store[a] \notin (Owners(entries) \ f.live) \ failed})
      BY <2>2 DEF on_rtn_process_config
    <3>3. store' \in [DOMAIN store' -> Gateways] /\ DOMAIN store' \subseteq Accounts
      BY <3>2 DEF Restrict, Types, RegistryOK
    <3>. QED
      BY <3>1, <3>3 DEF Types, RegistryOK
  <2>. QED
    BY <1>1, <2>1, <2>2, Applied DEF Types
<1>2. CASE ServerRestarts
  BY <1>2, Loaded, NothingMapped DEF ServerRestarts, Types, RegistryOK
<1>3. CASE ~ ApplyFrame /\ ~ ServerRestarts
  <2>1. UNCHANGED registry
    BY <1>3, Kinds DEF apply_config_change, GatewayStarts, GatewayAnswers, GatewayExits,
         SessionChanges, MasterReports, Others, dispatch, Respond, AnswerList, TakeList, Submit,
         Timeout, Retry, Receive, Connect, Disconnect
  <2>. QED
    BY <2>1 DEF registry, Types, RegistryOK
<1>. QED
  BY <1>1, <1>2, <1>3

LEMMA BroadcastTypes ==
    ASSUME sent \in Seq(Messages), NEW msgs \in Seq(Messages), Broadcast(msgs)
    PROVE  sent' \in Seq(Messages)
BY ConcatFacts DEF Broadcast

LEMMA OneMessage ==
    ASSUME NEW S, NEW m \in S
    PROVE  <<m>> \in Seq(S)
OBVIOUS

LEMMA Notices ==
    ASSUME NEW changed \in BOOLEAN
    PROVE  /\ Notice(changed) \in Seq(Messages)
           /\ changed => Notice(changed) = <<[t |-> "data_changed"]>>
           /\ ~ changed => Notice(changed) = <<>>
<1>1. [t |-> "data_changed"] \in Messages
  BY DEF Messages, Changes
<1>2. <<[t |-> "data_changed"]>> \in Seq(Messages) /\ <<>> \in Seq(Messages)
  BY <1>1, OneMessage
<1>. QED
  BY <1>2 DEF Notice

LEMMA ReportMessages ==
    ASSUME NEW changed \in BOOLEAN, NEW g \in Gateways, NEW cf \in Confs
    PROVE  Notice(changed) \o <<[t |-> "config", g |-> g, conf |-> cf]>> \in Seq(Messages)
<1>1. <<[t |-> "config", g |-> g, conf |-> cf]>> \in Seq(Messages)
  BY ConfigFrame, OneMessage
<1>. QED
  BY <1>1, Notices, ConcatFacts

LEMMA AMessage ==
    ASSUME NEW m \in Messages
    PROVE  /\ m.t = "config" => m.g \in Gateways /\ m.conf \in Confs
           /\ m.t = "snapshot" => m.confs \in ConfMaps
           /\ m.t \in {"data_changed", "config", "snapshot"}
BY DEF Messages, Changes

LEMMA SnapshotMessage ==
    ASSUME configs \in ConfMaps
    PROVE  [t |-> "snapshot", confs |-> configs] \in Messages
BY DEF Messages

(* A message as the page receives it. *)
LEMMA Received ==
    ASSUME PageOK, Receive
    PROVE  /\ sent # <<>> /\ sent' = Tail(sent) /\ Head(sent) \in Messages
           /\ Head(sent) = sent[1] /\ 1 \in DOMAIN sent
           /\ \/ Head(sent).t = "data_changed" /\ loadRegistry /\ UNCHANGED <<list, waiting, ignored>>
              \/ /\ Head(sent).t = "config" /\ Head(sent).g \in Gateways /\ Head(sent).conf \in Confs
                 /\ applyTdConfig([g \in {Head(sent).g} |-> Head(sent).conf]) /\ UNCHANGED loads
              \/ /\ Head(sent).t = "snapshot" /\ Head(sent).confs \in ConfMaps
                 /\ applyTdConfig(Head(sent).confs) /\ UNCHANGED loads
           /\ UNCHANGED <<gateways, frames, registry, linked, retry, posts, submits, turns,
                          contested, unsaved, stray, unseen>>
<1>1. /\ sent # <<>> /\ sent' = Tail(sent) /\ Head(sent) \in Messages
      /\ Head(sent) = sent[1] /\ 1 \in DOMAIN sent
  BY TailFacts DEF Receive, PageOK
<1>. QED
  BY <1>1, AMessage DEF Receive

LEMMA OneConfig ==
    ASSUME NEW g \in Gateways, NEW cf \in Confs
    PROVE  [h \in {g} |-> cf] \in ConfMaps
<1>1. [h \in {g} |-> cf] \in [{g} -> Confs] /\ {g} \in SUBSET Gateways
  OBVIOUS
<1>. QED
  BY <1>1 DEF ConfMaps

LEMMA ListApplied ==
    ASSUME list \in Lists, NEW confs \in ConfMaps, applyTdConfig(confs)
    PROVE  /\ list' \in Lists /\ list'.reg = list.reg /\ list'.avail = list.avail
           /\ DOMAIN list'.confs = DOMAIN list.confs \cup DOMAIN confs
           /\ \A g \in DOMAIN confs : list'.confs[g] = confs[g]
           /\ \A g \in DOMAIN list.confs : g \notin DOMAIN confs => list'.confs[g] = list.confs[g]
<1>. DEFINE m == [g \in DOMAIN list.confs \cup DOMAIN confs |->
                     IF g \in DOMAIN confs THEN confs[g] ELSE list.confs[g]]
<1>1. list' = [list EXCEPT !.confs = m]
  BY DEF applyTdConfig
<1>2. list.confs \in ConfMaps
  BY DEF Lists
<1>3. /\ m \in ConfMaps /\ DOMAIN m = DOMAIN list.confs \cup DOMAIN confs
      /\ \A g \in DOMAIN confs : m[g] = confs[g]
      /\ \A g \in DOMAIN list.confs : g \notin DOMAIN confs => m[g] = list.confs[g]
  BY <1>2, Merged
<1>. HIDE DEF m
<1>4. list' \in Lists /\ list'.confs = m /\ list'.reg = list.reg /\ list'.avail = list.avail
  BY <1>1, <1>3 DEF Lists
<1>. QED
  BY <1>3, <1>4

LEMMA ListTaken ==
    ASSUME PageOK, NEW l \in loads, TakeList(l)
    PROVE  /\ l \in Loads /\ loads' = {} /\ retry' \in BOOLEAN
           /\ list' \in Lists /\ list'.confs = list.confs
           /\ \/ retry'
              \/ l.at = "answer" /\ l.avail /\ list'.avail /\ list'.reg = l.reg
<1>1. l \in Loads /\ loads = {l} /\ loads' = loads \ {l} /\ list \in Lists
  BY DEF TakeList, PageOK
<1>2. CASE l.at = "failed"
  <2>1. retry' = TRUE /\ list' = list
    BY <1>2 DEF TakeList
  <2>. QED
    BY <1>1, <2>1
<1>3. CASE l.at = "answer" /\ l.avail
  <2>1. retry' = FALSE /\ list' = [list EXCEPT !.avail = TRUE, !.reg = l.reg]
    BY <1>3 DEF TakeList
  <2>2. l.reg \in Regs
    BY <1>1 DEF Loads
  <2>. QED
    BY <1>1, <1>3, <2>1, <2>2 DEF Lists
<1>4. CASE l.at = "answer" /\ ~ l.avail
  <2>1. retry' = TRUE /\ list' = [list EXCEPT !.avail = FALSE]
    BY <1>4 DEF TakeList
  <2>. QED
    BY <1>1, <2>1 DEF Lists
<1>5. l.at \in {"answer", "failed"} /\ l.avail \in BOOLEAN
  BY <1>1 DEF TakeList, Loads
<1>. QED
  BY <1>1, <1>2, <1>3, <1>4, <1>5

LEMMA SettledTypes ==
    ASSUME PageOK, NEW r \in posts, NEW at \in {"server", "failed"}
    PROVE  LET q == [r EXCEPT !.at = at]
           IN q \in Posts /\ q.g = r.g /\ q.a = r.a /\ q.op = r.op /\ q.at = at
BY DEF PageOK, Posts

(* What is sent to the page with a frame. *)
LEMMA Sends ==
    ASSUME Types, ApplyFrame
    PROVE  \E msgs \in Seq(Messages) : Broadcast(msgs)
<1>1. CASE Head(frames).k = "config" /\ on_rtn_td_config(Head(frames))
           /\ Head(frames).g \in Gateways /\ Head(frames).conf \in Confs
  BY <1>1, ReportMessages DEF on_rtn_td_config
<1>2. CASE on_rtn_process_config(Head(frames))
  BY <1>2, Notices DEF on_rtn_process_config
<1>. QED
  BY <1>1, <1>2, Applied DEF Types

LEMMA PageTypes ==
    ASSUME Types, AccountNext
    PROVE  PageOK'
<1>0. PageOK /\ list \in Lists
  BY DEF Types, PageOK
<1>1. CASE ApplyFrame
  <2>1. sent' \in Seq(Messages)
    BY <1>1, Sends, BroadcastTypes DEF Types, PageOK
  <2>2. unseen' \in BOOLEAN
    BY <1>1, Applied DEF on_rtn_td_config, on_rtn_process_config, Types
  <2>3. UNCHANGED <<linked, list, retry, submits, loads, posts>>
    BY <1>1 DEF ApplyFrame, page
  <2>. QED
    BY <1>0, <2>1, <2>2, <2>3 DEF PageOK
<1>2. CASE \E r \in posts : dispatch(r)
  <2>1. PICK r \in posts : dispatch(r)
    BY <1>2
  <2>2. posts' \subseteq Posts
    BY <1>0, <2>1, SettledTypes DEF dispatch, PageOK
  <2>3. UNCHANGED <<sent, linked, unseen, list, retry, submits, loads>>
    BY <2>1 DEF dispatch
  <2>. QED
    BY <1>0, <2>2, <2>3 DEF PageOK
<1>3. CASE \E l \in loads : AnswerList(l)
  <2>1. PICK l \in loads : AnswerList(l)
    BY <1>3
  <2>2. loads = {l} /\ l \in Loads /\ entries \in Regs /\ available \in BOOLEAN
    BY <1>0 DEF PageOK, Types, RegistryOK, available
  <2>3. PICK m \in Loads : loads' = {m}
    <3>1. CASE loads' = (loads \ {l}) \cup {[l EXCEPT !.at = "answer", !.avail = available, !.reg = entries]}
      BY <2>2, <3>1, ZenonT(60) DEF Loads
    <3>2. CASE loads' = (loads \ {l}) \cup {[l EXCEPT !.at = "failed"]}
      BY <2>2, <3>2 DEF Loads
    <3>. QED
      BY <2>1, <3>1, <3>2 DEF AnswerList
  <2>4. UNCHANGED <<sent, linked, unseen, list, retry, submits, posts>>
    BY <2>1 DEF AnswerList
  <2>. QED
    BY <1>0, <2>3, <2>4 DEF PageOK
<1>4. CASE \E l \in loads : TakeList(l)
  <2>1. PICK l \in loads : TakeList(l)
    BY <1>4
  <2>2. loads' = {} /\ retry' \in BOOLEAN /\ list' \in Lists
    BY <1>0, <2>1, ListTaken
  <2>3. UNCHANGED <<sent, linked, unseen, submits, posts>>
    BY <2>1 DEF TakeList
  <2>. QED
    BY <1>0, <2>2, <2>3 DEF PageOK
<1>5. CASE \E g \in Gateways, a \in Accounts, op \in AccountOps, to \in {"on", "off"} : Submit(g, a, op, to)
  <2>1. PICK g \in Gateways, a \in Accounts, op \in AccountOps, to \in {"on", "off"} : Submit(g, a, op, to)
    BY <1>5
  <2>2. [n |-> submits, g |-> g, a |-> a, op |-> op, to |-> to, at |-> "server"] \in Posts
    BY <1>0 DEF Posts, PageOK
  <2>3. posts' \subseteq Posts /\ submits' \in Nat
    BY <1>0, <2>1, <2>2 DEF Submit, PageOK
  <2>4. UNCHANGED <<sent, linked, unseen, list, retry, loads>>
    BY <2>1 DEF Submit
  <2>. QED
    BY <1>0, <2>3, <2>4 DEF PageOK
<1>6. CASE Receive
  <2>1. sent' \in Seq(Messages)
    BY <1>0, <1>6, TailFacts DEF Receive, PageOK
  <2>2. list' \in Lists /\ loads' \subseteq Loads /\ \A l, m \in loads' : l = m
    <3>1. CASE loadRegistry /\ UNCHANGED list
      BY <1>0, <3>1, NothingMapped DEF loadRegistry, Loads
    <3>2. CASE UNCHANGED loads /\ \E confs \in ConfMaps : applyTdConfig(confs)
      BY <1>0, <3>2, ListApplied DEF PageOK
    <3>. QED
      BY <1>0, <1>6, <3>1, <3>2, Received, OneConfig
  <2>3. UNCHANGED <<linked, unseen, retry, submits, posts>>
    BY <1>6 DEF Receive
  <2>. QED
    BY <1>0, <2>1, <2>2, <2>3 DEF PageOK
<1>7. CASE Retry
  <2>1. loads' \subseteq Loads /\ \A l, m \in loads' : l = m
    BY <1>7, NothingMapped DEF Retry, loadRegistry, Loads
  <2>2. retry' \in BOOLEAN /\ unseen' \in BOOLEAN
    BY <1>7 DEF Retry
  <2>. QED
    BY <1>0, <1>7, <2>1, <2>2 DEF Retry, PageOK
<1>8. CASE Connect
  <2>1. sent' \in Seq(Messages)
    BY <1>8, SnapshotMessage, OneMessage DEF Connect, Types, RegistryOK
  <2>2. linked' \in BOOLEAN
    BY <1>8 DEF Connect
  <2>. QED
    BY <1>0, <1>8, <2>1, <2>2 DEF Connect, page, PageOK
<1>9. CASE Disconnect
  <2>1. sent' \in Seq(Messages)
    BY <1>9 DEF Disconnect
  <2>2. linked' \in BOOLEAN /\ unseen' \in BOOLEAN
    BY <1>9 DEF Disconnect
  <2>. QED
    BY <1>0, <1>9, <2>1, <2>2 DEF Disconnect, page, PageOK
<1>10. CASE ServerRestarts
  <2>1. sent' \in Seq(Messages)
    BY <1>10 DEF ServerRestarts
  <2>4. linked' \in BOOLEAN /\ unseen' \in BOOLEAN
    BY <1>10 DEF ServerRestarts
  <2>2. posts' \subseteq Posts
    BY <1>0, <1>10, SettledTypes DEF ServerRestarts, PageOK
  <2>3. loads' \subseteq Loads /\ \A l, m \in loads' : l = m
    <3>1. \A l \in loads : [l EXCEPT !.at = "failed"] \in Loads
      BY <1>0 DEF PageOK, Loads
    <3>. QED
      BY <1>0, <1>10, <3>1 DEF ServerRestarts, PageOK
  <2>. QED
    BY <1>0, <1>10, <2>1, <2>2, <2>3, <2>4 DEF ServerRestarts, PageOK
<1>11. CASE \E r \in posts : Respond(r)
  BY <1>0, <1>11 DEF Respond, PageOK
<1>12. CASE UNCHANGED <<linked, sent, list, loads, retry, posts, submits, unseen>>
  BY <1>0, <1>12 DEF PageOK
<1>13. CASE ~ \/ ApplyFrame \/ (\E r \in posts : dispatch(r)) \/ (\E r \in posts : Respond(r))
              \/ (\E l \in loads : AnswerList(l)) \/ (\E l \in loads : TakeList(l))
              \/ (\E g \in Gateways, a \in Accounts, op \in AccountOps, to \in {"on", "off"} : Submit(g, a, op, to))
              \/ Receive \/ Retry \/ Connect \/ Disconnect \/ ServerRestarts
  <2>1. UNCHANGED <<linked, sent, list, loads, retry, posts, submits, unseen>>
    BY <1>13, Kinds DEF apply_config_change, GatewayStarts, GatewayAnswers, GatewayExits,
         SessionChanges, MasterReports, Others, Timeout, page
  <2>. QED
    BY <1>12, <2>1
<1>. QED
  BY <1>1, <1>2, <1>3, <1>4, <1>5, <1>6, <1>7, <1>8, <1>9, <1>10, <1>11, <1>13

LEMMA TypesKept ==
    ASSUME Types, AccountNext
    PROVE  Types'
BY GatewayTypes, RegistryTypes, PageTypes DEF Types

-----------------------------------------------------------------------------
(* What a step does to the gateways, the frames and the registry. *)
ReportStep(g) ==
    /\ g \in Gateways /\ frames' = Append(frames, Report(g))
    /\ \A h \in Gateways : h # g => own'[h] = own[h]
    /\ up' \subseteq up \cup {g} /\ asked \subseteq asked' \cup {g}
    /\ contested \subseteq contested'
    /\ UNCHANGED <<configs, live, stray, entries, store, unsaved>>

ProcessStep ==
    /\ frames' = Append(frames, Processes)
    /\ \/ \E g \in live : live' = live \ {g} /\ stray' = stray \cup {g} /\ asked' = asked
       \/ live \subseteq live' /\ stray' = stray /\ asked \subseteq asked' \cup {"master"}
    /\ UNCHANGED <<own, up, configs, entries, store, unsaved, contested>>

ExitStep ==
    /\ \E g \in Gateways : up' = up \ {g} /\ asked' = asked \ {g}
    /\ UNCHANGED <<own, live, frames, configs, stray, entries, store, unsaved, contested>>

WorldSame ==
    /\ contested \subseteq contested'
    /\ UNCHANGED <<own, live, up, asked, frames, configs, stray, entries, store, unsaved>>

WorldStep ==
    (\E g : ReportStep(g)) \/ ProcessStep \/ ExitStep \/ ApplyFrame \/ ServerRestarts \/ WorldSame

LEMMA WorldSteps ==
    ASSUME Types, AccountNext
    PROVE  WorldStep
<1>1. CASE apply_config_change
  <2>0. Head(toGw) \in Requests
    BY <1>1, TailFacts DEF apply_config_change, Types, GatewayOK
  <2>1. Head(toGw).g \in Gateways
    BY <2>0 DEF Requests
  <2>2. \A h \in Gateways : h # Head(toGw).g => own'[h] = own[h]
    BY <1>1 DEF apply_config_change, Types, GatewayOK
  <2>3. CASE UNCHANGED <<own, frames>>
    BY <1>1, <2>3 DEF apply_config_change, registry, WorldSame, WorldStep
  <2>4. CASE frames' = Append(frames, Report(Head(toGw).g))
    BY <1>1, <2>1, <2>2, <2>4 DEF apply_config_change, registry, ReportStep, WorldStep
  <2>. QED
    BY <1>1, <2>3, <2>4 DEF apply_config_change
<1>2. CASE \E g \in Gateways : GatewayStarts(g)
  BY <1>2 DEF GatewayStarts, Others, registry, ReportStep, WorldStep
<1>3. CASE \E g \in Gateways : GatewayAnswers(g)
  BY <1>3 DEF GatewayAnswers, Others, registry, ReportStep, WorldStep
<1>4. CASE \E g \in Gateways : GatewayExits(g)
  BY <1>4 DEF GatewayExits, Others, registry, ExitStep, WorldStep
<1>5. CASE \E g \in Gateways, a \in Accounts : SessionChanges(g, a)
  BY <1>5 DEF SessionChanges, Others, registry, WorldSame, WorldStep
<1>6. CASE MasterReports
  <2>1. UNCHANGED <<own, up, configs, entries, store, unsaved, contested>>
    BY <1>6 DEF MasterReports, Others, registry
  <2>. QED
    BY <1>6, <2>1 DEF MasterReports, ProcessStep, WorldStep
<1>7. CASE (\E r \in posts : dispatch(r)) \/ (\E r \in posts : Respond(r))
  BY <1>7 DEF dispatch, Respond, gateways, registry, WorldSame, WorldStep
<1>8. CASE (\E l \in loads : AnswerList(l)) \/ (\E l \in loads : TakeList(l))
  BY <1>8 DEF AnswerList, TakeList, gateways, registry, WorldSame, WorldStep
<1>9. CASE \/ \E g \in Gateways, a \in Accounts, op \in AccountOps, to \in {"on", "off"} : Submit(g, a, op, to)
           \/ \E key \in waiting : Timeout(key)
  <2>1. UNCHANGED <<gateways, frames, registry, contested, unsaved, stray>>
    BY <1>9, Zenon DEF Submit, Timeout
  <2>. QED
    BY <2>1 DEF gateways, registry, WorldSame, WorldStep
<1>10. CASE Retry \/ Receive \/ Connect \/ Disconnect
  BY <1>10 DEF Retry, Receive, Connect, Disconnect, gateways, registry, WorldSame, WorldStep
<1>11. CASE ApplyFrame \/ ServerRestarts
  BY <1>11 DEF WorldStep
<1>. QED
  BY Kinds, <1>1, <1>2, <1>3, <1>4, <1>5, <1>6, <1>7, <1>8, <1>9, <1>10, <1>11

-----------------------------------------------------------------------------
(* Only a changed configuration can make two gateways have one account, and
   then it is contested. *)
LEMMA AloneKept ==
    ASSUME Alone, AccountNext
    PROVE  Alone'
<1>1. CASE apply_config_change
  BY <1>1 DEF apply_config_change, Alone
<1>2. CASE ~ apply_config_change
  <2>1. UNCHANGED <<own, contested>>
    BY <1>2, Kinds, Zenon DEF GatewayStarts, GatewayAnswers, GatewayExits, SessionChanges,
         MasterReports, Others, ApplyFrame, gateways, dispatch, Respond, AnswerList, TakeList,
         Submit, Timeout, Retry, Receive, Connect, Disconnect, ServerRestarts
  <2>. QED
    BY <2>1 DEF Alone, Holds
<1>. QED
  BY <1>1, <1>2

(* The words after a frame was written, and after one was applied. *)
LEMMA Grown ==
    ASSUME GatewayOK, NEW e \in Frames, frames' = Append(frames, e), UNCHANGED configs
    PROVE  /\ Len(frames') = Len(frames) + 1 /\ Len(frames) \in Nat
           /\ \A i \in 0..Len(frames) : \A h : (Said(i, h)' <=> Said(i, h)) /\ Word(i, h)' = Word(i, h)
           /\ \A i, h : i = Len(frames) + 1 =>
                /\ Said(i, h)' <=> e.k = "config" /\ e.g = h
                /\ Word(i, h)' = e.conf
           /\ \A h : Prunes(h) => Prunes(h)'
           /\ \A h : e.k = "processes" /\ h \notin e.live => Prunes(h)'
<1>1. frames \in Seq(Frames)
  BY DEF GatewayOK
<1>2. /\ Len(frames') = Len(frames) + 1 /\ Len(frames) \in Nat
      /\ DOMAIN frames' = 1..(Len(frames) + 1) /\ DOMAIN frames = 1..Len(frames)
      /\ frames'[Len(frames) + 1] = e
      /\ \A i \in DOMAIN frames : frames'[i] = frames[i]
  BY <1>1, AppendFacts
<1>3. \A i \in 0..Len(frames) : \A h : (Said(i, h)' <=> Said(i, h)) /\ Word(i, h)' = Word(i, h)
  BY <1>2 DEF Said, ConfigAt, Word
<1>4. \A i, h : i = Len(frames) + 1 =>
        /\ Said(i, h)' <=> e.k = "config" /\ e.g = h
        /\ Word(i, h)' = e.conf
  BY <1>2 DEF Said, ConfigAt, Word
<1>5. /\ \A h : Prunes(h) => Prunes(h)'
      /\ \A h : e.k = "processes" /\ h \notin e.live => Prunes(h)'
  BY <1>2 DEF Prunes
<1>. QED
  BY <1>2, <1>3, <1>4, <1>5

Old(i, h) == IF i # 0 THEN i + 1 ELSE IF ConfigAt(1, h) THEN 1 ELSE 0

LEMMA Popped ==
    ASSUME Types, ApplyFrame
    PROVE  /\ Len(frames) \in Nat /\ Len(frames) >= 1 /\ Len(frames') = Len(frames) - 1
           /\ \A h : ConfigAt(1, h) <=> Head(frames).k = "config" /\ Head(frames).g = h
           /\ \A i \in 0..Len(frames') : \A h :
                (Said(i, h)' <=> Said(Old(i, h), h)) /\ (Said(i, h)' => Word(i, h)' = Word(Old(i, h), h))
           /\ \A h : Prunes(h) => Prunes(h)' \/ (Head(frames).k = "processes" /\ h \notin Head(frames).live)
<1>1. frames \in Seq(Frames) /\ frames # <<>> /\ frames' = Tail(frames)
  BY Applied DEF Types, GatewayOK
<1>2. /\ Len(frames') = Len(frames) - 1 /\ Len(frames) \in Nat /\ Len(frames) >= 1
      /\ DOMAIN frames' = 1..(Len(frames) - 1) /\ DOMAIN frames = 1..Len(frames)
      /\ Head(frames) = frames[1]
      /\ \A i \in DOMAIN frames' : frames'[i] = frames[i + 1]
  BY <1>1, TailFacts
<1>3. \A h : ConfigAt(1, h) <=> Head(frames).k = "config" /\ Head(frames).g = h
  BY <1>2 DEF ConfigAt
<1>4. \A i \in 1..Len(frames') : \A h :
        (Said(i, h)' <=> Said(i + 1, h)) /\ Word(i, h)' = Word(i + 1, h)
  BY <1>2 DEF Said, ConfigAt, Word
<1>5. ASSUME NEW h
      PROVE  /\ Said(0, h)' <=> Said(Old(0, h), h)
             /\ Said(0, h)' => Word(0, h)' = Word(Old(0, h), h)
  <2>0. ~ ConfigAt(0, h) /\ ~ ConfigAt(0, h)'
    BY <1>2 DEF ConfigAt
  <2>1. CASE Head(frames).k = "config" /\ on_rtn_td_config(Head(frames))
             /\ Head(frames).g \in Gateways /\ Head(frames).conf \in Confs
    <3>1. /\ DOMAIN configs' = DOMAIN configs \cup {Head(frames).g}
          /\ configs'[Head(frames).g] = Head(frames).conf
          /\ \A x \in DOMAIN configs : x # Head(frames).g => configs'[x] = configs[x]
      <4>1. configs' = Put(configs, Head(frames).g, Head(frames).conf)
        BY <2>1 DEF on_rtn_td_config
      <4>2. configs \in ConfMaps
        BY DEF Types, RegistryOK
      <4>3. PICK g \in Gateways, cf \in Confs : g = Head(frames).g /\ cf = Head(frames).conf
        BY <2>1
      <4>4. /\ DOMAIN Put(configs, g, cf) = DOMAIN configs \cup {g}
            /\ Put(configs, g, cf)[g] = cf
            /\ \A x \in DOMAIN configs : x # g => Put(configs, g, cf)[x] = configs[x]
        BY <4>2, PutConfig
      <4>. QED
        BY <4>1, <4>3, <4>4
    <3>. QED
      BY <1>2, <1>3, <2>0, <2>1, <3>1 DEF Said, Word, Old
  <2>2. CASE Head(frames).k = "processes" /\ on_rtn_process_config(Head(frames))
    <3>1. UNCHANGED configs
      BY <2>2 DEF on_rtn_process_config
    <3>. QED
      BY <1>3, <2>0, <2>2, <3>1 DEF Said, Word, Old
  <2>. QED
    BY <2>1, <2>2, Applied DEF Types
<1>6. \A i \in 0..Len(frames') : \A h :
        (Said(i, h)' <=> Said(Old(i, h), h)) /\ (Said(i, h)' => Word(i, h)' = Word(Old(i, h), h))
  <2>1. ASSUME NEW i \in 0..Len(frames'), NEW h
        PROVE  (Said(i, h)' <=> Said(Old(i, h), h)) /\ (Said(i, h)' => Word(i, h)' = Word(Old(i, h), h))
    <3>1. CASE i = 0
      BY <1>5, <3>1
    <3>2. CASE i # 0
      <4>1. i \in 1..Len(frames') /\ Old(i, h) = i + 1
        BY <1>2, <3>2 DEF Old
      <4>. QED
        BY <1>4, <4>1
    <3>. QED
      BY <3>1, <3>2
  <2>. QED
    BY <2>1
<1>7. ASSUME NEW h, Prunes(h)
      PROVE  Prunes(h)' \/ (Head(frames).k = "processes" /\ h \notin Head(frames).live)
  <2>1. PICK i \in DOMAIN frames : frames[i].k = "processes" /\ h \notin frames[i].live
    BY <1>7 DEF Prunes
  <2>2. CASE i = 1
    BY <1>2, <2>1, <2>2
  <2>3. CASE i # 1
    <3>1. i - 1 \in DOMAIN frames' /\ frames'[i - 1] = frames[i]
      BY <1>2, <2>3
    <3>. QED
      BY <2>1, <3>1 DEF Prunes
  <2>. QED
    BY <2>2, <2>3
<1>. QED
  BY <1>2, <1>3, <1>6, <1>7

(* A report and what the master says, as they are written. *)
LEMMA Writes ==
    ASSUME Types, Types'
    PROVE  /\ \A g : ReportStep(g) =>
                Report(g) \in Frames /\ Report(g).k = "config" /\ Report(g).g = g /\ Report(g).conf = own'[g]
           /\ ProcessStep => Processes \in Frames /\ Processes.k = "processes" /\ Processes.live = live'
<1>1. \A g \in Gateways : own'[g] \in Confs
  BY DEF Types, GatewayOK
<1>2. live' \in SUBSET Gateways
  BY DEF Types, GatewayOK
<1>. QED
  BY <1>1, <1>2, ConfigFrame DEF ReportStep, Report, Processes, Frames

(* The last word of a gateway is what it has: it reports every change. *)
LEMMA ReportedKept ==
    ASSUME Types, Types', Spoken, WorldStep
    PROVE  Spoken'
<1>0. Len(frames) \in Nat /\ Len(frames') \in Nat
  BY DEF Types, GatewayOK
<1>1. ASSUME NEW g, ReportStep(g)
      PROVE  Spoken'
  <2>1. /\ g \in Gateways /\ Len(frames') = Len(frames) + 1
        /\ \A i \in 0..Len(frames) : \A h : (Said(i, h)' <=> Said(i, h)) /\ Word(i, h)' = Word(i, h)
        /\ \A i, h : i = Len(frames) + 1 => (Said(i, h)' <=> g = h) /\ Word(i, h)' = own'[g]
    BY <1>1, Writes, Grown DEF ReportStep, Types
  <2>2. ASSUME NEW h \in Gateways, NEW i \in 0..Len(frames'), LastWord(i, h)'
        PROVE  Word(i, h)' = own'[h]
    <3>0. Said(i, h)' /\ \A j \in 0..Len(frames') : j > i => ~ Said(j, h)'
      BY <2>2 DEF LastWord
    <3>1. CASE h = g
      <4>1. i = Len(frames) + 1
        BY <1>0, <2>1, <3>0, <3>1
      <4>. QED
        BY <2>1, <3>1, <4>1
    <3>2. CASE h # g
      <4>1. i \in 0..Len(frames)
        BY <1>0, <2>1, <3>0, <3>2
      <4>2. LastWord(i, h)
        BY <1>0, <2>1, <3>0, <4>1 DEF LastWord
      <4>3. Word(i, h) = own[h]
        BY <4>1, <4>2 DEF Spoken
      <4>. QED
        BY <1>1, <2>1, <3>2, <4>1, <4>3 DEF ReportStep
    <3>. QED
      BY <3>1, <3>2
  <2>3. ASSUME NEW h \in Gateways, h \in up'
        PROVE  h \in asked' \/ \E i \in 0..Len(frames') : Said(i, h)'
    <3>1. CASE h = g
      BY <1>0, <2>1, <3>1
    <3>2. CASE h # g
      <4>1. h \in asked \/ \E i \in 0..Len(frames) : Said(i, h)
        BY <1>1, <2>3, <3>2 DEF ReportStep, Spoken
      <4>2. CASE h \in asked
        BY <1>1, <3>2, <4>2 DEF ReportStep
      <4>3. CASE \E i \in 0..Len(frames) : Said(i, h)
        BY <1>0, <2>1, <4>3
      <4>. QED
        BY <4>1, <4>2, <4>3
    <3>. QED
      BY <3>1, <3>2
  <2>. QED
    BY <2>2, <2>3 DEF Spoken
<1>2. CASE ProcessStep
  <2>1. /\ Len(frames') = Len(frames) + 1
        /\ \A i \in 0..Len(frames) : \A h : (Said(i, h)' <=> Said(i, h)) /\ Word(i, h)' = Word(i, h)
        /\ \A i, h : i = Len(frames) + 1 => ~ Said(i, h)'
    BY <1>2, Writes, Grown DEF ProcessStep, Types
  <2>2. ASSUME NEW h \in Gateways, NEW i \in 0..Len(frames'), LastWord(i, h)'
        PROVE  Word(i, h)' = own'[h]
    <3>0. Said(i, h)' /\ \A j \in 0..Len(frames') : j > i => ~ Said(j, h)'
      BY <2>2 DEF LastWord
    <3>1. i \in 0..Len(frames)
      BY <1>0, <2>1, <3>0
    <3>2. LastWord(i, h)
      BY <1>0, <2>1, <3>0, <3>1 DEF LastWord
    <3>. QED
      BY <1>2, <2>1, <3>1, <3>2 DEF ProcessStep, Spoken
  <2>3. ASSUME NEW h \in Gateways, h \in up'
        PROVE  h \in asked' \/ \E i \in 0..Len(frames') : Said(i, h)'
    <3>1. h \in asked \/ \E i \in 0..Len(frames) : Said(i, h)
      BY <1>2, <2>3 DEF ProcessStep, Spoken
    <3>2. CASE h \in asked
      BY <1>2, <3>2, AccountAssumption DEF ProcessStep
    <3>3. CASE \E i \in 0..Len(frames) : Said(i, h)
      BY <1>0, <2>1, <3>3
    <3>. QED
      BY <3>1, <3>2, <3>3
  <2>. QED
    BY <2>2, <2>3 DEF Spoken
<1>3. CASE ApplyFrame
  <2>1. /\ Len(frames') = Len(frames) - 1
        /\ \A i \in 0..Len(frames') : \A h :
             (Said(i, h)' <=> Said(Old(i, h), h)) /\ (Said(i, h)' => Word(i, h)' = Word(Old(i, h), h))
    BY <1>3, Popped
  <2>2. UNCHANGED <<own, up, asked>>
    BY <1>3 DEF ApplyFrame, gateways
  <2>3. ASSUME NEW h \in Gateways, NEW i \in 0..Len(frames'), LastWord(i, h)'
        PROVE  Word(i, h)' = own'[h]
    <3>0. Said(i, h)' /\ \A j \in 0..Len(frames') : j > i => ~ Said(j, h)'
      BY <2>3 DEF LastWord
    <3>1. Old(i, h) \in 0..Len(frames)
      BY <1>0, <2>1 DEF Old
    <3>2. ASSUME NEW j \in 0..Len(frames), j > Old(i, h), Said(j, h)
          PROVE  FALSE
      <4>1. CASE j >= 2
        <5>1. j - 1 \in 0..Len(frames') /\ j - 1 > i /\ Old(j - 1, h) = j
          BY <1>0, <2>1, <3>2, <4>1 DEF Old
        <5>. QED
          BY <2>1, <3>0, <3>2, <5>1
      <4>2. CASE j = 1
        <5>1. ~ ConfigAt(1, h)
          BY <3>2, <4>2 DEF Old
        <5>. QED
          BY <3>2, <4>2, <5>1 DEF Said
      <4>. QED
        BY <1>0, <3>1, <3>2, <4>1, <4>2
    <3>3. LastWord(Old(i, h), h)
      BY <2>1, <3>0, <3>2 DEF LastWord
    <3>4. Word(Old(i, h), h) = own[h]
      BY <3>1, <3>3 DEF Spoken
    <3>. QED
      BY <2>1, <2>2, <3>0, <3>4
  <2>4. ASSUME NEW h \in Gateways, NEW i \in 0..Len(frames), Said(i, h)
        PROVE  \E j \in 0..Len(frames') : Said(j, h)'
    <3>1. CASE i >= 2
      <4>1. i - 1 \in 0..Len(frames') /\ Old(i - 1, h) = i
        BY <1>0, <2>1, <3>1 DEF Old
      <4>. QED
        BY <2>1, <2>4, <4>1
    <3>2. CASE i \in {0, 1}
      <4>1. Said(Old(0, h), h)
        BY <2>4, <3>2 DEF Old, Said
      <4>. QED
        BY <1>0, <2>1, <4>1
    <3>. QED
      BY <1>0, <3>1, <3>2
  <2>. QED
    BY <2>2, <2>3, <2>4 DEF Spoken
<1>4. CASE ServerRestarts
  <2>1. /\ UNCHANGED <<own, up>> /\ up' \subseteq asked'
        /\ \A i \in 0..Len(frames') : \A h : ~ Said(i, h)'
    BY <1>4, NoElements DEF ServerRestarts, Said, ConfigAt
  <2>. QED
    BY <2>1 DEF Spoken, LastWord
<1>5. CASE ExitStep
  BY <1>5 DEF ExitStep, Spoken, LastWord, Said, ConfigAt, Word
<1>6. CASE WorldSame
  BY <1>6 DEF WorldSame, Spoken, LastWord, Said, ConfigAt, Word
<1>. QED
  BY <1>1, <1>2, <1>3, <1>4, <1>5, <1>6 DEF WorldStep

(* Words that were true at the same time do not share an account. *)
LEMMA ApartKept ==
    ASSUME Types, Types', Alone', Spoken, Apart, WorldStep
    PROVE  Apart'
<1>0. Len(frames) \in Nat /\ Len(frames') \in Nat
  BY DEF Types, GatewayOK
<1>1. ASSUME NEW x, ReportStep(x)
      PROVE  Apart'
  <2>1. /\ x \in Gateways /\ Len(frames') = Len(frames) + 1 /\ contested \subseteq contested'
        /\ \A i \in 0..Len(frames) : \A h : (Said(i, h)' <=> Said(i, h)) /\ Word(i, h)' = Word(i, h)
        /\ \A i, h : i = Len(frames) + 1 => (Said(i, h)' <=> x = h) /\ Word(i, h)' = own'[x]
    BY <1>1, Writes, Grown DEF ReportStep, Types
  <2>2. ASSUME NEW a \in Accounts \ contested', NEW g \in Gateways, NEW h \in Gateways,
               NEW i \in 0..Len(frames'), NEW j \in 0..Len(frames'),
               g # h, Said(i, g)', Standing(j, h, i)'
        PROVE  ~ (a \in Holds(Word(i, g)') /\ a \in Holds(Word(j, h)'))
    <3>0. j <= i /\ Said(j, h)' /\ \A k \in 0..i : j < k => ~ Said(k, h)'
      BY <2>2 DEF Standing
    <3>1. CASE i \in 0..Len(frames)
      <4>1. j \in 0..Len(frames) /\ Said(i, g) /\ Standing(j, h, i)
        BY <1>0, <2>1, <2>2, <3>0, <3>1 DEF Standing
      <4>2. a \in Accounts \ contested
        BY <2>1
      <4>3. ~ (a \in Holds(Word(i, g)) /\ a \in Holds(Word(j, h)))
        BY <2>2, <3>1, <4>1, <4>2 DEF Apart
      <4>. QED
        BY <2>1, <3>1, <4>1, <4>3
    <3>2. CASE i \notin 0..Len(frames)
      <4>1. i = Len(frames) + 1 /\ x = g
        BY <1>0, <2>1, <2>2, <3>2
      <4>2. j \in 0..Len(frames) /\ LastWord(j, h)
        BY <1>0, <2>1, <2>2, <3>0, <4>1 DEF LastWord
      <4>3. Word(j, h) = own[h]
        BY <4>2 DEF Spoken
      <4>4. Word(i, g)' = own'[g] /\ Word(j, h)' = own'[h]
        BY <1>1, <2>1, <2>2, <4>1, <4>2, <4>3 DEF ReportStep
      <4>. QED
        BY <2>2, <4>4 DEF Alone, Holds
    <3>. QED
      BY <3>1, <3>2
  <2>. QED
    BY <2>2 DEF Apart, Holds
<1>2. CASE ProcessStep
  <2>1. /\ Len(frames') = Len(frames) + 1 /\ contested' = contested
        /\ \A i \in 0..Len(frames) : \A h : (Said(i, h)' <=> Said(i, h)) /\ Word(i, h)' = Word(i, h)
        /\ \A i, h : i = Len(frames) + 1 => ~ Said(i, h)'
    BY <1>2, Writes, Grown DEF ProcessStep, Types
  <2>2. ASSUME NEW a \in Accounts \ contested', NEW g \in Gateways, NEW h \in Gateways,
               NEW i \in 0..Len(frames'), NEW j \in 0..Len(frames'),
               g # h, Said(i, g)', Standing(j, h, i)'
        PROVE  ~ (a \in Holds(Word(i, g)') /\ a \in Holds(Word(j, h)'))
    <3>0. j <= i /\ Said(j, h)' /\ \A k \in 0..i : j < k => ~ Said(k, h)'
      BY <2>2 DEF Standing
    <3>1. i \in 0..Len(frames)
      BY <1>0, <2>1, <2>2
    <3>2. j \in 0..Len(frames) /\ Said(i, g) /\ Standing(j, h, i)
      BY <1>0, <2>1, <2>2, <3>0, <3>1 DEF Standing
    <3>3. ~ (a \in Holds(Word(i, g)) /\ a \in Holds(Word(j, h)))
      BY <2>1, <2>2, <3>1, <3>2 DEF Apart
    <3>. QED
      BY <2>1, <3>1, <3>2, <3>3
  <2>. QED
    BY <2>2 DEF Apart, Holds
<1>3. CASE ApplyFrame
  <2>1. /\ Len(frames') = Len(frames) - 1 /\ Len(frames) >= 1
        /\ \A h : ConfigAt(1, h) <=> Head(frames).k = "config" /\ Head(frames).g = h
        /\ \A i \in 0..Len(frames') : \A h :
             (Said(i, h)' <=> Said(Old(i, h), h)) /\ (Said(i, h)' => Word(i, h)' = Word(Old(i, h), h))
    BY <1>3, Popped
  <2>2. contested' = contested
    BY <1>3 DEF ApplyFrame
  <2>3. ASSUME NEW a \in Accounts \ contested', NEW g \in Gateways, NEW h \in Gateways,
               NEW i \in 0..Len(frames'), NEW j \in 0..Len(frames'),
               g # h, Said(i, g)', Standing(j, h, i)'
        PROVE  ~ (a \in Holds(Word(i, g)') /\ a \in Holds(Word(j, h)'))
    <3>0. j <= i /\ Said(j, h)' /\ \A k \in 0..i : j < k => ~ Said(k, h)'
      BY <2>3 DEF Standing
    <3>1. /\ Old(i, g) \in 0..Len(frames) /\ Old(j, h) \in 0..Len(frames)
          /\ Said(Old(i, g), g) /\ Word(i, g)' = Word(Old(i, g), g)
          /\ Said(Old(j, h), h) /\ Word(j, h)' = Word(Old(j, h), h)
      BY <1>0, <2>1, <2>3, <3>0 DEF Old
    <3>2. ~ (ConfigAt(1, g) /\ ConfigAt(1, h))
      BY <2>1, <2>3
    <3>3. CASE Standing(Old(j, h), h, Old(i, g))
      BY <2>2, <2>3, <3>1, <3>3 DEF Apart
    <3>4. CASE Standing(Old(i, g), g, Old(j, h))
      BY <2>2, <2>3, <3>1, <3>4 DEF Apart
    <3>5. CASE i = 0 /\ ConfigAt(1, h)
      <4>1. j = 0 /\ Old(i, g) = 0 /\ Old(j, h) = 1 /\ ~ Said(1, g)
        BY <3>0, <3>2, <3>5 DEF Old, Said
      <4>2. Standing(Old(i, g), g, Old(j, h))
        BY <3>1, <4>1 DEF Standing
      <4>. QED
        BY <3>4, <4>2
    <3>6. CASE i # 0 \/ ~ ConfigAt(1, h)
      <4>1. Old(j, h) <= Old(i, g)
        BY <1>0, <2>3, <3>0, <3>6 DEF Old
      <4>2. ASSUME NEW k \in 0..Old(i, g), Old(j, h) < k, Said(k, h)
            PROVE  FALSE
        <5>1. CASE k >= 2
          <6>1. /\ k - 1 \in 0..Len(frames') /\ k - 1 \in 0..i /\ j < k - 1
                /\ Old(k - 1, h) = k
            BY <1>0, <2>1, <2>3, <4>2, <5>1 DEF Old
          <6>. QED
            BY <2>1, <3>0, <4>2, <6>1
        <5>2. CASE k = 1
          <6>1. ~ ConfigAt(1, h)
            BY <1>0, <2>3, <4>2, <5>2 DEF Old
          <6>. QED
            BY <4>2, <5>2, <6>1 DEF Said
        <5>. QED
          BY <1>0, <2>3, <4>2, <5>1, <5>2 DEF Old
      <4>3. Standing(Old(j, h), h, Old(i, g))
        BY <3>1, <4>1, <4>2 DEF Standing
      <4>. QED
        BY <3>3, <4>3
    <3>. QED
      BY <3>5, <3>6
  <2>. QED
    BY <2>3 DEF Apart, Holds
<1>4. CASE ServerRestarts
  <2>1. \A i \in 0..Len(frames') : \A h : ~ Said(i, h)'
    BY <1>4, NoElements DEF ServerRestarts, Said, ConfigAt
  <2>. QED
    BY <2>1 DEF Apart
<1>5. CASE ExitStep \/ WorldSame
  BY <1>5 DEF ExitStep, WorldSame, Apart, Standing, Said, ConfigAt, Word, Holds
<1>. QED
  BY <1>1, <1>2, <1>3, <1>4, <1>5 DEF WorldStep

(* The registry as a report of x is applied to it. *)
LEMMA ReportApplied ==
    ASSUME Types, NEW x \in Gateways, NEW cf \in Confs,
           entries' = reconcile_gateway(entries, x, cf)
    PROVE  /\ \A a \in Holds(cf) : a \in DOMAIN entries' /\ entries'[a].gw = x
                                     /\ entries'[a].on = (cf[a] = "on")
           /\ \A a \in DOMAIN entries' : a \notin Holds(cf) =>
                a \in DOMAIN entries /\ entries[a].gw # x /\ entries'[a] = entries[a]
           /\ \A a \in DOMAIN entries : entries[a].gw # x /\ a \notin Holds(cf) =>
                a \in DOMAIN entries' /\ entries'[a] = entries[a]
<1>. DEFINE D == {a \in DOMAIN entries : entries[a].gw # x} \cup Holds(cf)
            R(a) == [gw |-> x, on |-> cf[a] = "on"]
<1>1. entries' = [a \in D |-> IF a \in Holds(cf) THEN R(a) ELSE entries[a]]
  BY DEF reconcile_gateway
<1>2. \A a : R(a).gw = x /\ R(a).on = (cf[a] = "on")
  OBVIOUS
<1>. HIDE DEF R
<1>. QED
  BY <1>1, <1>2

(* What the registry has is what the mirror says. *)
LEMMA KeptKept ==
    ASSUME Types, Types', Apart, Kept, WorldStep
    PROVE  Kept'
<1>0. Len(frames) \in Nat /\ Len(frames') \in Nat
  BY DEF Types, GatewayOK
<1>1. ASSUME NEW x, ReportStep(x)
      PROVE  Kept'
  <2>1. \A g : Prunes(g) => Prunes(g)'
    BY <1>1, Writes, Grown DEF ReportStep, Types
  <2>2. \A g : Configured(g) => Configured(g)'
    BY <1>1, <2>1, AccountAssumption DEF ReportStep, Configured
  <2>3. \A a : True(a) => True(a)'
    BY <1>1 DEF ReportStep, True
  <2>4. \A a, g : KeptFor(a, g) => KeptFor(a, g)'
    BY <1>1 DEF ReportStep, KeptFor
  <2>5. \A a : Backed(a) => Backed(a)'
    BY <1>1, <2>2, <2>3 DEF ReportStep, Backed, Configured
  <2>. QED
    BY <1>1, <2>4, <2>5 DEF ReportStep, Kept
<1>2. CASE ProcessStep
  <2>1. \A g : (Prunes(g) => Prunes(g)') /\ (g \notin live' => Prunes(g)')
    BY <1>2, Writes, Grown DEF ProcessStep, Types
  <2>2. \A g : Configured(g) => Configured(g)'
    BY <1>2, <2>1 DEF ProcessStep, Configured
  <2>3. \A a : True(a) => True(a)'
    BY <1>2 DEF ProcessStep, True
  <2>4. \A a, g : KeptFor(a, g) => KeptFor(a, g)'
    BY <1>2 DEF ProcessStep, KeptFor
  <2>5. \A a : Backed(a) => Backed(a)'
    BY <1>2, <2>2, <2>3 DEF ProcessStep, Backed, Configured
  <2>. QED
    BY <1>2, <2>4, <2>5 DEF ProcessStep, Kept
<1>3. CASE ApplyFrame /\ Head(frames).k = "config"
  <2>1. PICK x \in Gateways, cf \in Confs :
          /\ x = Head(frames).g /\ cf = Head(frames).conf
          /\ on_rtn_td_config(Head(frames))
    BY <1>3, Applied DEF Types
  <2>2. /\ configs' = Put(configs, x, cf)
        /\ entries' = reconcile_gateway(entries, x, cf)
        /\ stray' = IF x \in live THEN stray \ {x} ELSE stray \cup {x}
        /\ UNCHANGED <<live, asked, contested>>
    BY <1>3, <2>1 DEF on_rtn_td_config, ApplyFrame, gateways
  <2>3. /\ DOMAIN configs' = DOMAIN configs \cup {x} /\ configs'[x] = cf
        /\ \A g \in DOMAIN configs : g # x => configs'[g] = configs[g]
    BY <2>2, PutConfig DEF Types, RegistryOK
  <2>4. /\ \A a \in Holds(cf) : a \in DOMAIN entries' /\ entries'[a].gw = x
                                  /\ entries'[a].on = (cf[a] = "on")
        /\ \A a \in DOMAIN entries' : a \notin Holds(cf) =>
             a \in DOMAIN entries /\ entries[a].gw # x /\ entries'[a] = entries[a]
        /\ \A a \in DOMAIN entries : entries[a].gw # x /\ a \notin Holds(cf) =>
             a \in DOMAIN entries' /\ entries'[a] = entries[a]
    BY <2>2, ReportApplied, Zenon
  <2>5. \A g : Prunes(g) => Prunes(g)'
    BY <1>3, Popped
  <2>6. ASSUME NEW a \in Accounts \ contested, NEW g \in Gateways
        PROVE  KeptFor(a, g)'
    <3>1. CASE g = x
      BY <2>3, <2>4, <3>1 DEF KeptFor
    <3>2. CASE g # x
      <4>1. SUFFICES ASSUME g \in DOMAIN configs', g \notin stray', a \in Holds(configs'[g])
                     PROVE  a \in DOMAIN entries' /\ entries'[a].gw = g
        BY DEF KeptFor
      <4>2. g \in DOMAIN configs /\ g \notin stray /\ configs'[g] = configs[g]
        BY <2>2, <2>3, <3>2, <4>1
      <4>3. a \in DOMAIN entries /\ entries[a].gw = g
        BY <4>1, <4>2 DEF Kept, KeptFor
      <4>4. a \notin Holds(cf)
        <5>1. /\ 1 \in 0..Len(frames) /\ 0 \in 0..Len(frames)
              /\ ConfigAt(1, x) /\ ~ ConfigAt(1, g) /\ Word(1, x) = cf
          BY <1>3, <2>1, <3>2, Applied, Popped DEF ConfigAt, Word, Types
        <5>2. Said(1, x) /\ Standing(0, g, 1) /\ Word(0, g) = configs[g]
          BY <4>2, <5>1 DEF Said, Standing, Word
        <5>. QED
          BY <3>2, <4>1, <4>2, <5>1, <5>2 DEF Apart
      <4>. QED
        BY <2>4, <3>2, <4>3, <4>4
    <3>. QED
      BY <3>1, <3>2
  <2>7. ASSUME NEW a \in DOMAIN entries'
        PROVE  Backed(a)'
    <3>1. CASE a \in Holds(cf)
      <4>1. entries'[a].gw = x /\ entries'[a].on = (cf[a] = "on")
        BY <2>4, <3>1
      <4>2. True(a)'
        BY <2>3, <3>1, <4>1 DEF True
      <4>3. Configured(entries[a].gw)'
        BY <2>2, <4>1 DEF Configured
      <4>. QED
        BY <4>2, <4>3 DEF Backed
    <3>2. CASE a \notin Holds(cf)
      <4>1. a \in DOMAIN entries /\ entries[a].gw # x /\ entries'[a] = entries[a]
        BY <2>4, <3>2
      <4>2. True(a) /\ Configured(entries[a].gw)
        BY <4>1 DEF Kept, Backed
      <4>3. True(a)'
        BY <2>3, <4>1, <4>2 DEF True
      <4>4. PICK g : g = entries[a].gw
        OBVIOUS
      <4>5. Configured(g)'
        BY <2>2, <2>5, <4>1, <4>2, <4>4 DEF Configured
      <4>6. Configured(entries[a].gw)'
        BY <4>1, <4>4, <4>5 DEF Configured, Prunes
      <4>. QED
        BY <4>3, <4>6 DEF Backed
    <3>. QED
      BY <3>1, <3>2
  <2>. QED
    BY <2>2, <2>6, <2>7 DEF Kept
<1>4. CASE ApplyFrame /\ Head(frames).k # "config"
  <2>. DEFINE f == Head(frames)
  <2>1. f.k = "processes" /\ on_rtn_process_config(f)
    BY <1>4, Applied DEF Types
  <2>2. /\ UNCHANGED <<configs, live, asked, contested>>
        /\ entries' = prune_gateways_not_in(entries, f.live)
        /\ stray' = stray \cup (Owners(entries) \ f.live)
    BY <1>4, <2>1 DEF on_rtn_process_config, ApplyFrame, gateways
  <2>3. /\ DOMAIN entries' = {a \in DOMAIN entries : entries[a].gw \in f.live}
        /\ \A a \in DOMAIN entries' : entries'[a] = entries[a]
    BY <2>2, Pruned DEF Types, RegistryOK
  <2>4. \A g : Prunes(g) => Prunes(g)' \/ g \notin f.live
    BY <1>4, Popped
  <2>5. ASSUME NEW a \in Accounts \ contested, NEW g \in Gateways
        PROVE  KeptFor(a, g)'
    <3>1. KeptFor(a, g)
      BY <2>2 DEF Kept
    <3>. QED
      BY <2>2, <2>3, <3>1 DEF KeptFor, Owners
  <2>6. ASSUME NEW a \in DOMAIN entries'
        PROVE  Backed(a)'
    <3>1. a \in DOMAIN entries /\ entries[a].gw \in f.live /\ entries'[a] = entries[a]
      BY <2>3
    <3>2. True(a) /\ Configured(entries[a].gw)
      BY <3>1 DEF Kept, Backed
    <3>3. True(a)'
      BY <2>2, <3>1, <3>2 DEF True
    <3>4. PICK g : g = entries[a].gw
      OBVIOUS
    <3>5. Configured(g)'
      BY <2>2, <2>4, <3>1, <3>2, <3>4 DEF Configured
    <3>6. Configured(entries[a].gw)'
      BY <3>1, <3>4, <3>5 DEF Configured, Prunes
    <3>. QED
      BY <3>3, <3>6 DEF Backed
  <2>. QED
    BY <2>2, <2>5, <2>6 DEF Kept
<1>5. CASE ServerRestarts
  BY <1>5, NoElements DEF ServerRestarts, Kept, KeptFor, Backed, True, Configured
<1>6. CASE ExitStep \/ WorldSame
  BY <1>6, AccountAssumption DEF ExitStep, WorldSame, Kept, KeptFor, Backed, True, Configured, Prunes
<1>. QED
  BY <1>1, <1>2, <1>3, <1>4, <1>5, <1>6 DEF WorldStep

(* The table follows the registry, gateway by gateway. *)
LEMMA StoreKept ==
    ASSUME Types, StoreFollows, WorldStep
    PROVE  StoreFollows'
<1>1. CASE ApplyFrame /\ Head(frames).k = "config"
  <2>1. PICK x \in Gateways, cf \in Confs :
          /\ x = Head(frames).g /\ cf = Head(frames).conf
          /\ on_rtn_td_config(Head(frames))
    BY <1>1, Applied DEF Types
  <2>2. entries' = reconcile_gateway(entries, x, cf)
    BY <2>1 DEF on_rtn_td_config
  <2>3. /\ \A a \in Holds(cf) : a \in DOMAIN entries' /\ entries'[a].gw = x
                                  /\ entries'[a].on = (cf[a] = "on")
        /\ \A a \in DOMAIN entries' : a \notin Holds(cf) =>
             a \in DOMAIN entries /\ entries[a].gw # x /\ entries'[a] = entries[a]
        /\ \A a \in DOMAIN entries : entries[a].gw # x /\ a \notin Holds(cf) =>
             a \in DOMAIN entries' /\ entries'[a] = entries[a]
    BY <2>2, ReportApplied, Zenon
  <2>4. CASE store' = replace_gateway(store, x, Holds(cf)) /\ unsaved' = unsaved \ {x}
    <3>1. /\ DOMAIN store' = {b \in DOMAIN store : store[b] # x} \cup Holds(cf)
          /\ \A a \in Holds(cf) : store'[a] = x
          /\ \A a \in DOMAIN store' : a \notin Holds(cf) => store'[a] = store[a]
      BY <2>4 DEF replace_gateway
    <3>2. ASSUME NEW a \in Accounts, NEW g \in Gateways \ unsaved'
          PROVE  (a \in DOMAIN store' /\ store'[a] = g) <=> (a \in DOMAIN entries' /\ entries'[a].gw = g)
      <4>1. CASE a \in Holds(cf)
        BY <2>3, <3>1, <4>1
      <4>2. CASE a \notin Holds(cf) /\ g = x
        BY <2>3, <3>1, <4>2
      <4>3. CASE a \notin Holds(cf) /\ g # x
        <5>1. (a \in DOMAIN store /\ store[a] = g) <=> (a \in DOMAIN entries /\ entries[a].gw = g)
          BY <2>4, <4>3 DEF StoreFollows
        <5>2. (a \in DOMAIN store' /\ store'[a] = g) <=> (a \in DOMAIN store /\ store[a] = g)
          BY <3>1, <4>3
        <5>3. (a \in DOMAIN entries' /\ entries'[a].gw = g) <=> (a \in DOMAIN entries /\ entries[a].gw = g)
          BY <2>3, <4>3
        <5>. QED
          BY <5>1, <5>2, <5>3
      <4>. QED
        BY <4>1, <4>2, <4>3
    <3>. QED
      BY <3>2 DEF StoreFollows
  <2>5. CASE /\ UNCHANGED store
             /\ unsaved' = unsaved \cup {x} \cup Owners(Restrict(entries, Taken(x, cf)))
    <3>1. ASSUME NEW a \in Holds(cf) \cap DOMAIN entries, entries[a].gw # x
          PROVE  entries[a].gw \in unsaved'
      <4>1. a \in Taken(x, cf) /\ Taken(x, cf) \subseteq DOMAIN entries
        BY <3>1 DEF Taken
      <4>2. entries[a].gw \in Owners(Restrict(entries, Taken(x, cf)))
        BY <4>1 DEF Owners, Restrict
      <4>. QED
        BY <2>5, <4>2
    <3>2. ASSUME NEW a \in Accounts, NEW g \in Gateways \ unsaved'
          PROVE  (a \in DOMAIN store' /\ store'[a] = g) <=> (a \in DOMAIN entries' /\ entries'[a].gw = g)
      <4>1. g # x /\ g \notin unsaved
        BY <2>5
      <4>2. (a \in DOMAIN store /\ store[a] = g) <=> (a \in DOMAIN entries /\ entries[a].gw = g)
        BY <4>1 DEF StoreFollows
      <4>3. (a \in DOMAIN entries' /\ entries'[a].gw = g) <=> (a \in DOMAIN entries /\ entries[a].gw = g)
        BY <2>3, <3>1, <4>1
      <4>. QED
        BY <2>5, <4>2, <4>3
    <3>. QED
      BY <3>2 DEF StoreFollows
  <2>. QED
    BY <2>1, <2>4, <2>5 DEF on_rtn_td_config
<1>2. CASE ApplyFrame /\ Head(frames).k # "config"
  <2>. DEFINE f == Head(frames)
              gone == Owners(entries) \ f.live
  <2>1. on_rtn_process_config(f)
    BY <1>2, Applied DEF Types
  <2>2. PICK failed \in SUBSET gone :
          /\ store' = Restrict(store, {a \in DOMAIN store : store[a] \notin gone \ failed})
          /\ unsaved' = unsaved \cup failed
    BY <2>1 DEF on_rtn_process_config
  <2>3. /\ DOMAIN entries' = {a \in DOMAIN entries : entries[a].gw \in f.live}
        /\ \A a \in DOMAIN entries' : entries'[a] = entries[a]
    BY <2>1, Pruned DEF on_rtn_process_config, Types, RegistryOK
  <2>4. /\ DOMAIN store' = {a \in DOMAIN store : store[a] \notin gone \ failed}
        /\ \A a \in DOMAIN store' : store'[a] = store[a]
    BY <2>2 DEF Restrict
  <2>5. \A a \in DOMAIN entries : entries[a].gw \in gone <=> entries[a].gw \notin f.live
    BY DEF Owners
  <2>6. ASSUME NEW a \in Accounts, NEW g \in Gateways \ unsaved'
        PROVE  (a \in DOMAIN store' /\ store'[a] = g) <=> (a \in DOMAIN entries' /\ entries'[a].gw = g)
    <3>1. (a \in DOMAIN store /\ store[a] = g) <=> (a \in DOMAIN entries /\ entries[a].gw = g)
      BY <2>2 DEF StoreFollows
    <3>2. g \notin failed
      BY <2>2
    <3>. HIDE DEF gone
    <3>. QED
      BY <2>3, <2>4, <2>5, <3>1, <3>2
  <2>. QED
    BY <2>6 DEF StoreFollows
<1>3. CASE ServerRestarts
  BY <1>3, Loaded DEF ServerRestarts, StoreFollows, Types, RegistryOK
<1>4. CASE (\E g : ReportStep(g)) \/ ProcessStep \/ ExitStep \/ WorldSame
  BY <1>4 DEF ReportStep, ProcessStep, ExitStep, WorldSame, StoreFollows
<1>. QED
  BY <1>1, <1>2, <1>3, <1>4 DEF WorldStep

-----------------------------------------------------------------------------
(* What is sent to the page. *)
LEMMA SentGrown ==
    ASSUME sent \in Seq(Messages), NEW msgs \in Seq(Messages), sent' = sent \o msgs, UNCHANGED list
    PROVE  /\ Len(sent') = Len(sent) + Len(msgs) /\ Len(sent) \in Nat /\ Len(msgs) \in Nat
           /\ DOMAIN sent' = 1..(Len(sent) + Len(msgs)) /\ DOMAIN sent = 1..Len(sent)
           /\ DOMAIN msgs = 1..Len(msgs)
           /\ \A i \in DOMAIN sent : sent'[i] = sent[i]
           /\ \A i \in DOMAIN msgs : sent'[Len(sent) + i] = msgs[i]
           /\ \A i \in 0..Len(sent) : \A g : (Seen(i, g)' <=> Seen(i, g)) /\ Value(i, g)' = Value(i, g)
           /\ \A n \in DOMAIN msgs : \A i, g : i = Len(sent) + n =>
                (Seen(i, g)' <=> Carries(msgs[n], g)) /\ Value(i, g)' = Carried(msgs[n], g)
<1>1. /\ Len(sent') = Len(sent) + Len(msgs) /\ Len(sent) \in Nat /\ Len(msgs) \in Nat
      /\ DOMAIN sent' = 1..(Len(sent) + Len(msgs)) /\ DOMAIN sent = 1..Len(sent)
      /\ DOMAIN msgs = 1..Len(msgs)
      /\ \A i \in DOMAIN sent : sent'[i] = sent[i]
      /\ \A i \in DOMAIN msgs : sent'[Len(sent) + i] = msgs[i]
  BY ConcatFacts
<1>2. \A i \in 0..Len(sent) : \A g : (Seen(i, g)' <=> Seen(i, g)) /\ Value(i, g)' = Value(i, g)
  BY <1>1 DEF Seen, Value
<1>3. \A n \in DOMAIN msgs : \A i, g : i = Len(sent) + n =>
        (Seen(i, g)' <=> Carries(msgs[n], g)) /\ Value(i, g)' = Carried(msgs[n], g)
  BY <1>1 DEF Seen, Value
<1>. QED
  BY <1>1, <1>2, <1>3

LEMMA TwoMessages ==
    ASSUME NEW d \in Messages, NEW m \in Messages
    PROVE  /\ <<d>> \o <<m>> \in Seq(Messages) /\ Len(<<d>> \o <<m>>) = 2
           /\ (<<d>> \o <<m>>)[1] = d /\ (<<d>> \o <<m>>)[2] = m
<1>1. PICK s \in Seq(Messages) : s = <<d>> /\ Len(s) = 1 /\ s[1] = d
  <2>1. <<d>> \in Seq(Messages) /\ Len(<<d>>) = 1 /\ <<d>>[1] = d
    BY OneMessage
  <2>. QED
    BY <2>1, Zenon
<1>2. Append(s, m) = <<d>> \o <<m>>
  BY <1>1, AppendIsConcat
<1>3. /\ Append(s, m) \in Seq(Messages) /\ Len(Append(s, m)) = 2
      /\ Append(s, m)[1] = d /\ Append(s, m)[2] = m
  BY <1>1, AppendFacts
<1>. QED
  BY <1>2, <1>3

Announces(msgs, changed, m) ==
    /\ msgs \in Seq(Messages) /\ Len(msgs) \in Nat /\ Len(msgs) >= 1
    /\ msgs[Len(msgs)] = m
    /\ \A i \in 1..(Len(msgs) - 1) : msgs[i].t = "data_changed"
    /\ changed => Len(msgs) = 2 /\ msgs[1].t = "data_changed"

LEMMA NoticeThen ==
    ASSUME NEW changed \in BOOLEAN, NEW m \in Messages,
           NEW msgs, msgs = Notice(changed) \o <<m>>
    PROVE  Announces(msgs, changed, m)
<1>. DEFINE d == [t |-> "data_changed"]
<1>1. d \in Messages
  BY DEF Messages, Changes
<1>2. /\ Len(<<m>>) = 1 /\ <<m>>[1] = m /\ <<m>> \in Seq(Messages)
      /\ Len(<<d>>) = 1 /\ <<d>>[1] = d /\ <<d>> \in Seq(Messages)
  BY <1>1, OneMessage
<1>3. CASE changed
  <2>1. Notice(changed) = <<d>>
    BY <1>3 DEF Notice
  <2>2. d.t = "data_changed"
    OBVIOUS
  <2>. HIDE DEF d
  <2>3. msgs \in Seq(Messages) /\ Len(msgs) = 2 /\ msgs[1] = d /\ msgs[2] = m
    <3>1. msgs = <<d>> \o <<m>>
      BY <2>1
    <3>2. /\ <<d>> \o <<m>> \in Seq(Messages) /\ Len(<<d>> \o <<m>>) = 2
          /\ (<<d>> \o <<m>>)[1] = d /\ (<<d>> \o <<m>>)[2] = m
      BY <1>1, TwoMessages, Zenon
    <3>. QED
      BY <3>1, <3>2, Zenon
  <2>. QED
    BY <2>2, <2>3 DEF Announces
<1>4. CASE ~ changed
  <2>1. Notice(changed) = <<>>
    BY <1>4 DEF Notice
  <2>2. msgs = <<m>>
    BY <1>2, <2>1
  <2>. QED
    <3>1. msgs \in Seq(Messages) /\ Len(msgs) = 1 /\ msgs[1] = m
      BY <1>2, <2>2
    <3>2. \A i \in 1..(Len(msgs) - 1) : FALSE
      BY <3>1
    <3>3. Len(msgs) \in Nat /\ Len(msgs) >= 1 /\ msgs[Len(msgs)] = m
      BY <3>1
    <3>. QED
      BY <1>4, <3>1, <3>2, <3>3, Zenon DEF Announces
<1>. QED
  BY <1>3, <1>4

(* An unchanged projection of one gateway is an unchanged registry. *)
LEMMA NothingChanged ==
    ASSUME Types, NEW x \in Gateways, NEW cf \in Confs,
           entries' = reconcile_gateway(entries, x, cf), entries' \in Regs,
           Owned(entries', x) = Owned(entries, x)
    PROVE  entries' = entries
<1>1. /\ \A a \in Holds(cf) : a \in DOMAIN entries' /\ entries'[a].gw = x
                                /\ entries'[a].on = (cf[a] = "on")
      /\ \A a \in DOMAIN entries' : a \notin Holds(cf) =>
           a \in DOMAIN entries /\ entries[a].gw # x /\ entries'[a] = entries[a]
      /\ \A a \in DOMAIN entries : entries[a].gw # x /\ a \notin Holds(cf) =>
           a \in DOMAIN entries' /\ entries'[a] = entries[a]
  BY ReportApplied, Zenon
<1>. DEFINE own1 == {a \in DOMAIN entries' : entries'[a].gw = x}
            own0 == {a \in DOMAIN entries : entries[a].gw = x}
<1>2. /\ Owned(entries', x) = [a \in own1 |-> entries'[a]]
      /\ Owned(entries, x) = [a \in own0 |-> entries[a]]
  BY DEF Owned, Restrict
<1>3. own1 = own0 /\ \A a \in own0 : entries'[a] = entries[a]
  BY <1>2
<1>4. DOMAIN entries' = DOMAIN entries /\ \A a \in DOMAIN entries : entries'[a] = entries[a]
  BY <1>1, <1>3
<1>5. entries = [a \in DOMAIN entries |-> entries[a]] /\ entries' = [a \in DOMAIN entries' |-> entries'[a]]
  BY DEF Types, RegistryOK, Regs
<1>. QED
  BY <1>4, <1>5

(* A change of the registry is told to the page, or it has not seen it. *)
LEMMA ChangesTold ==
    ASSUME Types, Types', ApplyFrame
    PROVE  (Told => Told') /\ (entries' # entries => Told')
<1>0. sent \in Seq(Messages) /\ UNCHANGED list
  BY DEF Types, PageOK, ApplyFrame, page
<1>1. CASE Head(frames).k = "config" /\ on_rtn_td_config(Head(frames))
           /\ Head(frames).g \in Gateways /\ Head(frames).conf \in Confs
  <2>1. PICK x \in Gateways, cf \in Confs : x = Head(frames).g /\ cf = Head(frames).conf
    BY <1>1
  <2>2. PICK changed \in BOOLEAN : changed <=> Owned(entries', x) # Owned(entries, x)
    OBVIOUS
  <2>9. PICK m \in Messages : m = [t |-> "config", g |-> x, conf |-> cf]
    BY ConfigFrame
  <2>8. PICK msgs : msgs = Notice(changed) \o <<m>>
    OBVIOUS
  <2>3. /\ msgs \in Seq(Messages) /\ Len(msgs) \in Nat /\ Len(msgs) >= 1
        /\ msgs[Len(msgs)] = m
        /\ \A i \in 1..(Len(msgs) - 1) : msgs[i].t = "data_changed"
        /\ changed => Len(msgs) = 2 /\ msgs[1].t = "data_changed"
    <3>1. Announces(msgs, changed, m)
      BY <2>8, NoticeThen, Zenon
    <3>. QED
      BY <3>1, Zenon DEF Announces
  <2>4. Broadcast(msgs) /\ unseen' = (unseen \/ (changed /\ ~ linked))
    BY <1>1, <2>1, <2>2, <2>8, <2>9 DEF on_rtn_td_config, Notice
  <2>5. entries' # entries => changed
    <3>1. entries' = reconcile_gateway(entries, x, cf) /\ entries' \in Regs
      BY <1>1, <2>1 DEF on_rtn_td_config, Types, RegistryOK
    <3>. QED
      BY <2>2, <3>1, NothingChanged
  <2>6. CASE linked
    <3>1. sent' = sent \o msgs
      BY <2>4, <2>6 DEF Broadcast
    <3>2. /\ DOMAIN sent' = 1..(Len(sent) + Len(msgs)) /\ Len(sent) \in Nat /\ Len(msgs) \in Nat
          /\ DOMAIN sent = 1..Len(sent) /\ DOMAIN msgs = 1..Len(msgs)
          /\ \A i \in DOMAIN sent : sent'[i] = sent[i]
          /\ \A i \in DOMAIN msgs : sent'[Len(sent) + i] = msgs[i]
      BY <1>0, <2>3, <3>1, SentGrown
    <3>5. unseen => unseen'
      BY <2>4
    <3>6. \A i \in DOMAIN sent : i \in DOMAIN sent' /\ sent'[i] = sent[i]
      BY <3>2
    <3>3. Told => Told'
      BY <3>5, <3>6, Zenon DEF Told
    <3>4. CASE changed
      <4>1. 1 \in DOMAIN msgs /\ msgs[1].t = "data_changed"
        BY <2>3, <3>2, <3>4
      <4>2. Len(sent) + 1 \in DOMAIN sent' /\ sent'[Len(sent) + 1] = msgs[1]
        BY <3>2, <4>1
      <4>. QED
        BY <4>1, <4>2 DEF Told
    <3>. QED
      BY <2>5, <3>3, <3>4
  <2>7. CASE ~ linked
    BY <2>4, <2>5, <2>7 DEF Told, Broadcast
  <2>. QED
    BY <2>6, <2>7
<1>2. CASE on_rtn_process_config(Head(frames))
  <2>1. PICK gone : gone = Owners(entries) \ Head(frames).live
    OBVIOUS
  <2>2. /\ Broadcast(Notice(gone # {})) /\ unseen' = (unseen \/ (gone # {} /\ ~ linked))
        /\ entries' = prune_gateways_not_in(entries, Head(frames).live)
    BY <1>2, <2>1 DEF on_rtn_process_config
  <2>3. gone = {} => entries' = entries
    <3>1. entries \in [DOMAIN entries -> Entries]
      BY DEF Types, RegistryOK, Regs
    <3>2. gone = {} => {a \in DOMAIN entries : entries[a].gw \in Head(frames).live} = DOMAIN entries
      BY <2>1 DEF Owners
    <3>3. [a \in DOMAIN entries |-> entries[a]] = entries
      BY <3>1
    <3>. QED
      BY <2>2, <3>2, <3>3 DEF prune_gateways_not_in, Restrict
  <2>4. CASE gone = {}
    <3>1. UNCHANGED <<unseen, sent>>
      <4>1. Notice(gone # {}) = <<>> /\ sent \o <<>> = sent
        BY <1>0, <2>4 DEF Notice
      <4>2. sent' = sent
        BY <2>2, <4>1 DEF Broadcast
      <4>3. unseen' = unseen
        BY <2>2, <2>4 DEF Types, PageOK
      <4>. QED
        BY <4>2, <4>3
    <3>. QED
      BY <2>3, <2>4, <3>1 DEF Told
  <2>5. CASE gone # {} /\ ~ linked
    BY <2>2, <2>5 DEF Told
  <2>6. CASE gone # {} /\ linked
    <3>. DEFINE d == [t |-> "data_changed"]
    <3>1. Notice(gone # {}) = <<d>> /\ d \in Messages /\ d.t = "data_changed"
      BY <2>6 DEF Notice, Messages, Changes
    <3>. HIDE DEF d
    <3>4. sent' = sent \o Notice(gone # {})
      BY <2>2, <2>6 DEF Broadcast
    <3>2. sent' = sent \o <<d>> /\ <<d>> \in Seq(Messages) /\ Len(<<d>>) = 1 /\ <<d>>[1] = d
      BY <3>1, <3>4, OneMessage
    <3>3. Len(sent) + 1 \in DOMAIN sent' /\ sent'[Len(sent) + 1] = d
      BY <1>0, <3>2, ConcatFacts
    <3>. QED
      BY <3>1, <3>3 DEF Told
  <2>. QED
    BY <2>4, <2>5, <2>6
<1>. QED
  BY <1>1, <1>2, Applied DEF Types

(* The page has the registry, or a change of it is on the way. *)
LEMMA ListedKept ==
    ASSUME Types, Types', Pictured, Listed, AccountNext
    PROVE  Listed'
<1>1. CASE ApplyFrame
  <2>1. UNCHANGED <<loads, retry, list>>
    BY <1>1 DEF ApplyFrame, page
  <2>. QED
    BY <1>1, <2>1, ChangesTold DEF Listed
<1>2. CASE \E l \in loads : AnswerList(l)
  <2>1. PICK l \in loads : AnswerList(l)
    BY <1>2
  <2>2. l \in Loads /\ loads = {l}
    BY DEF Types, PageOK
  <2>3. PICK m : /\ loads' = {m}
                 /\ (m.at = "answer" => m.reg = entries)
    <3>1. CASE loads' = (loads \ {l}) \cup {[l EXCEPT !.at = "answer", !.avail = available, !.reg = entries]}
      <4>1. [l EXCEPT !.at = "answer", !.avail = available, !.reg = entries].reg = entries
        BY <2>2 DEF Loads
      <4>. QED
        BY <2>2, <3>1, <4>1
    <3>2. CASE loads' = (loads \ {l}) \cup {[l EXCEPT !.at = "failed"]}
      <4>1. [l EXCEPT !.at = "failed"].at = "failed"
        BY <2>2 DEF Loads
      <4>. QED
        BY <2>2, <3>2, <4>1
    <3>. QED
      BY <2>1, <3>1, <3>2 DEF AnswerList
  <2>4. UNCHANGED <<entries, sent, unseen>>
    BY <2>1 DEF AnswerList, registry
  <2>. QED
    BY <2>3, <2>4 DEF Listed
<1>3. CASE \E l \in loads : TakeList(l)
  <2>1. PICK l \in loads : TakeList(l)
    BY <1>3
  <2>2. /\ loads' = {}
        /\ \/ retry'
           \/ l.at = "answer" /\ l.avail /\ list'.avail /\ list'.reg = l.reg
    BY <2>1, ListTaken DEF Types
  <2>3. UNCHANGED <<entries, sent, unseen>>
    BY <2>1 DEF TakeList, registry
  <2>. QED
    BY <2>2, <2>3 DEF Listed, Told
<1>0. loadRegistry => \E m : loads' = {m} /\ m.at = "server"
  <2>1. [at |-> "server", avail |-> FALSE, reg |-> <<>>].at = "server"
    OBVIOUS
  <2>. QED
    BY <2>1 DEF loadRegistry
<1>4. CASE Retry
  BY <1>0, <1>4 DEF Retry, Listed
<1>5. CASE Receive
  <2>0. UNCHANGED <<retry, unseen, entries>>
    BY <1>5 DEF Receive, registry
  <2>1. CASE loadRegistry
    BY <1>0, <2>1 DEF Listed
  <2>2. CASE Head(sent).t # "data_changed" /\ UNCHANGED <<loads, list.reg, list.avail>>
    <3>1. /\ DOMAIN sent' = 1..(Len(sent) - 1) /\ DOMAIN sent = 1..Len(sent) /\ Len(sent) \in Nat
          /\ Head(sent) = sent[1]
          /\ \A i \in DOMAIN sent' : sent'[i] = sent[i + 1]
      BY <1>5, TailFacts DEF Receive, Types, PageOK
    <3>2. \A i \in DOMAIN sent : i # 1 => i - 1 \in DOMAIN sent' /\ sent'[i - 1] = sent[i]
      BY <3>1
    <3>3. Told => Told'
      BY <2>0, <2>2, <3>1, <3>2 DEF Told
    <3>. QED
      BY <2>0, <2>2, <3>3 DEF Listed
  <2>3. \A confs \in ConfMaps : applyTdConfig(confs) => UNCHANGED <<list.reg, list.avail>>
    BY ListApplied DEF Types, PageOK
  <2>. QED
    BY <1>5, <2>1, <2>2, <2>3, Received, OneConfig DEF Types
<1>6. CASE Connect
  <2>1. UNCHANGED <<loads, retry, list, unseen, entries>> /\ sent = <<>>
    BY <1>6 DEF Connect, page, registry, Pictured
  <2>2. Told => Told'
    BY <2>1, NoElements DEF Told
  <2>. QED
    BY <2>1, <2>2 DEF Listed
<1>7. CASE Disconnect
  <2>1. UNCHANGED <<loads, retry, list, entries>>
    BY <1>7 DEF Disconnect, page, registry
  <2>2. Told => Told'
    BY <1>7 DEF Disconnect, Told
  <2>. QED
    BY <2>1, <2>2 DEF Listed
<1>8. CASE ServerRestarts
  BY <1>8 DEF ServerRestarts, Listed, Told
<1>9. CASE UNCHANGED <<loads, retry, list, entries, sent, unseen>>
  BY <1>9 DEF Listed, Told
<1>10. CASE ~ \/ ApplyFrame \/ (\E l \in loads : AnswerList(l)) \/ (\E l \in loads : TakeList(l))
              \/ Retry \/ Receive \/ Connect \/ Disconnect \/ ServerRestarts
  <2>1. UNCHANGED <<loads, retry, list, entries, sent, unseen>>
    BY <1>10, Kinds, Zenon DEF apply_config_change, GatewayStarts, GatewayAnswers, GatewayExits,
         SessionChanges, MasterReports, Others, dispatch, Respond, Submit, Timeout, page, registry
  <2>. QED
    BY <1>9, <2>1
<1>. QED
  BY <1>1, <1>2, <1>3, <1>4, <1>5, <1>6, <1>7, <1>8, <1>10

(* With a report the page is sent the configuration, with a change of the
   processes none. *)
LEMMA Transmitted ==
    ASSUME Types, ApplyFrame, linked
    PROVE  \E msgs \in Seq(Messages) :
             /\ sent' = sent \o msgs
             /\ \/ \E x \in Gateways, cf \in Confs :
                     /\ Head(frames).k = "config" /\ Head(frames).g = x
                     /\ configs' = Put(configs, x, cf)
                     /\ Len(msgs) \in DOMAIN msgs /\ Carries(msgs[Len(msgs)], x)
                     /\ Carried(msgs[Len(msgs)], x) = cf
                     /\ \A n \in DOMAIN msgs : \A g : Carries(msgs[n], g) => g = x
                \/ /\ Head(frames).k = "processes" /\ configs' = configs
                   /\ \A n \in DOMAIN msgs : \A g : ~ Carries(msgs[n], g)
<1>0. \A m, g : m.t = "data_changed" => ~ Carries(m, g)
  BY DEF Carries
<1>1. CASE Head(frames).k = "config" /\ on_rtn_td_config(Head(frames))
           /\ Head(frames).g \in Gateways /\ Head(frames).conf \in Confs
  <2>1. PICK x \in Gateways, cf \in Confs : x = Head(frames).g /\ cf = Head(frames).conf
    BY <1>1
  <2>2. PICK changed \in BOOLEAN : changed <=> Owned(entries', x) # Owned(entries, x)
    OBVIOUS
  <2>3. PICK m \in Messages : m = [t |-> "config", g |-> x, conf |-> cf]
    BY ConfigFrame
  <2>4. PICK msgs : msgs = Notice(changed) \o <<m>>
    OBVIOUS
  <2>5. sent' = sent \o msgs
    <3>1. Broadcast(msgs)
      BY <1>1, <2>1, <2>2, <2>3, <2>4 DEF on_rtn_td_config, Notice
    <3>. QED
      BY <3>1 DEF Broadcast
  <2>6. /\ msgs \in Seq(Messages) /\ Len(msgs) \in Nat /\ Len(msgs) >= 1
        /\ msgs[Len(msgs)] = m
        /\ \A i \in 1..(Len(msgs) - 1) : msgs[i].t = "data_changed"
        /\ changed => Len(msgs) = 2 /\ msgs[1].t = "data_changed"
    <3>1. Announces(msgs, changed, m)
      BY <2>4, NoticeThen, Zenon
    <3>. QED
      BY <3>1, Zenon DEF Announces
  <2>7. DOMAIN msgs = 1..Len(msgs)
    BY <2>6
  <2>8. \A g : Carries(m, g) <=> g = x
    BY <2>3 DEF Carries
  <2>9. Carried(m, x) = cf
    BY <2>3 DEF Carried
  <2>10. configs' = Put(configs, x, cf)
    BY <1>1, <2>1 DEF on_rtn_td_config
  <2>11. \A n \in DOMAIN msgs : \A g : Carries(msgs[n], g) => g = x
    <3>1. \A n \in DOMAIN msgs : n = Len(msgs) \/ n \in 1..(Len(msgs) - 1)
      BY <2>6, <2>7
    <3>. QED
      BY <1>0, <2>6, <2>8, <3>1
  <2>12. Len(msgs) \in DOMAIN msgs /\ Carries(msgs[Len(msgs)], x) /\ Carried(msgs[Len(msgs)], x) = cf
    BY <2>6, <2>7, <2>8, <2>9
  <2>13. msgs \in Seq(Messages) /\ Head(frames).k = "config" /\ Head(frames).g = x
    BY <1>1, <2>1, <2>6
  <2>. QED
    BY <2>5, <2>10, <2>11, <2>12, <2>13, Zenon
<1>2. CASE Head(frames).k = "processes" /\ on_rtn_process_config(Head(frames))
  <2>1. PICK b \in BOOLEAN : Broadcast(Notice(b)) /\ configs' = configs
    BY <1>2 DEF on_rtn_process_config
  <2>2. sent' = sent \o Notice(b) /\ Notice(b) \in Seq(Messages)
    BY <2>1, Notices DEF Broadcast
  <2>3. \A n \in DOMAIN Notice(b) : Notice(b)[n].t = "data_changed"
    <3>1. CASE b
      <4>1. Notice(b) = <<[t |-> "data_changed"]>>
        BY <3>1 DEF Notice
      <4>. QED
        BY <4>1
    <3>2. CASE ~ b
      BY <3>2, NoElements DEF Notice
    <3>. QED
      BY <3>1, <3>2
  <2>. QED
    BY <1>0, <1>2, <2>1, <2>2, <2>3
<1>. QED
  BY <1>1, <1>2, Applied DEF Types

(* A message as it is taken. *)
LEMMA SentShrunk ==
    ASSUME PageOK, sent # <<>>, sent' = Tail(sent)
    PROVE  /\ DOMAIN sent' = 1..(Len(sent) - 1) /\ DOMAIN sent = 1..Len(sent)
           /\ Len(sent') = Len(sent) - 1 /\ Len(sent) \in Nat /\ Len(sent) >= 1
           /\ Head(sent) = sent[1]
           /\ \A i \in DOMAIN sent' : sent'[i] = sent[i + 1]
           /\ \A i \in DOMAIN sent : i # 1 => i - 1 \in DOMAIN sent' /\ sent'[i - 1] = sent[i]
<1>1. /\ DOMAIN sent' = 1..(Len(sent) - 1) /\ DOMAIN sent = 1..Len(sent)
      /\ Len(sent') = Len(sent) - 1 /\ Len(sent) \in Nat /\ Len(sent) >= 1
      /\ Head(sent) = sent[1]
      /\ \A i \in DOMAIN sent' : sent'[i] = sent[i + 1]
  BY TailFacts DEF PageOK
<1>. QED
  BY <1>1

(* What the page does with it: the word i of a gateway was the word Earlier(i, g). *)
Earlier(i, g) == IF i # 0 THEN i + 1 ELSE IF Carries(sent[1], g) THEN 1 ELSE 0

LEMMA Taking ==
    ASSUME Types, Receive
    PROVE  /\ Len(sent') = Len(sent) - 1 /\ Len(sent) \in Nat /\ Len(sent) >= 1
           /\ \A i \in 0..Len(sent') : \A g :
                (Seen(i, g)' <=> Seen(Earlier(i, g), g)) /\ (Seen(i, g)' => Value(i, g)' = Value(Earlier(i, g), g))
<1>1. /\ DOMAIN sent' = 1..(Len(sent) - 1) /\ DOMAIN sent = 1..Len(sent)
      /\ Len(sent') = Len(sent) - 1 /\ Len(sent) \in Nat /\ Len(sent) >= 1
      /\ Head(sent) = sent[1]
      /\ \A i \in DOMAIN sent' : sent'[i] = sent[i + 1]
  BY SentShrunk DEF Types, Receive
<1>2. \A i \in 1..Len(sent') : \A g :
        (Seen(i, g)' <=> Seen(i + 1, g)) /\ Value(i, g)' = Value(i + 1, g)
  BY <1>1 DEF Seen, Value
<1>3. ASSUME NEW g
      PROVE  /\ Seen(0, g)' <=> Seen(Earlier(0, g), g)
             /\ Seen(0, g)' => Value(0, g)' = Value(Earlier(0, g), g)
  <2>0. 0 \notin DOMAIN sent /\ 0 \notin DOMAIN sent' /\ 1 \in DOMAIN sent
    BY <1>1
  <2>1. CASE sent[1].t = "data_changed" /\ UNCHANGED list
    <3>1. ~ Carries(sent[1], g)
      BY <2>1 DEF Carries
    <3>. QED
      BY <2>0, <2>1, <3>1 DEF Seen, Value, Earlier
  <2>2. ASSUME NEW confs \in ConfMaps, applyTdConfig(confs),
               \A h : Carries(sent[1], h) <=> h \in DOMAIN confs,
               \A h \in DOMAIN confs : Carried(sent[1], h) = confs[h]
        PROVE  /\ Seen(0, g)' <=> Seen(Earlier(0, g), g)
               /\ Seen(0, g)' => Value(0, g)' = Value(Earlier(0, g), g)
    <3>1. /\ DOMAIN list'.confs = DOMAIN list.confs \cup DOMAIN confs
          /\ \A h \in DOMAIN confs : list'.confs[h] = confs[h]
          /\ \A h \in DOMAIN list.confs : h \notin DOMAIN confs => list'.confs[h] = list.confs[h]
      BY <2>2, ListApplied DEF Types, PageOK
    <3>. QED
      BY <2>0, <2>2, <3>1 DEF Seen, Value, Earlier
  <2>3. ASSUME sent[1].t = "config", NEW x \in Gateways, NEW cf \in Confs,
               x = sent[1].g, cf = sent[1].conf, applyTdConfig([h \in {x} |-> cf])
        PROVE  /\ Seen(0, g)' <=> Seen(Earlier(0, g), g)
               /\ Seen(0, g)' => Value(0, g)' = Value(Earlier(0, g), g)
    <3>1. PICK confs \in ConfMaps : confs = [h \in {x} |-> cf]
      BY OneConfig
    <3>2. \A h : Carries(sent[1], h) <=> h \in DOMAIN confs
      BY <2>3, <3>1 DEF Carries
    <3>3. \A h \in DOMAIN confs : Carried(sent[1], h) = confs[h]
      BY <2>3, <3>1 DEF Carried
    <3>4. applyTdConfig(confs)
      BY <2>3, <3>1
    <3>. QED
      BY <2>2, <3>2, <3>3, <3>4
  <2>4. ASSUME sent[1].t = "snapshot", sent[1].confs \in ConfMaps, applyTdConfig(sent[1].confs)
        PROVE  /\ Seen(0, g)' <=> Seen(Earlier(0, g), g)
               /\ Seen(0, g)' => Value(0, g)' = Value(Earlier(0, g), g)
    <3>1. PICK confs \in ConfMaps : confs = sent[1].confs
      BY <2>4
    <3>2. \A h : Carries(sent[1], h) <=> h \in DOMAIN confs
      BY <2>4, <3>1 DEF Carries
    <3>3. \A h \in DOMAIN confs : Carried(sent[1], h) = confs[h]
      BY <2>4, <3>1 DEF Carried
    <3>4. applyTdConfig(confs)
      BY <2>4, <3>1
    <3>. QED
      BY <2>2, <3>2, <3>3, <3>4
  <2>5. \/ sent[1].t = "data_changed" /\ UNCHANGED list
        \/ sent[1].t = "config" /\ sent[1].g \in Gateways /\ sent[1].conf \in Confs
             /\ applyTdConfig([h \in {sent[1].g} |-> sent[1].conf])
        \/ sent[1].t = "snapshot" /\ sent[1].confs \in ConfMaps /\ applyTdConfig(sent[1].confs)
    BY <1>1, Received DEF Types
  <2>. QED
    BY <2>1, <2>3, <2>4, <2>5
<1>4. ASSUME NEW i \in 0..Len(sent'), NEW g
      PROVE  (Seen(i, g)' <=> Seen(Earlier(i, g), g)) /\ (Seen(i, g)' => Value(i, g)' = Value(Earlier(i, g), g))
  <2>1. CASE i = 0
    BY <1>3, <2>1
  <2>2. CASE i # 0
    <3>1. i \in 1..Len(sent') /\ Earlier(i, g) = i + 1
      BY <1>1, <2>2 DEF Earlier
    <3>. QED
      BY <1>2, <3>1
  <2>. QED
    BY <2>1, <2>2
<1>. QED
  BY <1>1, <1>4

(* The page has the configurations of the mirror, or is being sent them. *)
LEMMA ShownKept ==
    ASSUME Types, Types', Pictured, AccountNext
    PROVE  Pictured'
<1>0. sent \in Seq(Messages) /\ Len(sent) \in Nat /\ DOMAIN sent = 1..Len(sent)
  BY DEF Types, PageOK
<1>1. CASE ApplyFrame /\ linked
  <2>1. PICK msgs \in Seq(Messages) :
             /\ sent' = sent \o msgs
             /\ \/ \E x \in Gateways, cf \in Confs :
                     /\ Head(frames).k = "config" /\ Head(frames).g = x
                     /\ configs' = Put(configs, x, cf)
                     /\ Len(msgs) \in DOMAIN msgs /\ Carries(msgs[Len(msgs)], x)
                     /\ Carried(msgs[Len(msgs)], x) = cf
                     /\ \A n \in DOMAIN msgs : \A g : Carries(msgs[n], g) => g = x
                \/ /\ Head(frames).k = "processes" /\ configs' = configs
                   /\ \A n \in DOMAIN msgs : \A g : ~ Carries(msgs[n], g)
    BY <1>1, Transmitted, Zenon
  <2>2. UNCHANGED <<linked, list>>
    BY <1>1 DEF ApplyFrame, page
  <2>3. /\ Len(sent') = Len(sent) + Len(msgs) /\ Len(msgs) \in Nat
        /\ DOMAIN sent' = 1..(Len(sent) + Len(msgs)) /\ DOMAIN msgs = 1..Len(msgs)
        /\ \A i \in DOMAIN sent : sent'[i] = sent[i]
        /\ \A i \in DOMAIN msgs : sent'[Len(sent) + i] = msgs[i]
        /\ \A i \in 0..Len(sent) : \A g : (Seen(i, g)' <=> Seen(i, g)) /\ Value(i, g)' = Value(i, g)
        /\ \A n \in DOMAIN msgs : \A i, g : i = Len(sent) + n =>
             (Seen(i, g)' <=> Carries(msgs[n], g)) /\ Value(i, g)' = Carried(msgs[n], g)
    BY <1>0, <2>1, <2>2, SentGrown
  <2>4. \A i \in DOMAIN sent' : i \in DOMAIN sent \/ (i - Len(sent) \in DOMAIN msgs /\ i = Len(sent) + (i - Len(sent)))
    BY <1>0, <2>3
  <2>5. \A g : (\A n \in DOMAIN msgs : ~ Carries(msgs[n], g)) =>
                 \A i \in 0..Len(sent') : Seen(i, g)' => i \in 0..Len(sent)
    BY <1>0, <2>3, <2>4
  (* What was not sent anything is as it was. *)
  <2>6. ASSUME NEW g \in DOMAIN configs, \A n \in DOMAIN msgs : ~ Carries(msgs[n], g)
        PROVE  /\ \E i \in 0..Len(sent') : Seen(i, g)'
               /\ \A i \in 0..Len(sent') : LastSeen(i, g)' => Value(i, g)' = configs[g]
    <3>1. /\ \E i \in 0..Len(sent) : Seen(i, g)
          /\ \A i \in 0..Len(sent) : LastSeen(i, g) => Value(i, g) = configs[g]
      BY <1>1 DEF Pictured
    <3>2. \E i \in 0..Len(sent') : Seen(i, g)'
      BY <1>0, <2>3, <3>1
    <3>3. ASSUME NEW i \in 0..Len(sent'), LastSeen(i, g)'
          PROVE  Value(i, g)' = configs[g]
      <4>1. Seen(i, g)' /\ \A j \in 0..Len(sent') : j > i => ~ Seen(j, g)'
        BY <3>3 DEF LastSeen
      <4>2. i \in 0..Len(sent)
        BY <2>5, <2>6, <4>1
      <4>3. LastSeen(i, g)
        BY <1>0, <2>3, <4>1, <4>2 DEF LastSeen
      <4>. QED
        BY <2>3, <3>1, <4>2, <4>3
    <3>. QED
      BY <3>2, <3>3
  <2>7. CASE /\ configs' = configs
             /\ \A n \in DOMAIN msgs : \A g : ~ Carries(msgs[n], g)
    <3>1. \A i \in DOMAIN sent', g \in Gateways : Carries(sent'[i], g) => g \in DOMAIN configs'
      BY <2>3, <2>4, <2>7 DEF Pictured
    <3>. QED
      BY <1>1, <2>2, <2>6, <2>7, <3>1 DEF Pictured
  <2>8. ASSUME NEW x \in Gateways, NEW cf \in Confs,
               configs' = Put(configs, x, cf),
               Len(msgs) \in DOMAIN msgs, Carries(msgs[Len(msgs)], x),
               Carried(msgs[Len(msgs)], x) = cf,
               \A n \in DOMAIN msgs : \A g : Carries(msgs[n], g) => g = x
        PROVE  Pictured'
    <3>1. /\ DOMAIN configs' = DOMAIN configs \cup {x} /\ configs'[x] = cf
          /\ \A g \in DOMAIN configs : g # x => configs'[g] = configs[g]
      BY <2>8, PutConfig DEF Types, RegistryOK
    <3>2. \A i \in DOMAIN sent', g \in Gateways : Carries(sent'[i], g) => g \in DOMAIN configs'
      BY <2>3, <2>4, <2>8, <3>1 DEF Pictured
    <3>3. ASSUME NEW g \in DOMAIN configs', g # x
          PROVE  /\ \E i \in 0..Len(sent') : Seen(i, g)'
                 /\ \A i \in 0..Len(sent') : LastSeen(i, g)' => Value(i, g)' = configs'[g]
      <4>1. g \in DOMAIN configs /\ configs'[g] = configs[g] /\ \A n \in DOMAIN msgs : ~ Carries(msgs[n], g)
        BY <2>8, <3>1, <3>3
      <4>. QED
        BY <2>6, <4>1
    <3>4. /\ \E i \in 0..Len(sent') : Seen(i, x)'
          /\ \A i \in 0..Len(sent') : LastSeen(i, x)' => Value(i, x)' = configs'[x]
      <4>1. PICK n : n = Len(sent) + Len(msgs)
        OBVIOUS
      <4>2. n \in 0..Len(sent') /\ n = Len(sent') /\ Seen(n, x)' /\ Value(n, x)' = cf
        BY <1>0, <2>3, <2>8, <4>1
      <4>3. ASSUME NEW i \in 0..Len(sent'), LastSeen(i, x)'
            PROVE  i = n
        <5>1. ~ (n > i)
          BY <4>2, <4>3 DEF LastSeen
        <5>. QED
          BY <1>0, <2>3, <4>1, <4>2, <5>1
      <4>. QED
        BY <3>1, <4>2, <4>3
    <3>. QED
      BY <1>1, <2>2, <3>2, <3>3, <3>4 DEF Pictured
  <2>. QED
    BY <2>1, <2>7, <2>8
<1>2. CASE ApplyFrame /\ ~ linked
  <2>1. UNCHANGED <<linked, list>> /\ sent = <<>>
    BY <1>2 DEF ApplyFrame, page, Pictured
  <2>2. sent' = <<>>
    <3>1. \E msgs \in Seq(Messages) : Broadcast(msgs)
      BY <1>2, Sends
    <3>. QED
      BY <1>2, <2>1, <3>1 DEF Broadcast
  <2>. QED
    BY <1>2, <2>1, <2>2, NoElements DEF Pictured
<1>3. CASE Receive
  <2>1. UNCHANGED <<linked, configs>> /\ sent # <<>> /\ sent' = Tail(sent)
    BY <1>3 DEF Receive, registry
  <2>2. linked
    BY <2>1 DEF Pictured
  <2>3. /\ Len(sent') = Len(sent) - 1 /\ Len(sent) >= 1
        /\ \A i \in 0..Len(sent') : \A g :
             (Seen(i, g)' <=> Seen(Earlier(i, g), g)) /\ (Seen(i, g)' => Value(i, g)' = Value(Earlier(i, g), g))
    BY <1>3, Taking
  <2>4. \A i \in DOMAIN sent', g \in Gateways : Carries(sent'[i], g) => g \in DOMAIN configs'
    <3>1. \A i \in DOMAIN sent' : i + 1 \in DOMAIN sent /\ sent'[i] = sent[i + 1]
      BY <1>0, <2>1, SentShrunk DEF Types
    <3>. QED
      BY <2>1, <3>1 DEF Pictured
  <2>5. ASSUME NEW g \in DOMAIN configs
        PROVE  /\ \E i \in 0..Len(sent') : Seen(i, g)'
               /\ \A i \in 0..Len(sent') : LastSeen(i, g)' => Value(i, g)' = configs[g]
    <3>1. /\ \E i \in 0..Len(sent) : Seen(i, g)
          /\ \A i \in 0..Len(sent) : LastSeen(i, g) => Value(i, g) = configs[g]
      BY <2>2 DEF Pictured
    <3>2. \E i \in 0..Len(sent') : Seen(i, g)'
      <4>1. PICK i \in 0..Len(sent) : Seen(i, g)
        BY <3>1
      <4>2. CASE i >= 2
        <5>1. i - 1 \in 0..Len(sent') /\ Earlier(i - 1, g) = i
          BY <1>0, <2>3, <4>2 DEF Earlier
        <5>. QED
          BY <2>3, <4>1, <5>1
      <4>3. CASE i \in {0, 1}
        <5>1. Seen(Earlier(0, g), g)
          BY <1>0, <2>3, <4>1, <4>3 DEF Earlier, Seen
        <5>. QED
          BY <1>0, <2>3, <5>1
      <4>. QED
        BY <1>0, <4>2, <4>3
    <3>3. ASSUME NEW i \in 0..Len(sent'), LastSeen(i, g)'
          PROVE  Value(i, g)' = configs[g]
      <4>1. Seen(i, g)' /\ \A j \in 0..Len(sent') : j > i => ~ Seen(j, g)'
        BY <3>3 DEF LastSeen
      <4>2. Earlier(i, g) \in 0..Len(sent)
        BY <1>0, <2>3 DEF Earlier
      <4>3. ASSUME NEW j \in 0..Len(sent), j > Earlier(i, g), Seen(j, g)
            PROVE  FALSE
        <5>1. CASE j >= 2
          <6>1. j - 1 \in 0..Len(sent') /\ j - 1 > i /\ Earlier(j - 1, g) = j
            BY <1>0, <2>3, <4>3, <5>1 DEF Earlier
          <6>. QED
            BY <2>3, <4>1, <4>3, <6>1
        <5>2. CASE j = 1
          <6>1. ~ Carries(sent[1], g)
            BY <1>0, <2>3, <4>3, <5>2 DEF Earlier
          <6>. QED
            BY <4>3, <5>2, <6>1 DEF Seen
        <5>. QED
          BY <1>0, <4>2, <4>3, <5>1, <5>2
      <4>4. LastSeen(Earlier(i, g), g)
        BY <2>3, <4>1, <4>3 DEF LastSeen
      <4>. QED
        BY <2>3, <3>1, <4>1, <4>2, <4>4
    <3>. QED
      BY <3>2, <3>3
  <2>. QED
    BY <2>1, <2>2, <2>4, <2>5 DEF Pictured
<1>4. CASE Connect
  <2>1. UNCHANGED <<list, configs>> /\ linked' = TRUE
    BY <1>4 DEF Connect, page, registry
  <2>2. PICK m : m = [t |-> "snapshot", confs |-> configs]
    OBVIOUS
  <2>3. /\ sent' = <<m>> /\ Len(sent') = 1 /\ DOMAIN sent' = {1} /\ sent'[1] = m
    BY <1>4, <2>2 DEF Connect
  <2>4. \A g : (Carries(m, g) <=> g \in DOMAIN configs) /\ Carried(m, g) = configs[g]
    BY <2>2 DEF Carries, Carried
  <2>5. ASSUME NEW g \in DOMAIN configs
        PROVE  /\ \E i \in 0..Len(sent') : Seen(i, g)'
               /\ \A i \in 0..Len(sent') : LastSeen(i, g)' => Value(i, g)' = configs[g]
    <3>1. Seen(1, g)' /\ Value(1, g)' = configs[g] /\ 0..Len(sent') = {0, 1}
      BY <2>3, <2>4 DEF Seen, Value
    <3>2. ~ LastSeen(0, g)'
      BY <3>1 DEF LastSeen
    <3>. QED
      BY <3>1, <3>2
  <2>. QED
    BY <2>1, <2>3, <2>4, <2>5 DEF Pictured
<1>5. CASE Disconnect \/ ServerRestarts
  <2>1. linked' = FALSE /\ sent' = <<>>
    BY <1>5 DEF Disconnect, ServerRestarts
  <2>. QED
    BY <2>1, NoElements DEF Pictured
<1>6. CASE list'.confs = list.confs /\ UNCHANGED <<sent, linked, configs>>
  BY <1>6 DEF Pictured, LastSeen, Seen, Value
<1>7. CASE ~ (ApplyFrame \/ Receive \/ Connect \/ Disconnect \/ ServerRestarts)
  <2>1. CASE \E l \in loads : TakeList(l)
    <3>1. list'.confs = list.confs
      BY <2>1, ListTaken DEF Types
    <3>2. UNCHANGED <<sent, linked, configs>>
      BY <2>1 DEF TakeList, registry
    <3>. QED
      BY <1>6, <3>1, <3>2
  <2>2. CASE ~ \E l \in loads : TakeList(l)
    <3>1. UNCHANGED <<list, sent, linked, configs>>
      BY <1>7, <2>2, Kinds, Zenon DEF apply_config_change, GatewayStarts, GatewayAnswers, GatewayExits,
           SessionChanges, MasterReports, Others, dispatch, Respond, AnswerList, Submit, Timeout, Retry,
           page, registry
    <3>. QED
      BY <1>6, <3>1
  <2>. QED
    BY <2>1, <2>2
<1>. QED
  BY <1>1, <1>2, <1>3, <1>4, <1>5, <1>7

(* Every operation of the page will be answered: its request, the change it
   asks for, the report of it or the message is on the way. *)
LEMMA StillAnswered ==
    ASSUME Types, NEW k, Answer(k), linked' = linked,
           \A r \in posts : \E q \in posts' : <<q.g, q.a, q.op>> = <<r.g, r.a, r.op>>,
           \A i \in DOMAIN toGw : \E j \in DOMAIN toGw' : toGw'[j] = toGw[i],
           \A i \in DOMAIN frames : \E j \in DOMAIN frames' : frames'[j] = frames[i],
           \A i \in DOMAIN sent : \E j \in DOMAIN sent' : sent'[j] = sent[i],
           DOMAIN configs \subseteq DOMAIN configs'
    PROVE  Answer(k)'
<1>1. CASE \E r \in posts : <<r.g, r.a, r.op>> = k
  BY <1>1 DEF Answer
<1>2. CASE \E i \in DOMAIN toGw : <<toGw[i].g, toGw[i].a, toGw[i].op>> = k
  <2>1. \E i \in DOMAIN toGw' : <<toGw'[i].g, toGw'[i].a, toGw'[i].op>> = k
    BY <1>2
  <2>. QED
    BY <2>1 DEF Answer
<1>3. CASE \E i \in DOMAIN frames : ConfigAt(i, k[1])
  <2>1. \E i \in DOMAIN frames' : frames'[i].k = "config" /\ frames'[i].g = k[1]
    BY <1>3 DEF ConfigAt
  <2>. QED
    BY <2>1 DEF Answer, ConfigAt
<1>4. CASE linked /\ \E i \in DOMAIN sent : Carries(sent[i], k[1])
  <2>1. linked' /\ \E i \in DOMAIN sent' : Carries(sent'[i], k[1])
    BY <1>4
  <2>. QED
    BY <2>1 DEF Answer
<1>5. CASE ~ linked /\ k[1] \in DOMAIN configs
  BY <1>5 DEF Answer
<1>. QED
  BY <1>1, <1>2, <1>3, <1>4, <1>5 DEF Answer

LEMMA FramesGrow ==
    ASSUME Types, NEW e \in Frames, frames' = Append(frames, e)
    PROVE  /\ \A i \in DOMAIN frames : \E j \in DOMAIN frames' : frames'[j] = frames[i]
           /\ \E j \in DOMAIN frames' : frames'[j] = e
<1>1. /\ DOMAIN frames' = 1..(Len(frames) + 1) /\ DOMAIN frames = 1..Len(frames) /\ Len(frames) \in Nat
      /\ frames'[Len(frames) + 1] = e
      /\ \A i \in DOMAIN frames : frames'[i] = frames[i]
  BY AppendFacts DEF Types, GatewayOK
<1>. QED
  BY <1>1

LEMMA SettledKeys ==
    ASSUME Answering, NEW keys, settle(keys),
           \A k \in waiting \ keys : Answer(k) => Answer(k)'
    PROVE  Answering'
BY DEF Answering, settle

LEMMA AnsweringKept ==
    ASSUME Types, Types', Pictured, Answering, AccountNext
    PROVE  Answering'
<1>1. CASE apply_config_change
  <2>0. toGw # <<>> /\ toGw' = Tail(toGw) /\ toGw \in Seq(Requests)
    BY <1>1 DEF apply_config_change, Types, GatewayOK
  <2>1. /\ DOMAIN toGw' = 1..(Len(toGw) - 1) /\ DOMAIN toGw = 1..Len(toGw) /\ Len(toGw) \in Nat
        /\ Head(toGw) = toGw[1] /\ Head(toGw) \in Requests
        /\ \A i \in DOMAIN toGw' : toGw'[i] = toGw[i + 1]
    BY <2>0, TailFacts
  <2>2. UNCHANGED <<posts, sent, linked, configs, waiting>>
    BY <1>1 DEF apply_config_change, page, registry
  <2>. DEFINE c == Head(toGw)
  <2>3. CASE c.g \notin up
    <3>1. UNCHANGED frames /\ ignored' = ignored \cup {<<c.g, c.a, c.op>>}
      BY <1>1, <2>3 DEF apply_config_change
    <3>2. ASSUME NEW k, Answer(k), k # <<c.g, c.a, c.op>>
          PROVE  Answer(k)'
      <4>1. CASE \E i \in DOMAIN toGw : <<toGw[i].g, toGw[i].a, toGw[i].op>> = k
        <5>1. PICK i \in DOMAIN toGw : <<toGw[i].g, toGw[i].a, toGw[i].op>> = k
          BY <4>1
        <5>2. i # 1
          BY <2>1, <3>2, <5>1
        <5>3. i - 1 \in DOMAIN toGw' /\ toGw'[i - 1] = toGw[i]
          BY <2>1, <5>2
        <5>. QED
          BY <5>1, <5>3 DEF Answer
      <4>2. CASE ~ \E i \in DOMAIN toGw : <<toGw[i].g, toGw[i].a, toGw[i].op>> = k
        BY <2>2, <3>1, <3>2, <4>2 DEF Answer, ConfigAt
      <4>. QED
        BY <4>1, <4>2
    <3>. QED
      BY <2>2, <3>1, <3>2 DEF Answering
  <2>4. CASE c.g \in up
    <3>1. frames' = Append(frames, Report(c.g)) /\ UNCHANGED ignored
      BY <1>1, <2>4 DEF apply_config_change
    <3>2. Report(c.g) \in Frames /\ Report(c.g).k = "config" /\ Report(c.g).g = c.g
      <4>1. c.g \in Gateways /\ own' \in [Gateways -> Confs]
        BY <2>1 DEF Requests, Types, GatewayOK
      <4>. QED
        BY <4>1, ConfigFrame DEF Report
    <3>3. /\ \A i \in DOMAIN frames : \E j \in DOMAIN frames' : frames'[j] = frames[i]
          /\ \E j \in DOMAIN frames' : frames'[j].k = "config" /\ frames'[j].g = c.g
      BY <3>1, <3>2, FramesGrow
    <3>4. ASSUME NEW k, Answer(k)
          PROVE  Answer(k)'
      <4>1. CASE \E i \in DOMAIN toGw : <<toGw[i].g, toGw[i].a, toGw[i].op>> = k
        <5>1. PICK i \in DOMAIN toGw : <<toGw[i].g, toGw[i].a, toGw[i].op>> = k
          BY <4>1
        <5>2. CASE i = 1
          BY <2>1, <3>3, <5>1, <5>2 DEF Answer, ConfigAt
        <5>3. CASE i # 1
          <6>1. i - 1 \in DOMAIN toGw' /\ toGw'[i - 1] = toGw[i]
            BY <2>1, <5>3
          <6>. QED
            BY <5>1, <6>1 DEF Answer
        <5>. QED
          BY <5>2, <5>3
      <4>2. CASE \E i \in DOMAIN frames : ConfigAt(i, k[1])
        BY <3>3, <4>2 DEF Answer, ConfigAt
      <4>3. CASE /\ ~ \E i \in DOMAIN toGw : <<toGw[i].g, toGw[i].a, toGw[i].op>> = k
                 /\ ~ \E i \in DOMAIN frames : ConfigAt(i, k[1])
        BY <2>2, <3>4, <4>3 DEF Answer
      <4>. QED
        BY <4>1, <4>2, <4>3
    <3>. QED
      BY <2>2, <3>1, <3>4 DEF Answering
  <2>. QED
    BY <2>3, <2>4
<1>2. CASE (\E g \in Gateways : GatewayStarts(g)) \/ (\E g \in Gateways : GatewayAnswers(g)) \/ MasterReports
  <2>1. PICK e \in Frames : frames' = Append(frames, e)
    <3>1. \A g \in Gateways : Report(g) \in Frames
      BY ConfigFrame DEF Report, Types, GatewayOK
    <3>2. Processes \in Frames
      BY DEF Processes, Frames, Types, GatewayOK
    <3>. QED
      BY <1>2, <3>1, <3>2 DEF GatewayStarts, GatewayAnswers, MasterReports
  <2>2. UNCHANGED <<toGw, posts, sent, linked, configs, waiting, ignored>>
    BY <1>2 DEF GatewayStarts, GatewayAnswers, MasterReports, Others, page, registry
  <2>3. \A i \in DOMAIN frames : \E j \in DOMAIN frames' : frames'[j] = frames[i]
    BY <2>1, FramesGrow
  <2>4. \A k : Answer(k) => Answer(k)'
    BY <2>2, <2>3, StillAnswered
  <2>. QED
    BY <2>2, <2>4 DEF Answering
<1>3. CASE ApplyFrame
  <2>1. UNCHANGED <<toGw, posts, linked, waiting, ignored>>
    BY <1>3 DEF ApplyFrame, gateways, page
  <2>2. /\ DOMAIN frames' = 1..(Len(frames) - 1) /\ DOMAIN frames = 1..Len(frames) /\ Len(frames) \in Nat
        /\ Head(frames) = frames[1]
        /\ \A i \in DOMAIN frames' : frames'[i] = frames[i + 1]
    BY <1>3, TailFacts DEF ApplyFrame, Types, GatewayOK
  <2>3. DOMAIN configs \subseteq DOMAIN configs' /\ (frames[1].k = "config" => frames[1].g \in DOMAIN configs')
    <3>1. CASE on_rtn_td_config(Head(frames))
      BY <2>2, <3>1 DEF on_rtn_td_config, Put
    <3>2. CASE frames[1].k = "processes" /\ on_rtn_process_config(Head(frames))
      BY <3>2 DEF on_rtn_process_config
    <3>. QED
      BY <1>3, <2>2, <3>1, <3>2, Applied DEF Types
  <2>4. PICK msgs \in Seq(Messages) : Broadcast(msgs)
    BY <1>3, Sends
  <2>5. \A i \in DOMAIN sent : \E j \in DOMAIN sent' : sent'[j] = sent[i]
    <3>1. CASE linked
      BY <2>4, <3>1, ConcatFacts DEF Broadcast, Types, PageOK
    <3>2. CASE ~ linked
      BY <2>4, <3>2 DEF Broadcast
    <3>. QED
      BY <3>1, <3>2
  <2>6. linked /\ frames[1].k = "config" => \E j \in DOMAIN sent' : Carries(sent'[j], frames[1].g)
    <3>. SUFFICES ASSUME linked, frames[1].k = "config"
                  PROVE  \E j \in DOMAIN sent' : Carries(sent'[j], frames[1].g)
      OBVIOUS
    <3>1. PICK m \in Seq(Messages) :
            /\ sent' = sent \o m
            /\ Len(m) \in DOMAIN m /\ Carries(m[Len(m)], frames[1].g)
      BY <1>3, <2>2, Transmitted
    <3>2. /\ DOMAIN sent' = 1..(Len(sent) + Len(m)) /\ Len(sent) \in Nat /\ Len(m) \in Nat
          /\ DOMAIN m = 1..Len(m)
          /\ \A i \in DOMAIN m : sent'[Len(sent) + i] = m[i]
      BY <3>1, ConcatFacts DEF Types, PageOK
    <3>3. Len(sent) + Len(m) \in DOMAIN sent' /\ sent'[Len(sent) + Len(m)] = m[Len(m)]
      BY <3>1, <3>2
    <3>. QED
      BY <3>1, <3>3
  <2>7. ASSUME NEW k, Answer(k)
        PROVE  Answer(k)'
    <3>1. CASE \E i \in DOMAIN frames : ConfigAt(i, k[1])
      <4>1. PICK i \in DOMAIN frames : ConfigAt(i, k[1])
        BY <3>1
      <4>2. CASE i = 1
        BY <2>1, <2>3, <2>6, <4>1, <4>2 DEF Answer, ConfigAt
      <4>3. CASE i # 1
        <5>1. i - 1 \in DOMAIN frames' /\ frames'[i - 1] = frames[i]
          BY <2>2, <4>3
        <5>2. ConfigAt(i - 1, k[1])'
          BY <4>1, <5>1 DEF ConfigAt
        <5>. QED
          BY <5>1, <5>2 DEF Answer, ConfigAt
      <4>. QED
        BY <4>2, <4>3
    <3>2. CASE linked /\ \E i \in DOMAIN sent : Carries(sent[i], k[1])
      BY <2>1, <2>5, <3>2 DEF Answer
    <3>3. CASE \/ \E r \in posts : <<r.g, r.a, r.op>> = k
               \/ \E i \in DOMAIN toGw : <<toGw[i].g, toGw[i].a, toGw[i].op>> = k
               \/ ~ linked /\ k[1] \in DOMAIN configs
      BY <2>1, <2>3, <3>3 DEF Answer
    <3>. QED
      BY <2>7, <3>1, <3>2, <3>3 DEF Answer
  <2>. QED
    BY <2>1, <2>7 DEF Answering
<1>4. CASE \E r \in posts : dispatch(r)
  <2>1. PICK r \in posts : dispatch(r)
    BY <1>4
  <2>2. r \in Posts /\ toGw \in Seq(Requests) /\ toGw' \in Seq(Requests)
    BY DEF Types, PageOK, GatewayOK
  <2>3. UNCHANGED <<frames, sent, linked, configs, waiting>>
    BY <2>1 DEF dispatch, registry
  <2>4. CASE /\ Admitted(r)
             /\ toGw' = Append(toGw, [g |-> Target(r), op |-> r.op, a |-> r.a, to |-> r.to])
             /\ posts' = posts \ {r}
             /\ ignored' = IF Target(r) = r.g THEN ignored ELSE ignored \cup {<<r.g, r.a, r.op>>}
    <3>1. PICK e : e = [g |-> Target(r), op |-> r.op, a |-> r.a, to |-> r.to]
      OBVIOUS
    <3>2. e.g = Target(r) /\ e.op = r.op /\ e.a = r.a
      BY <3>1
    <3>3. toGw' = Append(toGw, e)
      BY <2>4, <3>1
    <3>4. /\ \A i \in DOMAIN toGw : i \in DOMAIN toGw' /\ toGw'[i] = toGw[i]
          /\ \E i \in DOMAIN toGw' : toGw'[i] = e
      BY <2>2, <3>3
    <3>5. ASSUME NEW k \in waiting \ ignored', Answer(k)
          PROVE  Answer(k)'
      <4>1. CASE k = <<r.g, r.a, r.op>>
        <5>1. Target(r) = r.g
          BY <2>4, <3>5, <4>1
        <5>. QED
          BY <3>2, <3>4, <4>1, <5>1 DEF Answer
      <4>2. CASE k # <<r.g, r.a, r.op>> /\ \E q \in posts : <<q.g, q.a, q.op>> = k
        BY <2>4, <4>2 DEF Answer
      <4>3. CASE \E i \in DOMAIN toGw : <<toGw[i].g, toGw[i].a, toGw[i].op>> = k
        BY <3>4, <4>3 DEF Answer
      <4>4. CASE \/ \E i \in DOMAIN frames : ConfigAt(i, k[1])
                 \/ linked /\ \E i \in DOMAIN sent : Carries(sent[i], k[1])
                 \/ ~ linked /\ k[1] \in DOMAIN configs
        BY <2>3, <4>4 DEF Answer, ConfigAt
      <4>. QED
        BY <3>5, <4>1, <4>2, <4>3, <4>4 DEF Answer
    <3>. QED
      BY <2>3, <2>4, <3>5 DEF Answering
  <2>5. CASE posts' = (posts \ {r}) \cup {[r EXCEPT !.at = "failed"]} /\ UNCHANGED <<toGw, ignored>>
    <3>1. \A p \in posts : \E q \in posts' : <<q.g, q.a, q.op>> = <<p.g, p.a, p.op>>
      <4>1. PICK q : /\ q = [r EXCEPT !.at = "failed"]
                     /\ <<q.g, q.a, q.op>> = <<r.g, r.a, r.op>>
        BY SettledTypes DEF Types
      <4>. QED
        BY <2>5, <4>1
    <3>2. \A k : Answer(k) => Answer(k)'
      BY <2>3, <2>5, <3>1, StillAnswered
    <3>. QED
      BY <2>3, <2>5, <3>2 DEF Answering
  <2>. QED
    BY <2>1, <2>4, <2>5 DEF dispatch
<1>5. CASE \E r \in posts : Respond(r)
  <2>1. PICK r \in posts : Respond(r)
    BY <1>5
  <2>2. UNCHANGED <<toGw, frames, sent, linked, configs>> /\ posts' = posts \ {r}
    BY <2>1 DEF Respond, gateways, registry
  <2>3. \A k \in waiting \ {<<r.g, r.a, r.op>>} : Answer(k) => Answer(k)'
    BY <2>2 DEF Answer, ConfigAt
  <2>. QED
    BY <2>1, <2>3, SettledKeys DEF Respond
<1>6. CASE \E g \in Gateways, a \in Accounts, op \in AccountOps, to \in {"on", "off"} : Submit(g, a, op, to)
  <2>1. PICK g \in Gateways, a \in Accounts, op \in AccountOps, to \in {"on", "off"} : Submit(g, a, op, to)
    BY <1>6
  <2>2. UNCHANGED <<gateways, frames, registry, sent, linked, ignored>> /\ waiting' = waiting \cup {<<g, a, op>>}
    BY <2>1, Zenon DEF Submit
  <2>3. PICK p : posts' = posts \cup {p} /\ p.g = g /\ p.a = a /\ p.op = op
    <3>1. posts' = posts \cup {[n |-> submits, g |-> g, a |-> a, op |-> op, to |-> to, at |-> "server"]}
      BY <2>1 DEF Submit
    <3>2. PICK p : p = [n |-> submits, g |-> g, a |-> a, op |-> op, to |-> to, at |-> "server"]
      OBVIOUS
    <3>3. p.g = g /\ p.a = a /\ p.op = op
      BY <3>2
    <3>. QED
      BY <3>1, <3>2, <3>3, Zenon
  <2>4. \A k : Answer(k) => Answer(k)'
    BY <2>2, <2>3 DEF Answer, ConfigAt, gateways, registry
  <2>5. Answer(<<g, a, op>>)'
    BY <2>3 DEF Answer
  <2>. QED
    BY <2>2, <2>4, <2>5 DEF Answering
<1>7. CASE \E key \in waiting : Timeout(key)
  <2>1. PICK key \in waiting : Timeout(key)
    BY <1>7
  <2>2. UNCHANGED <<toGw, frames, sent, linked, configs, posts>>
    BY <2>1 DEF Timeout, gateways, registry
  <2>3. \A k \in waiting \ {key} : Answer(k) => Answer(k)'
    BY <2>2 DEF Answer, ConfigAt
  <2>. QED
    BY <2>1, <2>3, SettledKeys DEF Timeout
<1>8. CASE Receive
  <2>1. UNCHANGED <<toGw, frames, linked, configs, posts>> /\ sent # <<>> /\ sent' = Tail(sent)
    BY <1>8 DEF Receive, gateways, registry
  <2>2. /\ Head(sent) = sent[1]
        /\ \A i \in DOMAIN sent : i # 1 => i - 1 \in DOMAIN sent' /\ sent'[i - 1] = sent[i]
    BY <2>1, SentShrunk DEF Types
  <2>3. ASSUME NEW k, Answer(k), ~ Carries(sent[1], k[1])
        PROVE  Answer(k)'
    <3>1. CASE linked /\ \E i \in DOMAIN sent : Carries(sent[i], k[1])
      <4>1. PICK i \in DOMAIN sent : Carries(sent[i], k[1])
        BY <3>1
      <4>2. i - 1 \in DOMAIN sent' /\ Carries(sent'[i - 1], k[1])
        BY <2>2, <2>3, <4>1
      <4>. QED
        BY <2>1, <3>1, <4>2 DEF Answer
    <3>2. CASE ~ (linked /\ \E i \in DOMAIN sent : Carries(sent[i], k[1]))
      BY <2>1, <2>3, <3>2 DEF Answer, ConfigAt
    <3>. QED
      BY <3>1, <3>2
  <2>4. CASE Head(sent).t = "data_changed" /\ UNCHANGED <<waiting, ignored>>
    <3>1. \A g : ~ Carries(sent[1], g)
      BY <2>2, <2>4 DEF Carries
    <3>. QED
      BY <2>3, <2>4, <3>1 DEF Answering
  <2>5. ASSUME NEW confs, applyTdConfig(confs), \A g : Carries(sent[1], g) => g \in DOMAIN confs
        PROVE  Answering'
    <3>. DEFINE keys == UNION {KeysOf(g) : g \in DOMAIN confs}
    <3>1. settle(keys)
      BY <2>5 DEF applyTdConfig
    <3>2. \A k \in waiting \ keys : k[1] \notin DOMAIN confs
      BY DEF KeysOf
    <3>3. \A k \in waiting \ keys : Answer(k) => Answer(k)'
      BY <2>3, <2>5, <3>2
    <3>. HIDE DEF keys
    <3>. QED
      BY <3>1, <3>3, SettledKeys
  <2>6. CASE Head(sent).t = "config" /\ applyTdConfig([g \in {Head(sent).g} |-> Head(sent).conf])
    <3>1. PICK confs : confs = [g \in {Head(sent).g} |-> Head(sent).conf]
      OBVIOUS
    <3>2. \A g : Carries(sent[1], g) => g \in DOMAIN confs
      BY <2>2, <2>6, <3>1 DEF Carries
    <3>. QED
      BY <2>5, <2>6, <3>1, <3>2
  <2>7. CASE Head(sent).t = "snapshot" /\ applyTdConfig(Head(sent).confs)
    <3>1. \A g : Carries(sent[1], g) => g \in DOMAIN Head(sent).confs
      BY <2>2, <2>7 DEF Carries
    <3>. QED
      BY <2>5, <2>7, <3>1
  <2>. QED
    BY <1>8, <2>4, <2>6, <2>7, Received DEF Types
<1>9. CASE Connect
  <2>1. UNCHANGED <<toGw, frames, configs, posts, waiting, ignored>> /\ ~ linked /\ linked'
    BY <1>9 DEF Connect, gateways, registry, page
  <2>2. PICK m : m = [t |-> "snapshot", confs |-> configs]
    OBVIOUS
  <2>3. \A g \in DOMAIN configs : Carries(m, g)
    BY <2>2 DEF Carries
  <2>4. 1 \in DOMAIN sent' /\ sent'[1] = m
    BY <1>9, <2>2 DEF Connect
  <2>5. \A k : Answer(k) => Answer(k)'
    BY <2>1, <2>3, <2>4 DEF Answer, ConfigAt
  <2>. QED
    BY <2>1, <2>5 DEF Answering
<1>10. CASE Disconnect
  <2>1. UNCHANGED <<toGw, frames, configs, posts, waiting, ignored>> /\ linked /\ ~ linked'
    BY <1>10 DEF Disconnect, gateways, registry, page
  <2>2. ASSUME NEW k \in waiting, Answer(k)
        PROVE  Answer(k)'
    <3>1. k[1] \in Gateways
      BY DEF Answering
    <3>2. CASE \E i \in DOMAIN sent : Carries(sent[i], k[1])
      BY <2>1, <3>1, <3>2 DEF Answer, Pictured
    <3>3. CASE ~ \E i \in DOMAIN sent : Carries(sent[i], k[1])
      BY <2>1, <2>2, <3>3 DEF Answer, ConfigAt
    <3>. QED
      BY <3>2, <3>3
  <2>. QED
    BY <2>1, <2>2 DEF Answering
<1>11. CASE ServerRestarts
  BY <1>11 DEF ServerRestarts, Answering
<1>12. CASE ~ \/ apply_config_change \/ (\E g \in Gateways : GatewayStarts(g))
              \/ (\E g \in Gateways : GatewayAnswers(g)) \/ MasterReports \/ ApplyFrame
              \/ (\E r \in posts : dispatch(r)) \/ (\E r \in posts : Respond(r))
              \/ (\E g \in Gateways, a \in Accounts, op \in AccountOps, to \in {"on", "off"} : Submit(g, a, op, to))
              \/ (\E key \in waiting : Timeout(key))
              \/ Receive \/ Connect \/ Disconnect \/ ServerRestarts
  <2>1. UNCHANGED <<toGw, frames, configs, posts, sent, linked, waiting, ignored>>
    BY <1>12, Kinds, Zenon DEF GatewayExits, SessionChanges, Others, AnswerList, TakeList, Retry,
         gateways, page, registry
  <2>2. \A k : Answer(k) => Answer(k)'
    BY <2>1 DEF Answer, ConfigAt
  <2>. QED
    BY <2>1, <2>2 DEF Answering
<1>. QED
  BY <1>1, <1>2, <1>3, <1>4, <1>5, <1>6, <1>7, <1>8, <1>9, <1>10, <1>11, <1>12

-----------------------------------------------------------------------------
(* The invariant holds at the start, is kept, and says what is checked. *)
LEMMA InitInv ==
    ASSUME AccountInit
    PROVE  RInv
<1>1. Types
  BY InitTypes
<1>0. PICK first : first = (CHOOSE g \in Gateways : TRUE)
  OBVIOUS
<1>2. PICK has \in BOOLEAN :
        own = [g \in Gateways |-> [a \in Accounts |-> IF g = first /\ has THEN "on" ELSE "none"]]
  BY <1>0 DEF AccountInit
<1>3. \A g \in Gateways : \A a \in Holds(own[g]) : g = first /\ own[g][a] = "on"
  BY <1>2 DEF Holds
<1>4. /\ configs = own /\ DOMAIN configs = Gateways /\ live = Gateways /\ up = Gateways
      /\ asked = {} /\ frames = <<>> /\ contested = {} /\ stray = {} /\ linked /\ sent = <<>>
      /\ loads = {} /\ ~ retry /\ waiting = {} /\ ~ unseen
  BY <1>2 DEF AccountInit
<1>5. Alone
  BY <1>3 DEF Alone
<1>6. /\ \A g : Said(0, g) <=> g \in Gateways
      /\ \A g : Word(0, g) = own[g]
      /\ 0..Len(frames) = {0}
  BY <1>4, NoElements DEF Said, ConfigAt, Word
<1>7. Spoken
  BY <1>4, <1>6 DEF Spoken
<1>8. Apart
  BY <1>3, <1>6 DEF Apart, Standing
<1>9. /\ DOMAIN store = {b \in Accounts : \E g \in Gateways : b \in Holds(own[g])}
      /\ \A a \in DOMAIN store : store[a] \in Gateways /\ a \in Holds(own[store[a]])
  <2>1. store = [a \in {b \in Accounts : \E g \in Gateways : b \in Holds(own[g])} |->
                   CHOOSE g \in Gateways : a \in Holds(own[g])]
    BY DEF AccountInit
  <2>. QED
    BY <2>1
<1>10. DOMAIN entries = DOMAIN store /\ \A a \in DOMAIN store : entries[a].gw = store[a] /\ entries[a].on = TRUE
  <2>1. entries = load(store)
    BY DEF AccountInit
  <2>. QED
    BY <2>1 DEF load
<1>11. StoreFollows
  BY <1>10 DEF StoreFollows
<1>12. Kept
  <2>1. ASSUME NEW a \in Accounts, NEW g \in Gateways
        PROVE  KeptFor(a, g)
    BY <1>3, <1>4, <1>9, <1>10 DEF KeptFor
  <2>2. ASSUME NEW a \in DOMAIN entries
        PROVE  Backed(a)
    <3>1. entries[a].gw \in Gateways /\ a \in Holds(own[entries[a].gw]) /\ entries[a].on = TRUE
      BY <1>9, <1>10
    <3>2. own[entries[a].gw][a] = "on"
      BY <1>3, <3>1
    <3>. QED
      BY <1>4, <3>1, <3>2 DEF Backed, True, Configured
  <2>. QED
    BY <2>1, <2>2 DEF Kept
<1>13. list.reg = entries /\ list.avail = TRUE /\ list.confs = own
  BY DEF AccountInit
<1>14. Listed
  BY <1>4, <1>13 DEF Listed
<1>15. Pictured
  <2>1. /\ \A g : Seen(0, g) <=> g \in Gateways
        /\ \A g : Value(0, g) = own[g]
        /\ 0..Len(sent) = {0} /\ DOMAIN sent = {}
    BY <1>4, <1>13, NoElements DEF Seen, Value
  <2>. QED
    BY <1>4, <2>1 DEF Pictured
<1>16. Answering
  BY <1>4 DEF Answering
<1>. QED
  BY <1>1, <1>5, <1>7, <1>8, <1>11, <1>12, <1>14, <1>15, <1>16 DEF RInv

LEMMA Inductive ==
    ASSUME RInv, [AccountNext]_accountVars
    PROVE  RInv'
<1>1. CASE AccountNext
  <2>1. Types' /\ Alone' /\ WorldStep
    BY <1>1, TypesKept, AloneKept, WorldSteps DEF RInv
  <2>2. Spoken' /\ Apart' /\ Kept' /\ StoreFollows'
    BY <2>1, ReportedKept, ApartKept, KeptKept, StoreKept DEF RInv
  <2>3. Listed' /\ Pictured' /\ Answering'
    BY <1>1, <2>1, ListedKept, ShownKept, AnsweringKept DEF RInv
  <2>. QED
    BY <2>1, <2>2, <2>3 DEF RInv
<1>2. CASE UNCHANGED accountVars
  <2>1. /\ UNCHANGED <<own, live, up, active, toGw, asked, frames, entries, snapshot, configs, store>>
        /\ UNCHANGED <<linked, sent, list, loads, retry, waiting, posts, submits, turns>>
        /\ UNCHANGED <<contested, unsaved, stray, unseen, ignored>>
    BY <1>2 DEF accountVars, gateways, registry, page
  <2>2. Types'
    BY <2>1 DEF RInv, Types, GatewayOK, RegistryOK, PageOK
  <2>3. WorldStep
    BY <2>1 DEF WorldStep, WorldSame
  <2>4. Alone'
    BY <2>1 DEF RInv, Alone
  <2>5. Spoken' /\ Apart' /\ Kept' /\ StoreFollows'
    BY <2>2, <2>3, <2>4, ReportedKept, ApartKept, KeptKept, StoreKept DEF RInv
  <2>6. Listed'
    BY <2>1 DEF RInv, Listed, Told
  <2>7. Pictured'
    BY <2>1 DEF RInv, Pictured, LastSeen, Seen, Value
  <2>8. Answering'
    BY <2>1 DEF RInv, Answering, Answer, ConfigAt
  <2>. QED
    BY <2>2, <2>4, <2>5, <2>6, <2>7, <2>8 DEF RInv
<1>. QED
  BY <1>1, <1>2

LEMMA RegistryPart ==
    ASSUME RInv
    PROVE  RegistryHonest
<1>1. AccountTypeOK
  <2>1. Cardinality(loads) <= 1
    <3>1. loads = {} \/ \E l : loads = {l}
      <4>1. \A l, m \in loads : l = m
        BY DEF RInv, Types, PageOK
      <4>2. CASE \E l : l \in loads
        <5>1. PICK l : l \in loads
          BY <4>2
        <5>2. loads = {l}
          BY <4>1, <5>1
        <5>. QED
          BY <5>2
      <4>3. CASE ~ \E l : l \in loads
        BY <4>3
      <4>. QED
        BY <4>2, <4>3
    <3>2. CASE loads = {}
      BY <3>2, FS_EmptySet
    <3>3. CASE \E l : loads = {l}
      <4>1. Cardinality(loads) = 1
        BY <3>3, FS_Singleton
      <4>. QED
        BY <4>1
    <3>. QED
      BY <3>1, <3>2, <3>3
  <2>2. DOMAIN entries \subseteq Accounts /\ DOMAIN store \subseteq Accounts
    BY DEF RInv, Types, RegistryOK, Regs
  <2>3. \A g \in Gateways : own[g] \in [Accounts -> {"none", "on", "off"}]
    BY DEF RInv, Types, GatewayOK, Confs
  <2>. QED
    BY <2>1, <2>2, <2>3 DEF AccountTypeOK
<1>2. ASSUME Quiet
      PROVE  RegistryFollows
  <2>1. /\ frames = <<>> /\ asked = {} /\ 0..Len(frames) = {0}
        /\ \A g : Said(0, g) <=> g \in DOMAIN configs
        /\ \A g : ~ Prunes(g)
    BY <1>2, NoElements DEF Quiet, Said, ConfigAt, Prunes
  <2>2. \A g \in Gateways : g \in DOMAIN configs => configs[g] = own[g]
    <3>1. \A g : g \in DOMAIN configs => LastWord(0, g) /\ Word(0, g) = configs[g]
      BY <2>1 DEF LastWord, Word
    <3>. QED
      BY <2>1, <3>1 DEF RInv, Spoken
  <2>3. \A g \in Gateways : g \in up => g \in DOMAIN configs
    BY <2>1 DEF RInv, Spoken
  <2>4. live \subseteq Gateways /\ \A a \in DOMAIN entries : entries[a].gw \in Gateways
    BY DEF RInv, Types, GatewayOK, RegistryOK, Regs, Entries
  <2>5. ASSUME NEW a \in Accounts \ contested, NEW g \in live \ stray,
               a \in Holds(own[g]), g \in up \/ g \in DOMAIN configs
        PROVE  a \in DOMAIN entries /\ entries[a].gw = g
    <3>1. g \in Gateways /\ g \in DOMAIN configs /\ configs[g] = own[g]
      BY <2>2, <2>3, <2>4, <2>5
    <3>. QED
      BY <2>5, <3>1 DEF RInv, Kept, KeptFor
  <2>6. ASSUME NEW a \in DOMAIN entries, entries[a].gw \notin stray
        PROVE  /\ entries[a].gw \in live
               /\ entries[a].gw \in DOMAIN configs =>
                    a \in Holds(own[entries[a].gw]) /\ entries[a].on = (own[entries[a].gw][a] = "on")
    <3>1. True(a) /\ Configured(entries[a].gw)
      BY DEF RInv, Kept, Backed
    <3>2. entries[a].gw \in live
      BY <2>1, <2>6, <3>1 DEF Configured
    <3>3. entries[a].gw \in DOMAIN configs => configs[entries[a].gw] = own[entries[a].gw]
      BY <2>2, <2>4
    <3>. QED
      BY <3>1, <3>2, <3>3 DEF True
  <2>. QED
    BY <2>5, <2>6 DEF RegistryFollows
<1>3. ListFollows
  <2>. SUFFICES ASSUME linked, sent = <<>>, loads = {}, ~ retry, ~ unseen
                PROVE  /\ list.avail /\ list.reg = entries
                       /\ \A g \in DOMAIN configs : g \in DOMAIN list.confs /\ list.confs[g] = configs[g]
    BY DEF ListFollows
  <2>1. 0..Len(sent) = {0} /\ DOMAIN sent = {}
    BY NoElements
  <2>2. list.avail /\ list.reg = entries
    BY <2>1 DEF RInv, Listed, Told
  <2>3. ASSUME NEW g \in DOMAIN configs
        PROVE  g \in DOMAIN list.confs /\ list.confs[g] = configs[g]
    <3>1. /\ \E i \in 0..Len(sent) : Seen(i, g)
          /\ \A i \in 0..Len(sent) : LastSeen(i, g) => Value(i, g) = configs[g]
      BY DEF RInv, Pictured
    <3>2. Seen(0, g)
      BY <2>1, <3>1
    <3>3. LastSeen(0, g)
      BY <2>1, <3>2 DEF LastSeen
    <3>. QED
      BY <2>1, <3>1, <3>2, <3>3 DEF Seen, Value
  <2>. QED
    BY <2>2, <2>3
<1>4. SubmitsAnswered
  <2>. SUFFICES ASSUME Quiet, toGw = <<>>, posts = {}, linked, sent = <<>>
                PROVE  waiting \subseteq ignored
    BY DEF SubmitsAnswered
  <2>1. \A k : ~ Answer(k)
    BY NoElements DEF Answer, Quiet
  <2>. QED
    BY <2>1 DEF RInv, Answering
<1>. QED
  BY <1>1, <1>2, <1>3, <1>4 DEF RegistryHonest, RegistryFollows, RInv

(* For any gateways, accounts and bounds: once every frame is applied the
   registry has the accounts the configured gateways have, its table has what
   it has, the page shows it, and no operation of the page waits for an answer
   nobody will give, whatever requests, reports, restarts, failing writes and
   lost connections came in between. *)
THEOREM RegistryIsHonest == AccountSpec => []RegistryHonest
<1>1. AccountInit => RInv
  BY InitInv
<1>2. RInv /\ [AccountNext]_accountVars => RInv'
  BY Inductive
<1>3. RInv => RegistryHonest
  BY RegistryPart
<1>. QED
  BY <1>1, <1>2, <1>3, PTL DEF AccountSpec

-----------------------------------------------------------------------------
(***************************************************************************)
(* WebMirror.  The frames that are under way take the mirror to one that   *)
(* agrees with the master (WorldInv), the messages under way take what the *)
(* browser shows to the mirror (ViewInv), and a pending operation of the   *)
(* master's has its request, its command or its answer under way           *)
(* (AwaitInv).                                                             *)
(***************************************************************************)

(* The types of the mirror, of the frames and of the browser's stores. *)
States    == {"Running", "Stopping", "Stopped", "Crashed"}
Operations == {"start", "stop", "remove"} \cup {"login", "logout", "config", "auto_login"}
Remarks   == {"online", "offline", "failed", ""}
StatusMaps == UNION {[S -> States] : S \in SUBSET Procs}
DomMaps   == [Domains -> [Procs -> Nat]]

Mirrors == [known : BOOLEAN, conf : SUBSET Procs, status : StatusMaps, dom : DomMaps]

MirrorConfigs == [k : {"config"}, names : SUBSET Procs]
StatusFrames == [k : {"status"}, p : Procs, st : States, ev : Operations \cup {""}]
ReportFrames == [k : {"report"}, d : Domains, p : Procs, n : Nat, note : Remarks]
MirrorFrames == MirrorConfigs \cup StatusFrames \cup ReportFrames

Keys == Procs \X (Operations \cup {""})

Views == [known : BOOLEAN, conf : SUBSET Procs, status : StatusMaps, dom : DomMaps,
          state : [Procs -> Remarks], seen : SUBSET Nat,
          cleared : SUBSET Keys]

(* What every mirror is: it has a status of configured processes only. *)
Sound(m) ==
    /\ m \in Mirrors
    /\ DOMAIN m.status \subseteq m.conf
    /\ ~ m.known => m.conf = {}

MirrorMessages == [t : {"snapshot"}, m : {m \in Mirrors : Sound(m)}] \cup [t : {"frame"}, f : MirrorFrames]

LEMMA IsKey ==
    ASSUME NEW p \in Procs, NEW o \in Operations \cup {""}
    PROVE  <<p, o>> \in Keys
BY DEF Keys

LEMMA InStatusMaps ==
    ASSUME NEW s
    PROVE  s \in StatusMaps <=> s \in [DOMAIN s -> States] /\ DOMAIN s \subseteq Procs
<1>1. ASSUME s \in StatusMaps PROVE s \in [DOMAIN s -> States] /\ DOMAIN s \subseteq Procs
  <2>1. PICK S \in SUBSET Procs : s \in [S -> States]
    BY <1>1 DEF StatusMaps
  <2>. QED  BY <2>1
<1>2. ASSUME s \in [DOMAIN s -> States], DOMAIN s \subseteq Procs PROVE s \in StatusMaps
  <2> DEFINE S == DOMAIN s
  <2>1. S \in SUBSET Procs /\ s \in [S -> States]
    BY <1>2
  <2> HIDE DEF S
  <2>. QED  BY <2>1 DEF StatusMaps
<1>. QED  BY <1>1, <1>2

LEMMA OverrideIs ==
    ASSUME NEW s \in StatusMaps, NEW p \in Procs, NEW st \in States
    PROVE  /\ Override(s, p, st) \in StatusMaps
           /\ DOMAIN Override(s, p, st) = DOMAIN s \cup {p}
           /\ Override(s, p, st)[p] = st
           /\ \A q \in DOMAIN s : q # p => Override(s, p, st)[q] = s[q]
<1> DEFINE o == Override(s, p, st)
<1>1. s \in [DOMAIN s -> States] /\ DOMAIN s \subseteq Procs
  BY InStatusMaps
<1>2. /\ DOMAIN o = DOMAIN s \cup {p} /\ o[p] = st
      /\ \A q \in DOMAIN s : q # p => o[q] = s[q]
      /\ o \in [DOMAIN s \cup {p} -> States]
  BY <1>1 DEF Override
<1>. HIDE DEF o
<1>3. o \in StatusMaps
  BY <1>1, <1>2, InStatusMaps
<1>. QED  BY <1>2, <1>3 DEF o

LEMMA RestrictIs ==
    ASSUME NEW s \in StatusMaps, NEW S \in SUBSET DOMAIN s
    PROVE  /\ Restrict(s, S) \in StatusMaps
           /\ DOMAIN Restrict(s, S) = S
           /\ \A q \in S : Restrict(s, S)[q] = s[q]
<1> DEFINE o == Restrict(s, S)
<1>1. s \in [DOMAIN s -> States] /\ DOMAIN s \subseteq Procs
  BY InStatusMaps
<1>2. /\ DOMAIN o = S /\ \A q \in S : o[q] = s[q]
      /\ o \in [S -> States]
  BY <1>1 DEF Restrict
<1>. HIDE DEF o
<1>3. o \in StatusMaps
  BY <1>1, <1>2, InStatusMaps
<1>. QED  BY <1>2, <1>3 DEF o

-----------------------------------------------------------------------------
(* A frame applied to the mirror, kind by kind. *)
LEMMA ConfigApplied ==
    ASSUME NEW m, Sound(m), NEW names \in SUBSET Procs
    PROVE  LET n == update_process_configs(m, names)
           IN /\ Sound(n) /\ n.known /\ n.conf = names
              /\ DOMAIN n.status = DOMAIN m.status \cap names
              /\ \A p \in DOMAIN n.status : n.status[p] = m.status[p]
              /\ \A d \in Domains, p \in Procs :
                   n.dom[d][p] = IF d \in Volatile /\ p \in m.conf \ names THEN None ELSE m.dom[d][p]
<1> DEFINE gone == m.conf \ names
           s == Restrict(m.status, DOMAIN m.status \ gone)
           e == [d \in Domains |-> [p \in Procs |->
                   IF d \in Volatile /\ p \in gone THEN None ELSE m.dom[d][p]]]
           n == update_process_configs(m, names)
<1>1. m \in Mirrors /\ DOMAIN m.status \subseteq m.conf
  BY DEF Sound
<1>2. m.status \in StatusMaps /\ m.dom \in DomMaps
  BY <1>1 DEF Mirrors
<1>3. DOMAIN m.status \ gone = DOMAIN m.status \cap names
  BY <1>1
<1>4. /\ s \in StatusMaps /\ DOMAIN s = DOMAIN m.status \cap names
      /\ \A q \in DOMAIN s : s[q] = m.status[q]
  BY <1>2, <1>3, RestrictIs
<1>5. e \in DomMaps
  BY <1>2 DEF DomMaps, None
<1>6. \A d \in Domains, p \in Procs :
         e[d][p] = IF d \in Volatile /\ p \in gone THEN None ELSE m.dom[d][p]
  OBVIOUS
<1>7. n = [m EXCEPT !.known = TRUE, !.conf = names, !.status = s, !.dom = e]
  BY DEF update_process_configs
<1> HIDE DEF s, e, n
<1>8. n \in Mirrors /\ n.known = TRUE /\ n.conf = names /\ n.status = s /\ n.dom = e
  BY <1>1, <1>4, <1>5, <1>7 DEF Mirrors
<1>9. Sound(n)
  BY <1>4, <1>8 DEF Sound
<1>. QED
  BY <1>4, <1>6, <1>8, <1>9 DEF n

LEMMA StaleMarked ==
    ASSUME NEW m, Sound(m), NEW p \in Procs
    PROVE  LET n == mark_stale(m, p)
           IN /\ Sound(n) /\ n.known = m.known /\ n.conf = m.conf /\ n.status = m.status
              /\ \A d \in Domains, q \in Procs :
                   n.dom[d][q] = IF d \in Volatile /\ q = p THEN None ELSE m.dom[d][q]
<1> DEFINE e == [d \in Domains |-> IF d \in Volatile THEN [m.dom[d] EXCEPT ![p] = None] ELSE m.dom[d]]
           n == mark_stale(m, p)
<1>1. m \in Mirrors
  BY DEF Sound
<1>2. m.dom \in DomMaps
  BY <1>1 DEF Mirrors
<1>3. \A d \in Domains : m.dom[d] \in [Procs -> Nat]
  BY <1>2 DEF DomMaps
<1>4. /\ e \in DomMaps
      /\ \A d \in Domains, q \in Procs :
           e[d][q] = IF d \in Volatile /\ q = p THEN None ELSE m.dom[d][q]
  BY <1>3 DEF DomMaps, None
<1>5. n = [m EXCEPT !.dom = e]
  BY DEF mark_stale
<1> HIDE DEF e, n
<1>6. n \in Mirrors /\ n.known = m.known /\ n.conf = m.conf /\ n.status = m.status /\ n.dom = e
  BY <1>1, <1>4, <1>5 DEF Mirrors
<1>7. Sound(n)
  BY <1>6 DEF Sound
<1>. QED
  BY <1>4, <1>6, <1>7 DEF n

WithStatus(m, p, st) == [m EXCEPT !.status = Override(@, p, st)]

LEMMA StatusSet ==
    ASSUME NEW m, Sound(m), NEW p \in m.conf, NEW st \in States
    PROVE  LET n == WithStatus(m, p, st)
           IN /\ Sound(n) /\ n.known = m.known /\ n.conf = m.conf /\ n.dom = m.dom
              /\ DOMAIN n.status = DOMAIN m.status \cup {p} /\ n.status[p] = st
              /\ \A q \in DOMAIN m.status : q # p => n.status[q] = m.status[q]
<1> DEFINE s == Override(m.status, p, st)
           n == WithStatus(m, p, st)
<1>1. m \in Mirrors /\ m.conf \subseteq Procs /\ p \in Procs /\ m.status \in StatusMaps
  BY DEF Sound, Mirrors
<1>2. /\ s \in StatusMaps /\ DOMAIN s = DOMAIN m.status \cup {p} /\ s[p] = st
      /\ \A q \in DOMAIN m.status : q # p => s[q] = m.status[q]
  BY <1>1, OverrideIs
<1>3. n = [m EXCEPT !.status = s]
  BY DEF WithStatus
<1> HIDE DEF s, n
<1>4. n \in Mirrors /\ n.known = m.known /\ n.conf = m.conf /\ n.status = s /\ n.dom = m.dom
  BY <1>1, <1>2, <1>3 DEF Mirrors
<1>5. Sound(n)
  BY <1>2, <1>4 DEF Sound
<1>. QED
  BY <1>2, <1>4, <1>5 DEF n

LEMMA StatusApplied ==
    ASSUME NEW m, Sound(m), NEW f \in StatusFrames
    PROVE  LET n == on_rtn_process_status(m, f)
           IN /\ Sound(n) /\ n.known = m.known /\ n.conf = m.conf
              /\ f.p \notin m.conf => n = m
              /\ f.p \in m.conf =>
                   /\ DOMAIN n.status = DOMAIN m.status \cup {f.p}
                   /\ n.status[f.p] = f.st
                   /\ \A q \in DOMAIN m.status : q # f.p => n.status[q] = m.status[q]
                   /\ \A d \in Domains, q \in Procs :
                        n.dom[d][q] = IF f.st \in Down /\ d \in Volatile /\ q = f.p THEN None
                                      ELSE m.dom[d][q]
<1> DEFINE n == on_rtn_process_status(m, f)
           o == WithStatus(m, f.p, f.st)
<1>1. f.p \in Procs /\ f.st \in States
  BY DEF StatusFrames
<1>2. CASE f.p \notin m.conf
  BY <1>2 DEF on_rtn_process_status
<1>3. CASE f.p \in m.conf
  <2>1. /\ Sound(o) /\ o.known = m.known /\ o.conf = m.conf /\ o.dom = m.dom
        /\ DOMAIN o.status = DOMAIN m.status \cup {f.p} /\ o.status[f.p] = f.st
        /\ \A q \in DOMAIN m.status : q # f.p => o.status[q] = m.status[q]
    BY <1>1, <1>3, StatusSet
  <2>2. n = IF f.st \in Down THEN mark_stale(o, f.p) ELSE o
    BY <1>3 DEF on_rtn_process_status, WithStatus
  <2> HIDE DEF o, n
  <2>3. CASE f.st \in Down
    <3> DEFINE x == mark_stale(o, f.p)
    <3>1. /\ Sound(x) /\ x.known = o.known /\ x.conf = o.conf /\ x.status = o.status
          /\ \A d \in Domains, q \in Procs :
               x.dom[d][q] = IF d \in Volatile /\ q = f.p THEN None ELSE o.dom[d][q]
      BY <1>1, <2>1, StaleMarked
    <3>2. n = x
      BY <2>2, <2>3
    <3> HIDE DEF x
    <3>. QED  BY <1>3, <2>1, <2>3, <3>1, <3>2 DEF n
  <2>4. CASE f.st \notin Down
    <3>1. n = o
      BY <2>2, <2>4
    <3>. QED  BY <1>3, <2>1, <2>4, <3>1 DEF n
  <2>. QED  BY <2>3, <2>4
<1>. QED
  BY <1>2, <1>3

WithReport(m, f) == [m EXCEPT !.dom[f.d][f.p] = f.n]

LEMMA ReportTakes ==
    ASSUME NEW m, Sound(m), NEW f \in ReportFrames
    PROVE  LET n == WithReport(m, f)
           IN /\ Sound(n) /\ n.known = m.known /\ n.conf = m.conf /\ n.status = m.status
              /\ \A d \in Domains, q \in Procs :
                   n.dom[d][q] = IF d = f.d /\ q = f.p THEN f.n ELSE m.dom[d][q]
<1> DEFINE e == [m.dom EXCEPT ![f.d][f.p] = f.n]
           n == WithReport(m, f)
<1>1. m \in Mirrors /\ f.p \in Procs /\ f.d \in Domains /\ f.n \in Nat
  BY DEF Sound, ReportFrames
<1>2. m.dom \in DomMaps
  BY <1>1 DEF Mirrors
<1>3. \A d \in Domains : m.dom[d] \in [Procs -> Nat]
  BY <1>2 DEF DomMaps
<1>4. /\ e \in DomMaps
      /\ \A d \in Domains, q \in Procs :
           e[d][q] = IF d = f.d /\ q = f.p THEN f.n ELSE m.dom[d][q]
  BY <1>1, <1>2, <1>3 DEF DomMaps
<1>5. n = [m EXCEPT !.dom = e]
  BY DEF WithReport
<1> HIDE DEF e, n
<1>6. n \in Mirrors /\ n.known = m.known /\ n.conf = m.conf /\ n.status = m.status /\ n.dom = e
  BY <1>1, <1>4, <1>5 DEF Mirrors
<1>7. Sound(n)
  BY <1>6 DEF Sound
<1>. QED
  BY <1>4, <1>6, <1>7 DEF n

LEMMA FrameKinds ==
    ASSUME NEW f \in MirrorFrames
    PROVE  /\ f \in MirrorConfigs \/ f \in StatusFrames \/ f \in ReportFrames
           /\ f \in MirrorConfigs => f.k = "config"
           /\ f \in StatusFrames => f.k = "status"
           /\ f \in ReportFrames => f.k = "report"
BY DEF MirrorFrames, MirrorConfigs, StatusFrames, ReportFrames

LEMMA FrameApplied ==
    ASSUME NEW m, NEW f \in MirrorFrames
    PROVE  /\ f \in MirrorConfigs => on_frame(m, f) = update_process_configs(m, f.names)
           /\ f \in StatusFrames => on_frame(m, f) = on_rtn_process_status(m, f)
           /\ f \in ReportFrames => on_frame(m, f) = WithReport(m, f)
BY FrameKinds DEF on_frame, WithReport

LEMMA StaysSound ==
    ASSUME NEW m, Sound(m), NEW f \in MirrorFrames
    PROVE  Sound(on_frame(m, f))
<1>1. CASE f \in MirrorConfigs
  <2>1. f.names \in SUBSET Procs
    BY <1>1 DEF MirrorConfigs
  <2>2. Sound(update_process_configs(m, f.names))
    BY <2>1, ConfigApplied
  <2>. QED  BY <1>1, <2>2, FrameApplied
<1>2. CASE f \in StatusFrames
  <2>1. Sound(on_rtn_process_status(m, f))
    BY <1>2, StatusApplied
  <2>. QED  BY <1>2, <2>1, FrameApplied
<1>3. CASE f \in ReportFrames
  <2>1. Sound(WithReport(m, f))
    BY <1>3, ReportTakes
  <2>. QED  BY <1>3, <2>1, FrameApplied
<1>. QED
  BY <1>1, <1>2, <1>3, FrameKinds

-----------------------------------------------------------------------------
(* A frame applied to the stores of the browser, kind by kind. *)
LEMMA ViewConfig ==
    ASSUME NEW v \in Views, NEW names \in SUBSET Procs
    PROVE  LET w == applyProcessConfig(v, names)
           IN /\ w \in Views /\ w.known = TRUE /\ w.conf = names /\ w.dom = v.dom
              /\ DOMAIN w.status = DOMAIN v.status \cap names
              /\ \A p \in DOMAIN w.status : w.status[p] = v.status[p]
              /\ w.cleared = v.cleared
<1> DEFINE s == Restrict(v.status, DOMAIN v.status \cap names)
           w == applyProcessConfig(v, names)
<1>1. v.status \in StatusMaps
  BY DEF Views
<1>2. /\ s \in StatusMaps /\ DOMAIN s = DOMAIN v.status \cap names
      /\ \A p \in DOMAIN s : s[p] = v.status[p]
  BY <1>1, RestrictIs
<1>3. w = [v EXCEPT !.known = TRUE, !.conf = names, !.status = s]
  BY DEF applyProcessConfig
<1> HIDE DEF s, w
<1>4. /\ w \in Views /\ w.known = TRUE /\ w.conf = names /\ w.status = s
      /\ w.dom = v.dom /\ w.cleared = v.cleared
  BY <1>2, <1>3 DEF Views
<1>. QED
  BY <1>2, <1>4 DEF w

LEMMA ViewStatus ==
    ASSUME NEW v \in Views, NEW f \in StatusFrames
    PROVE  LET w == applyProcessStatus(v, f)
           IN /\ w \in Views /\ w.known = v.known /\ w.conf = v.conf /\ w.dom = v.dom
              /\ Ignored(v, f.p) => w.status = v.status
              /\ ~ Ignored(v, f.p) =>
                   /\ DOMAIN w.status = DOMAIN v.status \cup {f.p}
                   /\ w.status[f.p] = f.st
                   /\ \A q \in DOMAIN v.status : q # f.p => w.status[q] = v.status[q]
              /\ w.cleared = v.cleared \cup {<<f.p, f.ev>>}
<1> DEFINE p == f.p
           st == f.st
           o == Override(v.status, p, st)
           s == IF Ignored(v, f.p) THEN v.status ELSE o
           c == v.cleared \cup {<<f.p, f.ev>>}
           w == applyProcessStatus(v, f)
<1>1. /\ v.status \in StatusMaps /\ f.p \in Procs /\ f.st \in States
      /\ f.ev \in Operations \cup {""} /\ p \in Procs /\ st \in States
  BY DEF Views, StatusFrames
<1>2. /\ o \in StatusMaps /\ DOMAIN o = DOMAIN v.status \cup {p} /\ o[p] = st
      /\ \A q \in DOMAIN v.status : q # p => o[q] = v.status[q]
  <2> HIDE DEF p, st
  <2>. QED  BY <1>1, OverrideIs, ZenonT(60)
<1>3. s \in StatusMaps
  BY <1>1, <1>2
<1>4. c \in SUBSET Keys
  BY <1>1, IsKey DEF Views
<1>5. w = [v EXCEPT !.status = s, !.cleared = c]
  BY DEF applyProcessStatus
<1> HIDE DEF o, c, w
<1>6. /\ w \in Views /\ w.known = v.known /\ w.conf = v.conf /\ w.dom = v.dom
      /\ w.status = s /\ w.cleared = c
  <2> HIDE DEF s
  <2>. QED  BY <1>3, <1>4, <1>5 DEF Views
<1>. QED
  BY <1>2, <1>6 DEF w, c

LEMMA ViewReport ==
    ASSUME NEW v \in Views, NEW f \in ReportFrames
    PROVE  LET w == applyReport(v, f)
           IN /\ w \in Views /\ w.known = v.known /\ w.conf = v.conf /\ w.status = v.status
              /\ \A d \in Domains, q \in Procs :
                   w.dom[d][q] = IF d = f.d /\ q = f.p THEN f.n ELSE v.dom[d][q]
<1> DEFINE e == [v.dom EXCEPT ![f.d][f.p] = f.n]
           st == [v.state EXCEPT ![f.p] = IF f.d = "progress" THEN f.note ELSE @]
           sn == IF f.note = "failed" THEN v.seen \cup {f.n} ELSE v.seen
           u == [v EXCEPT !.dom[f.d][f.p] = f.n,
                          !.state[f.p] = IF f.d = "progress" THEN f.note ELSE @,
                          !.seen = IF f.note = "failed" THEN @ \cup {f.n} ELSE @]
           owns == CASE f.d = "md_config"  -> {<<f.p, "config">>}
                    [] f.d = "auto_login" -> {<<f.p, "auto_login">>}
                    [] f.d = "md_status"  -> IF f.note = "failed" /\ f.n \notin v.seen
                                             THEN {<<f.p, "login">>} ELSE {}
                    [] OTHER -> watchers(u)
           w == applyReport(v, f)
<1>1. /\ f.p \in Procs /\ f.d \in Domains /\ f.n \in Nat /\ f.note \in Remarks
      /\ v.dom \in DomMaps /\ v.state \in [Procs -> Remarks] /\ v.seen \subseteq Nat
  BY DEF ReportFrames, Views
<1>2. \A d \in Domains : v.dom[d] \in [Procs -> Nat]
  BY <1>1 DEF DomMaps
<1>3. /\ e \in DomMaps
      /\ \A d \in Domains, q \in Procs :
           e[d][q] = IF d = f.d /\ q = f.p THEN f.n ELSE v.dom[d][q]
  BY <1>1, <1>2 DEF DomMaps
<1>4. st \in [Procs -> Remarks] /\ sn \in SUBSET Nat
  BY <1>1
<1>5. u = [v EXCEPT !.dom = e, !.state = st, !.seen = sn]
  BY <1>1
<1>6. w = [u EXCEPT !.cleared = @ \cup owns]
  BY DEF applyReport
<1>7. owns \subseteq Keys
  <2>1. watchers(u) \subseteq Keys
    BY IsKey DEF watchers, Operations
  <2> HIDE DEF u
  <2>. QED  BY <1>1, <2>1, IsKey DEF Operations
<1> HIDE DEF e, st, sn, u, owns, w
<1>8. /\ u \in Views /\ u.known = v.known /\ u.conf = v.conf /\ u.status = v.status
      /\ u.dom = e /\ u.cleared = v.cleared
  BY <1>3, <1>4, <1>5 DEF Views
<1>9. u.cleared \cup owns \in SUBSET Keys
  BY <1>7, <1>8 DEF Views
<1>10. /\ w \in Views /\ w.known = u.known /\ w.conf = u.conf /\ w.status = u.status
       /\ w.dom = u.dom
  BY <1>6, <1>8, <1>9 DEF Views
<1>. QED
  BY <1>3, <1>8, <1>10 DEF w

LEMMA ViewOf ==
    ASSUME NEW v, NEW f \in MirrorFrames
    PROVE  /\ f \in MirrorConfigs => applyFrame(v, f) = applyProcessConfig(v, f.names)
           /\ f \in StatusFrames => applyFrame(v, f) = applyProcessStatus(v, f)
           /\ f \in ReportFrames => applyFrame(v, f) = applyReport(v, f)
BY FrameKinds DEF applyFrame

LEMMA StaysView ==
    ASSUME NEW v \in Views, NEW f \in MirrorFrames
    PROVE  applyFrame(v, f) \in Views
<1>1. CASE f \in MirrorConfigs
  <2>1. f.names \in SUBSET Procs
    BY <1>1 DEF MirrorConfigs
  <2>2. applyProcessConfig(v, f.names) \in Views
    BY <2>1, ViewConfig
  <2>. QED  BY <1>1, <2>2, ViewOf
<1>2. CASE f \in StatusFrames
  <2>1. applyProcessStatus(v, f) \in Views
    BY <1>2, ViewStatus
  <2>. QED  BY <1>2, <2>1, ViewOf
<1>3. CASE f \in ReportFrames
  <2>1. applyReport(v, f) \in Views
    BY <1>3, ViewReport
  <2>. QED  BY <1>3, <2>1, ViewOf
<1>. QED
  BY <1>1, <1>2, <1>3, FrameKinds

-----------------------------------------------------------------------------
(* A view that has taken in what was sent before the mirror became m. *)
Follows(v, m, h) ==
    /\ m.known =>
        /\ v.known /\ v.conf = m.conf
        /\ DOMAIN m.status \subseteq DOMAIN v.status \cup h
        /\ \A p \in DOMAIN v.status : p \in DOMAIN m.status => v.status[p] = m.status[p]
        /\ DOMAIN v.status \subseteq m.conf
    /\ \A d \in Domains, p \in Procs : m.dom[d][p] # None => v.dom[d][p] = m.dom[d][p]

TakenIn(v) == [v EXCEPT !.cleared = {}]

LEMMA TakenIs ==
    ASSUME NEW v \in Views
    PROVE  /\ TakenIn(v) \in Views /\ TakenIn(v).known = v.known /\ TakenIn(v).conf = v.conf
           /\ TakenIn(v).status = v.status /\ TakenIn(v).dom = v.dom
BY DEF TakenIn, Views

\* What a status frame leaves hidden.
HiddenAfter(h, f) == IF f.k = "status" THEN h \ {f.p} ELSE h

LEMMA FollowsFrame ==
    ASSUME NEW v \in Views, NEW m, Sound(m), NEW f \in MirrorFrames, NEW h, Follows(v, m, h)
    PROVE  Follows(TakenIn(applyFrame(v, f)), on_frame(m, f), HiddenAfter(h, f))
<1> DEFINE w == applyFrame(v, f)
           n == on_frame(m, f)
           g == HiddenAfter(h, f)
<1>0. SUFFICES Follows(w, n, g)
  <2>1. w \in Views
    BY StaysView
  <2> HIDE DEF w, n, g
  <2>. QED  BY <2>1, TakenIs DEF Follows, w, n, g
<1>1. CASE f \in MirrorConfigs
  <2>1. f.names \in SUBSET Procs /\ g = h
    BY <1>1, FrameKinds DEF MirrorConfigs, HiddenAfter
  <2>2. /\ w.known = TRUE /\ w.conf = f.names /\ w.dom = v.dom
        /\ DOMAIN w.status = DOMAIN v.status \cap f.names
        /\ \A p \in DOMAIN w.status : w.status[p] = v.status[p]
    <3> DEFINE names == f.names
               x == applyProcessConfig(v, names)
    <3>1. names \in SUBSET Procs
      BY <2>1
    <3>2. w = x
      BY <1>1, ViewOf
    <3> HIDE DEF names, x
    <3>3. /\ applyProcessConfig(v, names).known = TRUE /\ applyProcessConfig(v, names).conf = names
          /\ applyProcessConfig(v, names).dom = v.dom
          /\ DOMAIN applyProcessConfig(v, names).status = DOMAIN v.status \cap names
          /\ \A p \in DOMAIN applyProcessConfig(v, names).status :
               applyProcessConfig(v, names).status[p] = v.status[p]
      BY <3>1, ViewConfig
    <3> HIDE DEF w
    <3>. QED  BY <3>2, <3>3 DEF x, names
  <2>3. /\ n.known /\ n.conf = f.names
        /\ DOMAIN n.status = DOMAIN m.status \cap f.names
        /\ \A p \in DOMAIN n.status : n.status[p] = m.status[p]
        /\ \A d \in Domains, p \in Procs :
             n.dom[d][p] = IF d \in Volatile /\ p \in m.conf \ f.names THEN None ELSE m.dom[d][p]
    <3> DEFINE names == f.names
               x == update_process_configs(m, names)
    <3>1. names \in SUBSET Procs
      BY <2>1
    <3>2. n = x
      BY <1>1, FrameApplied
    <3> HIDE DEF names, x, n
    <3>3. LET y == update_process_configs(m, names)
          IN /\ y.known /\ y.conf = names
             /\ DOMAIN y.status = DOMAIN m.status \cap names
             /\ \A p \in DOMAIN y.status : y.status[p] = m.status[p]
             /\ \A d \in Domains, p \in Procs :
                  y.dom[d][p] = IF d \in Volatile /\ p \in m.conf \ names THEN None ELSE m.dom[d][p]
      BY <3>1, ConfigApplied
    <3>. QED  BY <3>2, <3>3 DEF x, names
  <2>4. ~ m.known => DOMAIN m.status = {}
    BY DEF Sound
  <2>5. DOMAIN n.status \subseteq DOMAIN w.status \cup g
    <3> HIDE DEF w, n, g
    <3>. QED  BY <2>1, <2>2, <2>3, <2>4 DEF Follows
  <2>6. \A p \in DOMAIN w.status : p \in DOMAIN n.status => w.status[p] = n.status[p]
    <3> HIDE DEF w, n, g
    <3>. QED  BY <2>2, <2>3, <2>4 DEF Follows
  <2>7. \A d \in Domains, p \in Procs : n.dom[d][p] # None => w.dom[d][p] = n.dom[d][p]
    <3> HIDE DEF w, n, g
    <3>. QED  BY <2>2, <2>3 DEF Follows
  <2> HIDE DEF w, n, g
  <2>. QED  BY <2>2, <2>3, <2>5, <2>6, <2>7 DEF Follows
<1>2. CASE f \in StatusFrames
  <2>1. f.p \in Procs /\ g = h \ {f.p}
    BY <1>2, FrameKinds DEF StatusFrames, HiddenAfter
  <2>2. /\ w.known = v.known /\ w.conf = v.conf /\ w.dom = v.dom
        /\ Ignored(v, f.p) => w.status = v.status
        /\ ~ Ignored(v, f.p) =>
             /\ DOMAIN w.status = DOMAIN v.status \cup {f.p}
             /\ w.status[f.p] = f.st
             /\ \A q \in DOMAIN v.status : q # f.p => w.status[q] = v.status[q]
    BY <1>2, ViewOf, ViewStatus
  <2>3. /\ n.known = m.known /\ n.conf = m.conf
        /\ f.p \notin m.conf => n = m
        /\ f.p \in m.conf =>
             /\ DOMAIN n.status = DOMAIN m.status \cup {f.p}
             /\ n.status[f.p] = f.st
             /\ \A q \in DOMAIN m.status : q # f.p => n.status[q] = m.status[q]
             /\ \A d \in Domains, q \in Procs :
                  n.dom[d][q] = IF f.st \in Down /\ d \in Volatile /\ q = f.p THEN None
                                ELSE m.dom[d][q]
    BY <1>2, FrameApplied, StatusApplied
  <2>4. DOMAIN m.status \subseteq m.conf
    BY DEF Sound
  <2> HIDE DEF w, n, g
  <2>5. \A d \in Domains, p \in Procs : n.dom[d][p] # None => w.dom[d][p] = n.dom[d][p]
    BY <2>2, <2>3 DEF Follows
  <2>6. CASE f.p \notin m.conf
    BY <2>1, <2>2, <2>3, <2>4, <2>5, <2>6 DEF Follows, Ignored
  <2>7. CASE f.p \in m.conf
    <3>1. m.known => ~ Ignored(v, f.p)
      BY <2>7 DEF Follows, Ignored
    <3>. QED  BY <2>1, <2>2, <2>3, <2>4, <2>5, <2>7, <3>1 DEF Follows
  <2>. QED  BY <2>6, <2>7
<1>3. CASE f \in ReportFrames
  <2>1. g = h
    BY <1>3, FrameKinds DEF HiddenAfter
  <2>2. /\ w.known = v.known /\ w.conf = v.conf /\ w.status = v.status
        /\ \A d \in Domains, q \in Procs :
             w.dom[d][q] = IF d = f.d /\ q = f.p THEN f.n ELSE v.dom[d][q]
    BY <1>3, ViewOf, ViewReport
  <2>3. /\ n.known = m.known /\ n.conf = m.conf /\ n.status = m.status
        /\ \A d \in Domains, q \in Procs :
             n.dom[d][q] = IF d = f.d /\ q = f.p THEN f.n ELSE m.dom[d][q]
    BY <1>3, FrameApplied, ReportTakes
  <2> HIDE DEF w, n, g
  <2>. QED  BY <2>1, <2>2, <2>3 DEF Follows
<1>. QED
  BY <1>1, <1>2, <1>3, FrameKinds

LEMMA StatusesShown ==
    ASSUME NEW v \in Views, NEW m, Sound(m), NEW ps
    PROVE  LET w == Statuses(v, m, ps)
               shown == {p \in DOMAIN m.status \cap ps : ~ Ignored(v, p)}
           IN /\ w \in Views /\ w.known = v.known /\ w.conf = v.conf /\ w.dom = v.dom
              /\ DOMAIN w.status = DOMAIN v.status \cup shown
              /\ \A p \in shown : w.status[p] = m.status[p]
              /\ \A p \in DOMAIN v.status \ shown : w.status[p] = v.status[p]
<1> DEFINE shown == {p \in DOMAIN m.status \cap ps : ~ Ignored(v, p)}
           s == [p \in DOMAIN v.status \cup shown |-> IF p \in shown THEN m.status[p] ELSE v.status[p]]
           w == Statuses(v, m, ps)
<1>1. v.status \in StatusMaps /\ m.status \in StatusMaps
  BY DEF Views, Sound, Mirrors
<1>2. /\ v.status \in [DOMAIN v.status -> States] /\ DOMAIN v.status \subseteq Procs
      /\ m.status \in [DOMAIN m.status -> States] /\ DOMAIN m.status \subseteq Procs
  BY <1>1, InStatusMaps
<1>3. /\ s \in [DOMAIN s -> States] /\ DOMAIN s \subseteq Procs
      /\ DOMAIN s = DOMAIN v.status \cup shown
      /\ \A p \in shown : s[p] = m.status[p]
      /\ \A p \in DOMAIN v.status \ shown : s[p] = v.status[p]
  <2>1. shown \subseteq DOMAIN m.status
    OBVIOUS
  <2> HIDE DEF shown
  <2>. QED  BY <1>2, <2>1
<1>4. w = [v EXCEPT !.status = s]
  BY DEF Statuses
<1> HIDE DEF s, w, shown
<1>5. s \in StatusMaps
  BY <1>3, InStatusMaps
<1>6. /\ w \in Views /\ w.known = v.known /\ w.conf = v.conf /\ w.dom = v.dom /\ w.status = s
  BY <1>4, <1>5 DEF Views
<1>. QED
  BY <1>3, <1>6 DEF w, shown

(* What every view is: it has a status of configured processes only, once it
   knows what is configured. *)
SoundView(v) == v \in Views /\ (v.known => DOMAIN v.status \subseteq v.conf)

LEMMA StaysSoundView ==
    ASSUME NEW v, SoundView(v), NEW f \in MirrorFrames
    PROVE  SoundView(TakenIn(applyFrame(v, f)))
<1> DEFINE w == applyFrame(v, f)
<1>1. v \in Views /\ (v.known => DOMAIN v.status \subseteq v.conf)
  BY DEF SoundView
<1>2. w \in Views
  BY <1>1, StaysView
<1>3. w.known => DOMAIN w.status \subseteq w.conf
  <2>1. CASE f \in MirrorConfigs
    <3> DEFINE names == f.names
    <3>1. names \in SUBSET Procs /\ w = applyProcessConfig(v, names)
      BY <2>1, ViewOf DEF MirrorConfigs
    <3> HIDE DEF names, w
    <3>. QED  BY <1>1, <3>1, ViewConfig, ZenonT(60)
  <2>2. CASE f \in StatusFrames
    <3>1. w = applyProcessStatus(v, f)
      BY <2>2, ViewOf
    <3> HIDE DEF w
    <3>. QED  BY <1>1, <2>2, <3>1, ViewStatus DEF Ignored
  <2>3. CASE f \in ReportFrames
    <3>1. w = applyReport(v, f)
      BY <2>3, ViewOf
    <3> HIDE DEF w
    <3>. QED  BY <1>1, <2>3, <3>1, ViewReport
  <2>. QED  BY <2>1, <2>2, <2>3, FrameKinds
<1> HIDE DEF w
<1>. QED  BY <1>2, <1>3, TakenIs DEF SoundView, w

\* What the snapshot leaves out.
LeftOut(v, m) == {p \in Before \cap DOMAIN m.status : Ignored(v, p)}

LEMMA SnapshotTaken ==
    ASSUME NEW v, SoundView(v), NEW m, Sound(m)
    PROVE  /\ SoundView(TakenIn(applySnapshot(v, m)))
           /\ Follows(TakenIn(applySnapshot(v, m)), m, LeftOut(v, m))
<1> DEFINE a == Statuses(v, m, Before)
           b == IF m.known THEN applyProcessConfig(a, m.conf) ELSE a
           c == Statuses(b, m, Procs \ Before)
           e == [d \in Domains |-> [p \in Procs |-> IF m.dom[d][p] # None THEN m.dom[d][p] ELSE c.dom[d][p]]]
           w == applySnapshot(v, m)
           shown == {p \in DOMAIN m.status \cap Before : ~ Ignored(v, p)}
           rest == {p \in DOMAIN m.status \cap (Procs \ Before) : ~ Ignored(b, p)}
<1>0. v \in Views /\ (v.known => DOMAIN v.status \subseteq v.conf)
  BY DEF SoundView
<1>1. m \in Mirrors /\ m.conf \in SUBSET Procs /\ m.status \in StatusMaps /\ m.dom \in DomMaps
  BY DEF Sound, Mirrors
<1>2. DOMAIN m.status \subseteq m.conf /\ (~ m.known => DOMAIN m.status = {})
  BY DEF Sound
<1>3. /\ a \in Views /\ a.known = v.known /\ a.conf = v.conf /\ a.dom = v.dom
      /\ DOMAIN a.status = DOMAIN v.status \cup shown
      /\ \A p \in shown : a.status[p] = m.status[p]
  BY <1>0, StatusesShown
<1> HIDE DEF a, shown
<1>4. /\ b \in Views
      /\ m.known => /\ b.known = TRUE /\ b.conf = m.conf
                    /\ DOMAIN b.status = DOMAIN a.status \cap m.conf
                    /\ \A p \in DOMAIN b.status : b.status[p] = a.status[p]
  BY <1>1, <1>3, ViewConfig
<1> HIDE DEF b
<1>5. /\ c \in Views /\ c.known = b.known /\ c.conf = b.conf
      /\ DOMAIN c.status = DOMAIN b.status \cup rest
      /\ \A p \in rest : c.status[p] = m.status[p]
      /\ \A p \in DOMAIN b.status \ rest : c.status[p] = b.status[p]
  BY <1>4, StatusesShown
<1> HIDE DEF c
<1>6. /\ e \in DomMaps
      /\ \A d \in Domains, p \in Procs : m.dom[d][p] # None => e[d][p] = m.dom[d][p]
  BY <1>1, <1>5 DEF DomMaps, Views
<1>7. w = [c EXCEPT !.dom = e]
  BY DEF applySnapshot, a, b, c
<1> HIDE DEF e, w
<1>8. /\ w \in Views /\ w.known = c.known /\ w.conf = c.conf /\ w.status = c.status /\ w.dom = e
  BY <1>5, <1>6, <1>7 DEF Views
<1>9. m.known => rest = DOMAIN m.status \cap (Procs \ Before)
  BY <1>2, <1>4 DEF Ignored
<1> HIDE DEF rest
<1>10. ASSUME m.known
       PROVE  /\ DOMAIN m.status \subseteq DOMAIN c.status \cup LeftOut(v, m)
              /\ \A p \in DOMAIN c.status : p \in DOMAIN m.status => c.status[p] = m.status[p]
              /\ DOMAIN c.status \subseteq m.conf
  <2>0. DOMAIN c.status \subseteq m.conf
    BY <1>2, <1>4, <1>5, <1>9, <1>10
  <2>1. DOMAIN m.status \subseteq Procs
    BY <1>1, InStatusMaps
  <2>2. ASSUME NEW p \in DOMAIN m.status, p \in Before, ~ Ignored(v, p)
        PROVE  p \in DOMAIN c.status /\ c.status[p] = m.status[p]
    <3>1. p \in shown /\ p \notin rest /\ p \in m.conf
      BY <2>2, <1>9, <1>10, <1>2 DEF shown
    <3>2. p \in DOMAIN b.status /\ b.status[p] = m.status[p]
      BY <3>1, <1>3, <1>4, <1>10
    <3>. QED  BY <3>1, <3>2, <1>5
  <2>3. ASSUME NEW p \in DOMAIN m.status, p \notin Before
        PROVE  p \in DOMAIN c.status /\ c.status[p] = m.status[p]
    BY <2>1, <2>3, <1>5, <1>9, <1>10
  <2>4. ASSUME NEW p \in DOMAIN m.status, p \in Before, Ignored(v, p), p \in DOMAIN c.status
        PROVE  c.status[p] = m.status[p]
    <3>1. p \notin DOMAIN v.status /\ p \notin shown
      BY <1>0, <2>4 DEF Ignored, shown
    <3>2. p \notin DOMAIN a.status /\ p \notin rest
      BY <3>1, <1>3, <1>9, <1>10, <2>4
    <3>. QED  BY <3>2, <1>4, <1>5, <1>10, <2>4
  <2>. QED  BY <2>0, <2>2, <2>3, <2>4 DEF LeftOut
<1>11. Follows(w, m, LeftOut(v, m))
  BY <1>4, <1>5, <1>6, <1>8, <1>10 DEF Follows
<1> HIDE DEF w
<1>12. applySnapshot(v, m) \in Views /\ SoundView(applySnapshot(v, m)) /\ Follows(applySnapshot(v, m), m, LeftOut(v, m))
  <2>1. w.known => DOMAIN w.status \subseteq w.conf
    <3>1. CASE m.known
      BY <3>1, <1>4, <1>5, <1>8, <1>10
    <3>2. CASE ~ m.known
      <4>1. b = a /\ rest = {}
        BY <3>2, <1>2 DEF b, rest
      <4>2. shown = {}
        BY <3>2, <1>2 DEF shown
      <4>. QED  BY <4>1, <4>2, <1>0, <1>2, <1>3, <1>5, <1>8, <3>2
    <3>. QED  BY <3>1, <3>2
  <2>. QED  BY <1>8, <1>11, <2>1 DEF SoundView, w
<1>. QED
  BY <1>12, TakenIs DEF Follows, SoundView

-----------------------------------------------------------------------------
(* What applying the frames under way leads to. *)
Clean(m, l) == \A p \in Procs : p \notin m.conf /\ p \notin l => \A d \in Volatile : m.dom[d][p] = None

Points == {x \in [m : Mirrors, late : SUBSET Procs] : Sound(x.m) /\ Clean(x.m, x.late)}

LateAfter(l, m, f) ==
    CASE f.k = "config" -> l \ f.names
      [] f.k = "report" -> l \cup ({f.p} \ m.conf)
      [] OTHER          -> l

Reached(x, f) == [m |-> on_frame(x.m, f), late |-> LateAfter(x.late, x.m, f)]

Path(xs, q) ==
    /\ xs \in [0..Len(q) -> Points]
    /\ \A i \in 1..Len(q) : xs[i] = Reached(xs[i - 1], q[i])

Ends(x, q, y) == \E xs : Path(xs, q) /\ xs[0] = x /\ xs[Len(q)] = y

LEMMA PointIs ==
    ASSUME NEW m, NEW l
    PROVE  [m |-> m, late |-> l] \in Points <=> Sound(m) /\ Clean(m, l) /\ l \subseteq Procs
BY DEF Points, Sound

LEMMA LateIs ==
    ASSUME NEW l \in SUBSET Procs, NEW m, Sound(m), NEW f \in MirrorFrames
    PROVE  /\ f \in MirrorConfigs => LateAfter(l, m, f) = l \ f.names
           /\ f \in StatusFrames => LateAfter(l, m, f) = l
           /\ f \in ReportFrames => LateAfter(l, m, f) = l \cup ({f.p} \ m.conf)
           /\ LateAfter(l, m, f) \subseteq Procs
<1>1. /\ f \in MirrorConfigs => LateAfter(l, m, f) = l \ f.names
      /\ f \in StatusFrames => LateAfter(l, m, f) = l
      /\ f \in ReportFrames => LateAfter(l, m, f) = l \cup ({f.p} \ m.conf)
  BY FrameKinds DEF LateAfter
<1>2. f \in ReportFrames => f.p \in Procs
  BY DEF ReportFrames
<1>. QED
  BY <1>1, <1>2, FrameKinds

LEMMA StaysClean ==
    ASSUME NEW m, Sound(m), NEW l \in SUBSET Procs, Clean(m, l), NEW f \in MirrorFrames
    PROVE  Clean(on_frame(m, f), LateAfter(l, m, f))
<1> DEFINE n == on_frame(m, f)
           g == LateAfter(l, m, f)
<1>1. CASE f \in MirrorConfigs
  <2> DEFINE names == f.names
  <2>1. names \in SUBSET Procs /\ n = update_process_configs(m, names) /\ g = l \ names
    BY <1>1, FrameApplied, LateIs DEF MirrorConfigs
  <2> HIDE DEF names, n, g
  <2>2. /\ n.conf = names
        /\ \A d \in Domains, p \in Procs :
             n.dom[d][p] = IF d \in Volatile /\ p \in m.conf \ names THEN None ELSE m.dom[d][p]
    BY <2>1, ConfigApplied
  <2>3. Volatile \subseteq Domains
    BY DEF Domains
  <2>4. Clean(n, g)
    BY <2>1, <2>2, <2>3 DEF Clean
  <2>. QED  BY <2>4 DEF n, g
<1>2. CASE f \in StatusFrames
  <2>1. n = on_rtn_process_status(m, f) /\ g = l
    BY <1>2, FrameApplied, LateIs
  <2> HIDE DEF n, g
  <2>2. /\ n.conf = m.conf
        /\ f.p \notin m.conf => n = m
        /\ f.p \in m.conf =>
             \A d \in Domains, q \in Procs :
               n.dom[d][q] = IF f.st \in Down /\ d \in Volatile /\ q = f.p THEN None ELSE m.dom[d][q]
    BY <1>2, <2>1, StatusApplied
  <2>3. Volatile \subseteq Domains
    BY DEF Domains
  <2>4. Clean(n, g)
    BY <2>1, <2>2, <2>3 DEF Clean
  <2>. QED  BY <2>4 DEF n, g
<1>3. CASE f \in ReportFrames
  <2>1. n = WithReport(m, f) /\ g = l \cup ({f.p} \ m.conf)
    BY <1>3, FrameApplied, LateIs
  <2> HIDE DEF n, g
  <2>2. /\ n.conf = m.conf
        /\ \A d \in Domains, q \in Procs : n.dom[d][q] = IF d = f.d /\ q = f.p THEN f.n ELSE m.dom[d][q]
    BY <1>3, <2>1, ReportTakes
  <2>3. Volatile \subseteq Domains
    BY DEF Domains
  <2>4. Clean(n, g)
    BY <2>1, <2>2, <2>3 DEF Clean
  <2>. QED  BY <2>4 DEF n, g
<1>. QED
  BY <1>1, <1>2, <1>3, FrameKinds

LEMMA ReachesPoint ==
    ASSUME NEW x \in Points, NEW f \in MirrorFrames
    PROVE  /\ Reached(x, f) \in Points
           /\ Reached(x, f).m = on_frame(x.m, f)
           /\ Reached(x, f).late = LateAfter(x.late, x.m, f)
<1>1. Sound(x.m) /\ Clean(x.m, x.late) /\ x.late \in SUBSET Procs
  BY DEF Points
<1>2. /\ Sound(on_frame(x.m, f)) /\ Clean(on_frame(x.m, f), LateAfter(x.late, x.m, f))
      /\ LateAfter(x.late, x.m, f) \subseteq Procs
  BY <1>1, StaysSound, StaysClean, LateIs
<1>. QED
  BY <1>2, PointIs DEF Reached

LEMMA EndsNowhere ==
    ASSUME NEW x \in Points
    PROVE  Ends(x, << >>, x)
<1> DEFINE xs == [i \in 0..0 |-> x]
<1>1. Path(xs, << >>) /\ xs[0] = x
  BY DEF Path
<1> HIDE DEF xs
<1>. QED
  BY <1>1 DEF Ends

LEMMA EndsAppend ==
    ASSUME NEW x, NEW q \in Seq(MirrorFrames), NEW y, Ends(x, q, y), NEW f \in MirrorFrames
    PROVE  Ends(x, Append(q, f), Reached(y, f))
<1>1. PICK xs : Path(xs, q) /\ xs[0] = x /\ xs[Len(q)] = y
  BY DEF Ends
<1> DEFINE n == Len(q)
           r == Append(q, f)
           ys == [i \in 0..(n + 1) |-> IF i = n + 1 THEN Reached(y, f) ELSE xs[i]]
<1>2. /\ n \in Nat /\ Len(r) = n + 1 /\ r[n + 1] = f
      /\ \A i \in 1..n : r[i] = q[i]
  OBVIOUS
<1>3. xs \in [0..n -> Points] /\ \A i \in 1..n : xs[i] = Reached(xs[i - 1], q[i])
  BY <1>1 DEF Path
<1>4. y \in Points /\ Reached(y, f) \in Points
  BY <1>1, <1>2, <1>3, ReachesPoint
<1>5. ys[0] = x /\ ys[n + 1] = Reached(y, f) /\ \A i \in 0..n : ys[i] = xs[i]
  BY <1>1, <1>2
<1>6. ys \in [0..(n + 1) -> Points]
  BY <1>2, <1>3, <1>4
<1> HIDE DEF n, r, ys
<1>7. ASSUME NEW i \in 1..(n + 1) PROVE ys[i] = Reached(ys[i - 1], r[i])
  <2>1. CASE i = n + 1
    <3>1. i - 1 = n /\ n \in 0..n
      BY <2>1, <1>2
    <3>. QED  BY <3>1, <2>1, <1>1, <1>2, <1>5 DEF n
  <2>2. CASE i # n + 1
    <3>1. i \in 1..n /\ i - 1 \in 0..n /\ i \in 0..n
      BY <2>2, <1>2
    <3>. QED  BY <3>1, <1>2, <1>3, <1>5
  <2>. QED  BY <2>1, <2>2
<1>8. Path(ys, r)
  BY <1>2, <1>6, <1>7 DEF Path
<1>. QED
  BY <1>2, <1>5, <1>8 DEF Ends, r

LEMMA EndsTail ==
    ASSUME NEW x, NEW q \in Seq(MirrorFrames), q # << >>, NEW y, Ends(x, q, y)
    PROVE  Ends(Reached(x, Head(q)), Tail(q), y)
<1>1. PICK xs : Path(xs, q) /\ xs[0] = x /\ xs[Len(q)] = y
  BY DEF Ends
<1> DEFINE n == Len(q)
           r == Tail(q)
           ys == [i \in 0..(n - 1) |-> xs[i + 1]]
<1>2. /\ n \in Nat /\ n >= 1 /\ Len(r) = n - 1 /\ Head(q) = q[1]
      /\ \A i \in 1..(n - 1) : r[i] = q[i + 1]
  OBVIOUS
<1>3. xs \in [0..n -> Points] /\ \A i \in 1..n : xs[i] = Reached(xs[i - 1], q[i])
  BY <1>1 DEF Path
<1>4. ys \in [0..(n - 1) -> Points] /\ \A i \in 0..(n - 1) : ys[i] = xs[i + 1]
  BY <1>2, <1>3
<1>5. ys[0] = Reached(x, Head(q)) /\ ys[n - 1] = y
  BY <1>1, <1>2, <1>3, <1>4
<1> HIDE DEF n, r, ys
<1>6. ASSUME NEW i \in 1..(n - 1) PROVE ys[i] = Reached(ys[i - 1], r[i])
  <2>1. /\ i + 1 \in 1..n /\ (i + 1) - 1 = i /\ i \in 0..(n - 1) /\ i - 1 \in 0..(n - 1)
        /\ (i - 1) + 1 = i
    BY <1>2
  <2>. QED  BY <2>1, <1>2, <1>3, <1>4
<1>7. Path(ys, r)
  BY <1>2, <1>4, <1>6 DEF Path
<1>. QED
  BY <1>2, <1>5, <1>7 DEF Ends, r

LEMMA EndsJoin ==
    ASSUME NEW x, NEW q \in Seq(MirrorFrames), NEW y, Ends(x, q, y),
           NEW r \in Seq(MirrorFrames), NEW z, Ends(y, r, z)
    PROVE  Ends(x, q \o r, z)
<1>1. PICK xs : Path(xs, q) /\ xs[0] = x /\ xs[Len(q)] = y
  BY DEF Ends
<1>2. PICK zs : Path(zs, r) /\ zs[0] = y /\ zs[Len(r)] = z
  BY DEF Ends
<1> DEFINE n == Len(q)
           k == Len(r)
           t == q \o r
           ys == [i \in 0..(n + k) |-> IF i <= n THEN xs[i] ELSE zs[i - n]]
<1>3. /\ n \in Nat /\ k \in Nat /\ Len(t) = n + k
      /\ \A i \in 1..n : t[i] = q[i]
      /\ \A i \in (n + 1)..(n + k) : t[i] = r[i - n]
  OBVIOUS
<1>4. xs \in [0..n -> Points] /\ \A i \in 1..n : xs[i] = Reached(xs[i - 1], q[i])
  BY <1>1 DEF Path
<1>5. zs \in [0..k -> Points] /\ \A i \in 1..k : zs[i] = Reached(zs[i - 1], r[i])
  BY <1>2 DEF Path
<1>6. /\ \A i \in 0..n : ys[i] = xs[i]
      /\ \A i \in n..(n + k) : ys[i] = zs[i - n]
  BY <1>1, <1>2, <1>3
<1>7. ys \in [0..(n + k) -> Points]
  BY <1>3, <1>4, <1>5
<1> HIDE DEF n, k, t, ys
<1>8. ASSUME NEW i \in 1..(n + k) PROVE ys[i] = Reached(ys[i - 1], t[i])
  <2>1. CASE i <= n
    <3>1. i \in 1..n /\ i \in 0..n /\ i - 1 \in 0..n
      BY <2>1, <1>3
    <3>. QED  BY <3>1, <1>3, <1>4, <1>6
  <2>2. CASE i > n
    <3>1. /\ i \in (n + 1)..(n + k) /\ i \in n..(n + k) /\ i - 1 \in n..(n + k)
          /\ i - n \in 1..k /\ (i - 1) - n = (i - n) - 1
      BY <2>2, <1>3
    <3>. QED  BY <3>1, <1>3, <1>5, <1>6, ZenonT(60)
  <2>. QED  BY <2>1, <2>2, <1>3
<1>9. ys[0] = x /\ ys[n + k] = z
  <2>1. 0 \in 0..n /\ n + k \in n..(n + k) /\ (n + k) - n = k
    BY <1>3
  <2>. QED  BY <2>1, <1>1, <1>2, <1>6 DEF k
<1>10. Path(ys, t)
  BY <1>3, <1>7, <1>8 DEF Path
<1>. QED
  BY <1>3, <1>9, <1>10 DEF Ends, t

LEMMA EndsPoint ==
    ASSUME NEW x, NEW q \in Seq(MirrorFrames), NEW y, Ends(x, q, y)
    PROVE  x \in Points /\ y \in Points
<1>1. PICK xs : Path(xs, q) /\ xs[0] = x /\ xs[Len(q)] = y
  BY DEF Ends
<1>2. 0 \in 0..Len(q) /\ Len(q) \in 0..Len(q)
  OBVIOUS
<1>. QED
  BY <1>1, <1>2 DEF Path

LEMMA EndsOne ==
    ASSUME NEW x \in Points, NEW f \in MirrorFrames
    PROVE  Ends(x, <<f>>, Reached(x, f))
<1>1. << >> \in Seq(MirrorFrames) /\ Append(<< >>, f) = <<f>>
  OBVIOUS
<1>. QED
  BY <1>1, EndsNowhere, EndsAppend

(* Every set of natural numbers that is not empty has a least element. *)
LEMMA Least ==
    ASSUME NEW S \in SUBSET Nat, S # {}
    PROVE  \E x \in S : \A y \in S : x <= y
<1>1. IsWellFoundedOn(OpToRel(<, Nat), Nat)
  BY NatLessThanWellFounded
<1>2. PICK x \in S : \A y \in S : ~(<<y, x>> \in OpToRel(<, Nat))
  BY <1>1, WFMin
<1>3. \A y \in S : ~(y < x)
  BY <1>2 DEF OpToRel
<1>. QED
  BY <1>3

(* Whatever is under way leads somewhere. *)
LEMMA EndsSomewhere ==
    ASSUME NEW x \in Points, NEW q \in Seq(MirrorFrames)
    PROVE  \E y \in Points : Ends(x, q, y)
<1> DEFINE Leads(r) == \E y \in Points : Ends(x, r, y)
           Bad == {Len(r) : r \in {s \in Seq(MirrorFrames) : ~ Leads(s)}}
<1>1. SUFFICES ASSUME ~ Leads(q) PROVE FALSE
  OBVIOUS
<1>2. Bad \in SUBSET Nat /\ Bad # {}
  <2>1. \A r \in Seq(MirrorFrames) : Len(r) \in Nat
    OBVIOUS
  <2>2. Len(q) \in Bad
    BY <1>1
  <2> HIDE DEF Leads
  <2>. QED  BY <2>1, <2>2
<1>3. PICK n \in Bad : \A m \in Bad : n <= m
  <2> HIDE DEF Bad
  <2>. QED  BY <1>2, Least
<1>4. PICK r \in Seq(MirrorFrames) : ~ Leads(r) /\ n = Len(r)
  BY <1>3
<1>5. r # << >>
  <2>1. Leads(<< >>)
    BY EndsNowhere
  <2>. QED  BY <2>1, <1>4
<1> DEFINE f == r[Len(r)]
           s == SubSeq(r, 1, Len(r) - 1)
<1>6. /\ s \in Seq(MirrorFrames) /\ f \in MirrorFrames /\ Len(s) = n - 1 /\ n \in Nat
      /\ r = Append(s, f)
  BY <1>4, <1>5
<1>7. Leads(s)
  <2>1. ASSUME ~ Leads(s) PROVE n - 1 \in Bad
    <3> HIDE DEF Leads, s
    <3>. QED  BY <2>1, <1>6
  <2>2. n \in Nat
    BY <1>6
  <2> HIDE DEF Bad, Leads, s
  <2>. QED  BY <2>1, <2>2, <1>3
<1>8. PICK y \in Points : Ends(x, s, y)
  BY <1>7
<1> HIDE DEF f, s
<1>9. Ends(x, r, Reached(y, f)) /\ Reached(y, f) \in Points
  BY <1>6, <1>8, EndsAppend, ReachesPoint
<1>. QED
  BY <1>4, <1>9

-----------------------------------------------------------------------------
(* A mirror that agrees with the world on the processes of K: it has what is
   configured, their states, and nothing said before they went down. *)
AgreesOn(y, pr, cf, K) ==
    /\ y.m.conf = cf /\ K \subseteq DOMAIN y.m.status
    /\ \A p \in K : Like(y.m.status[p], pr[p])
    /\ \A p \in K : pr[p] \in Down => \A d \in Volatile : y.m.dom[d][p] = None

LEMMA ConfigAgrees ==
    ASSUME NEW y \in Points, NEW pr, NEW cf, NEW K, AgreesOn(y, pr, cf, K),
           NEW names \in SUBSET Procs
    PROVE  /\ Config(names) \in MirrorFrames
           /\ AgreesOn(Reached(y, Config(names)), pr, names, K \cap names)
<1> DEFINE f == Config(names)
           m == y.m
           n == Reached(y, f).m
<1>1. f \in MirrorFrames /\ f \in MirrorConfigs /\ f.names = names
  BY DEF Config, MirrorFrames, MirrorConfigs
<1>2. Sound(m) /\ DOMAIN m.status \subseteq m.conf /\ m.conf \subseteq Procs
  BY DEF Points, Sound, Mirrors
<1>3. n = update_process_configs(m, names)
  <2> HIDE DEF f
  <2>. QED  BY <1>1, ReachesPoint, FrameApplied
<1> HIDE DEF f, n, m
<1>4. /\ n.conf = names
      /\ DOMAIN n.status = DOMAIN m.status \cap names
      /\ \A p \in DOMAIN n.status : n.status[p] = m.status[p]
      /\ \A d \in Domains, p \in Procs :
           n.dom[d][p] = IF d \in Volatile /\ p \in m.conf \ names THEN None ELSE m.dom[d][p]
  BY <1>2, <1>3, ConfigApplied
<1>5. Volatile \subseteq Domains
  BY DEF Domains
<1>6. /\ K \subseteq DOMAIN m.status
      /\ \A p \in K : Like(m.status[p], pr[p])
      /\ \A p \in K : pr[p] \in Down => \A d \in Volatile : m.dom[d][p] = None
  BY DEF AgreesOn, m
<1>7. \A p \in K \cap names : p \in DOMAIN n.status /\ Like(n.status[p], pr[p])
  BY <1>4, <1>6
<1>8. ASSUME NEW p \in K \cap names, pr[p] \in Down, NEW d \in Volatile PROVE n.dom[d][p] = None
  BY <1>2, <1>4, <1>5, <1>6, <1>8
<1>9. AgreesOn(Reached(y, f), pr, names, K \cap names)
  BY <1>4, <1>7, <1>8 DEF AgreesOn, n
<1>. QED
  BY <1>1, <1>9 DEF f

\* What a status of p does to the mirror m: it becomes n.
Takes(n, m, p, st) ==
    /\ n.conf = m.conf
    /\ p \notin m.conf => n = m
    /\ p \in m.conf =>
         /\ DOMAIN n.status = DOMAIN m.status \cup {p}
         /\ n.status[p] = st
         /\ \A q \in DOMAIN m.status : q # p => n.status[q] = m.status[q]
         /\ \A d \in Domains, q \in Procs :
              n.dom[d][q] = IF st \in Down /\ d \in Volatile /\ q = p THEN None ELSE m.dom[d][q]

LEMMA StatusTakes ==
    ASSUME NEW m, Sound(m), NEW f \in StatusFrames, NEW p, p = f.p, NEW st, st = f.st
    PROVE  Takes(on_rtn_process_status(m, f), m, p, st)
BY StatusApplied DEF Takes

LEMMA StatusAgrees ==
    ASSUME NEW y \in Points, NEW pr \in [Procs -> States], NEW cf, NEW K, AgreesOn(y, pr, cf, K),
           NEW p \in Procs, NEW st \in States, NEW to \in States, NEW ev \in Operations \cup {""},
           p \in cf => Like(st, to)
    PROVE  /\ Status(p, st, ev) \in MirrorFrames
           /\ AgreesOn(Reached(y, Status(p, st, ev)), [pr EXCEPT ![p] = to], cf, K \cup ({p} \cap cf))
<1> DEFINE f == Status(p, st, ev)
           m == y.m
           n == Reached(y, f).m
           g == [pr EXCEPT ![p] = to]
<1>1. f \in MirrorFrames /\ f \in StatusFrames /\ f.p = p /\ f.st = st
  BY DEF Status, MirrorFrames, StatusFrames
<1>2. Sound(m) /\ DOMAIN m.status \subseteq m.conf /\ m.conf \subseteq Procs
  BY DEF Points, Sound, Mirrors
<1>3. n = on_rtn_process_status(m, f)
  <2> HIDE DEF f
  <2>. QED  BY <1>1, ReachesPoint, FrameApplied
<1>4. g[p] = to /\ \A q \in Procs : q # p => g[q] = pr[q]
  OBVIOUS
<1> HIDE DEF f, n, m, g
<1>5. /\ n.conf = m.conf
      /\ p \notin m.conf => n = m
      /\ p \in m.conf =>
           /\ DOMAIN n.status = DOMAIN m.status \cup {p}
           /\ n.status[p] = st
           /\ \A q \in DOMAIN m.status : q # p => n.status[q] = m.status[q]
           /\ \A d \in Domains, q \in Procs :
                n.dom[d][q] = IF st \in Down /\ d \in Volatile /\ q = p THEN None ELSE m.dom[d][q]
  <2>1. Takes(on_rtn_process_status(m, f), m, p, st)
    BY <1>1, <1>2, StatusTakes
  <2>. QED  BY <2>1, <1>3 DEF Takes
<1>6. Volatile \subseteq Domains
  BY DEF Domains
<1>7. /\ m.conf = cf /\ K \subseteq DOMAIN m.status
      /\ \A q \in K : Like(m.status[q], pr[q])
      /\ \A q \in K : pr[q] \in Down => \A d \in Volatile : m.dom[d][q] = None
  BY DEF AgreesOn, m
<1>8. CASE p \notin cf
  <2>1. n = m /\ p \notin K /\ K \cup ({p} \cap cf) = K
    BY <1>2, <1>5, <1>7, <1>8
  <2>2. \A q \in K : g[q] = pr[q]
    BY <1>2, <1>4, <1>7, <2>1
  <2>3. AgreesOn(Reached(y, f), g, cf, K)
    BY <1>7, <2>1, <2>2 DEF AgreesOn, n
  <2>. QED  BY <2>1, <2>3, <1>1 DEF f, g
<1>9. CASE p \in cf
  <2>1. K \cup ({p} \cap cf) = K \cup {p}
    BY <1>9
  <2>2. ASSUME NEW q \in K \cup {p}
        PROVE  /\ q \in DOMAIN n.status /\ Like(n.status[q], g[q])
               /\ g[q] \in Down => \A d \in Volatile : n.dom[d][q] = None
    <3>1. CASE q = p
      <4>1. g[q] \in Down => st \in Down
        BY <3>1, <1>4, <1>9 DEF Like
      <4>. QED  BY <3>1, <4>1, <1>4, <1>5, <1>6, <1>7, <1>9
    <3>2. CASE q # p
      <4>1. q \in K /\ q \in DOMAIN m.status /\ q \in Procs
        BY <3>2, <1>2, <1>7, <2>2
      <4>. QED  BY <3>2, <4>1, <1>4, <1>5, <1>6, <1>7, <1>9
    <3>. QED  BY <3>1, <3>2
  <2>3. AgreesOn(Reached(y, f), g, cf, K \cup {p})
    BY <1>5, <1>7, <2>2 DEF AgreesOn, n
  <2>. QED  BY <2>1, <2>3, <1>1 DEF f, g
<1>. QED
  BY <1>8, <1>9

LEMMA ReportAgrees ==
    ASSUME NEW y \in Points, NEW pr \in [Procs -> States], NEW cf, NEW K, AgreesOn(y, pr, cf, K),
           NEW f \in ReportFrames, pr[f.p] \notin Down
    PROVE  AgreesOn(Reached(y, f), pr, cf, K)
<1> DEFINE m == y.m
           n == Reached(y, f).m
<1>1. f \in MirrorFrames /\ f.p \in Procs
  BY DEF MirrorFrames, ReportFrames
<1>2. Sound(m) /\ DOMAIN m.status \subseteq m.conf /\ m.conf \subseteq Procs
  BY DEF Points, Sound, Mirrors
<1>3. n = WithReport(m, f)
  BY <1>1, ReachesPoint, FrameApplied
<1> HIDE DEF n, m
<1>4. /\ n.conf = m.conf /\ n.status = m.status
      /\ \A d \in Domains, q \in Procs : n.dom[d][q] = IF d = f.d /\ q = f.p THEN f.n ELSE m.dom[d][q]
  BY <1>2, <1>3, ReportTakes
<1>5. Volatile \subseteq Domains
  BY DEF Domains
<1>6. /\ m.conf = cf /\ K \subseteq DOMAIN m.status
      /\ \A q \in K : Like(m.status[q], pr[q])
      /\ \A q \in K : pr[q] \in Down => \A d \in Volatile : m.dom[d][q] = None
  BY DEF AgreesOn, m
<1>7. ASSUME NEW q \in K, pr[q] \in Down, NEW d \in Volatile PROVE n.dom[d][q] = None
  BY <1>1, <1>2, <1>4, <1>5, <1>6, <1>7
<1>. QED
  BY <1>4, <1>6, <1>7 DEF AgreesOn, n

(* A series of frames that brings every mirror of Y to one that agrees with
   the processes pr and the configuration cf on K. *)
Brings(Y, fs, pr, cf, K) ==
    \A y \in Y : \E z \in Points : Ends(y, fs, z) /\ AgreesOn(z, pr, cf, K)

Agreeing == {y \in Points : AgreesOn(y, proc, conf, conf)}

LEMMA BringsNothing ==
    Brings(Agreeing, << >>, proc, conf, conf) /\ Agreeing \subseteq Points
BY EndsNowhere DEF Agreeing, Brings

LEMMA BringsOneMore ==
    ASSUME NEW Y, Y \subseteq Points, NEW fs \in Seq(MirrorFrames), NEW pr, NEW cf, NEW K,
           Brings(Y, fs, pr, cf, K),
           NEW f \in MirrorFrames, NEW po, NEW co, NEW L,
           \A y \in Points : AgreesOn(y, pr, cf, K) => AgreesOn(Reached(y, f), po, co, L)
    PROVE  Brings(Y, Append(fs, f), po, co, L) /\ Append(fs, f) \in Seq(MirrorFrames)
<1>1. ASSUME NEW y \in Y
      PROVE  \E z \in Points : Ends(y, Append(fs, f), z) /\ AgreesOn(z, po, co, L)
  <2>1. PICK z \in Points : Ends(y, fs, z) /\ AgreesOn(z, pr, cf, K)
    BY <1>1 DEF Brings
  <2>2. Ends(y, Append(fs, f), Reached(z, f)) /\ Reached(z, f) \in Points
    BY <2>1, EndsAppend, ReachesPoint
  <2>. QED  BY <2>1, <2>2
<1>. QED
  BY <1>1 DEF Brings

LEMMA BringsConfig ==
    ASSUME NEW Y, Y \subseteq Points, NEW fs \in Seq(MirrorFrames), NEW pr, NEW cf, NEW K,
           Brings(Y, fs, pr, cf, K), NEW names \in SUBSET Procs
    PROVE  LET to == Append(fs, Config(names))
           IN Brings(Y, to, pr, names, K \cap names) /\ to \in Seq(MirrorFrames)
<1> DEFINE f == Config(names)
<1>1. f \in MirrorFrames
  BY DEF Config, MirrorFrames, MirrorConfigs
<1>2. \A y \in Points : AgreesOn(y, pr, cf, K) => AgreesOn(Reached(y, f), pr, names, K \cap names)
  BY ConfigAgrees
<1> HIDE DEF f
<1>3. Brings(Y, Append(fs, f), pr, names, K \cap names) /\ Append(fs, f) \in Seq(MirrorFrames)
  BY <1>1, <1>2, BringsOneMore
<1>. QED
  BY <1>3 DEF f

LEMMA BringsStatus ==
    ASSUME NEW Y, Y \subseteq Points, NEW fs \in Seq(MirrorFrames), NEW pr \in [Procs -> States], NEW cf, NEW K,
           Brings(Y, fs, pr, cf, K),
           NEW p \in Procs, NEW st \in States, NEW to \in States, NEW ev \in Operations \cup {""},
           p \in cf => Like(st, to)
    PROVE  LET gs == Append(fs, Status(p, st, ev))
           IN /\ Brings(Y, gs, [pr EXCEPT ![p] = to], cf, K \cup ({p} \cap cf))
              /\ gs \in Seq(MirrorFrames)
<1> DEFINE f == Status(p, st, ev)
           po == [pr EXCEPT ![p] = to]
           L == K \cup ({p} \cap cf)
<1>1. f \in MirrorFrames
  BY DEF Status, MirrorFrames, StatusFrames
<1>2. \A y \in Points : AgreesOn(y, pr, cf, K) => AgreesOn(Reached(y, f), po, cf, L)
  BY StatusAgrees
<1> HIDE DEF f, po, L
<1>3. Brings(Y, Append(fs, f), po, cf, L) /\ Append(fs, f) \in Seq(MirrorFrames)
  BY <1>1, <1>2, BringsOneMore
<1>. QED
  BY <1>3 DEF f, po, L

(* What the master and the gateways write keeps up with what they do. *)
WorldWrites ==
    \E fs \in Seq(MirrorFrames) : ch' = ch \o fs /\ Brings(Agreeing, fs, proc', conf', conf')

WorldTypes ==
    /\ proc \in [Procs -> States] /\ conf \in SUBSET Procs
    /\ ch \in Seq(MirrorFrames) /\ written \in Nat

\* MirrorFrames that answer an operation.
Tells(f, p, op) == f.k = "status" /\ f.p = p /\ f.ev = op
Tell(q, p, op) == \E i \in DOMAIN q : Tells(q[i], p, op)

LEMMA NoFrames ==
    << >> \in Seq(MirrorFrames)
OBVIOUS

LEMMA JustOne ==
    ASSUME NEW f \in MirrorFrames
    PROVE  /\ Append(<< >>, f) = <<f>> /\ <<f>> \in Seq(MirrorFrames) /\ Len(<<f>>) = 1
           /\ <<f>>[1] = f /\ DOMAIN <<f>> = {1}
OBVIOUS

LEMMA OneMore ==
    ASSUME NEW q \in Seq(MirrorFrames), NEW f \in MirrorFrames
    PROVE  LET s == Append(q, f)
           IN /\ s \in Seq(MirrorFrames) /\ Len(s) = Len(q) + 1 /\ s[Len(q) + 1] = f
              /\ Len(q) + 1 \in DOMAIN s /\ Len(q) \in Nat
<1> DEFINE s == Append(q, f)
<1>1. s \in Seq(MirrorFrames) /\ Len(s) = Len(q) + 1 /\ s[Len(q) + 1] = f /\ Len(q) \in Nat
  BY AppendProperties
<1> HIDE DEF s
<1>2. DOMAIN s = 1..Len(s)
  BY <1>1
<1>. QED
  BY <1>1, <1>2 DEF s

LEMMA WritesFrames ==
    ASSUME ch \in Seq(MirrorFrames), written \in Nat, NEW fs \in Seq(MirrorFrames), Write(fs)
    PROVE  ch' = ch \o fs /\ written' \in Nat /\ ch' \in Seq(MirrorFrames)
BY DEF Write

LEMMA TellsJoined ==
    ASSUME NEW q \in Seq(MirrorFrames), NEW r \in Seq(MirrorFrames), NEW p, NEW op
    PROVE  Tell(q \o r, p, op) <=> Tell(q, p, op) \/ Tell(r, p, op)
<1> DEFINE s == q \o r
<1>1. /\ Len(s) = Len(q) + Len(r) /\ Len(q) \in Nat /\ Len(r) \in Nat
      /\ \A i \in 1..Len(q) : s[i] = q[i]
      /\ \A i \in 1..Len(r) : s[Len(q) + i] = r[i]
      /\ DOMAIN s = 1..Len(s) /\ DOMAIN q = 1..Len(q) /\ DOMAIN r = 1..Len(r)
  OBVIOUS
<1> HIDE DEF s
<1>2. ASSUME NEW i \in DOMAIN s, Tells(s[i], p, op) PROVE Tell(q, p, op) \/ Tell(r, p, op)
  <2>1. CASE i <= Len(q)
    BY <1>1, <1>2, <2>1 DEF Tell
  <2>2. CASE i > Len(q)
    <3>1. i - Len(q) \in DOMAIN r /\ s[i] = r[i - Len(q)]
      BY <1>1, <1>2, <2>2
    <3>. QED  BY <1>2, <3>1 DEF Tell
  <2>. QED  BY <1>1, <2>1, <2>2
<1>3. ASSUME NEW i \in DOMAIN q, Tells(q[i], p, op) PROVE Tell(s, p, op)
  BY <1>1, <1>3 DEF Tell
<1>4. ASSUME NEW i \in DOMAIN r, Tells(r[i], p, op) PROVE Tell(s, p, op)
  <2>1. Len(q) + i \in DOMAIN s /\ s[Len(q) + i] = r[i]
    BY <1>1, <1>4
  <2>. QED  BY <1>4, <2>1 DEF Tell
<1>. QED
  BY <1>2, <1>3, <1>4 DEF Tell, s

LEMMA TellsLast ==
    ASSUME NEW q \in Seq(MirrorFrames), NEW p \in Procs, NEW st \in States, NEW op \in Operations \cup {""}
    PROVE  Tell(Append(q, Status(p, st, op)), p, op)
<1> DEFINE f == Status(p, st, op)
           s == Append(q, f)
<1>1. Tells(f, p, op) /\ f \in MirrorFrames
  BY DEF Status, Tells, MirrorFrames, StatusFrames
<1> HIDE DEF f
<1>2. Len(q) + 1 \in DOMAIN s /\ s[Len(q) + 1] = f
  BY <1>1, OneMore
<1> HIDE DEF s
<1>. QED
  BY <1>1, <1>2 DEF Tell, f, s

(* The handlers of the master and of a gateway. *)
LEMMA StartWrites ==
    ASSUME WorldTypes, NEW p \in Procs, handle_process_start(p)
    PROVE  WorldWrites /\ WorldTypes' /\ Tell(ch', p, "start")
<1> DEFINE new == IF p \in conf THEN << >> ELSE <<Config(conf \cup {p})>>
<1>0. proc \in [Procs -> States] /\ conf \in SUBSET Procs /\ ch \in Seq(MirrorFrames) /\ written \in Nat
  BY DEF WorldTypes
<1>1. PICK st \in States : proc' = [proc EXCEPT ![p] = st] /\ Write(Append(new, Status(p, st, "start")))
  <2>1. CASE proc[p] \in {"Running", "Stopping"}
    <3>1. Write(Append(new, Status(p, proc[p], "start"))) /\ proc' = proc
      BY <2>1 DEF handle_process_start
    <3>2. proc[p] \in States /\ proc' = [proc EXCEPT ![p] = proc[p]]
      BY <1>0, <3>1
    <3>. QED  BY <3>1, <3>2
  <2>2. CASE proc[p] \notin {"Running", "Stopping"}
    BY <2>2 DEF handle_process_start, States
  <2>. QED  BY <2>1, <2>2
<1>2. conf' = conf \cup {p}
  BY DEF handle_process_start
<1>3. new \in Seq(MirrorFrames) /\ Brings(Agreeing, new, proc, conf \cup {p}, conf)
  <2>1. CASE p \in conf
    <3>1. new = << >> /\ conf \cup {p} = conf /\ new \in Seq(MirrorFrames)
      BY <2>1
    <3> HIDE DEF new
    <3>. QED  BY <3>1, BringsNothing
  <2>2. CASE p \notin conf
    <3> DEFINE names == conf \cup {p}
               none == << >>
    <3>1. names \in SUBSET Procs /\ conf \cap names = conf
      BY <1>0
    <3>2. none \in Seq(MirrorFrames) /\ new = Append(none, Config(names))
      BY <2>2
    <3>3. Brings(Agreeing, none, proc, conf, conf) /\ Agreeing \subseteq Points
      BY BringsNothing
    <3> HIDE DEF names, new, none
    <3>4. new \in Seq(MirrorFrames) /\ Brings(Agreeing, new, proc, names, conf \cap names)
      BY <3>1, <3>2, <3>3, BringsConfig
    <3>. QED  BY <3>1, <3>4 DEF names
  <2>. QED  BY <2>1, <2>2
<1> HIDE DEF new
<1> DEFINE fs == Append(new, Status(p, st, "start"))
           cf == conf \cup {p}
<1>4. fs \in Seq(MirrorFrames) /\ Brings(Agreeing, fs, proc', conf', conf') /\ Tell(fs, p, "start")
  <2>1. conf \cup ({p} \cap cf) = cf
    OBVIOUS
  <2>2. Like(st, st) /\ "start" \in Operations \cup {""} /\ Agreeing \subseteq Points
    BY BringsNothing DEF Like, Operations
  <2>3. Brings(Agreeing, new, proc, cf, conf)
    BY <1>3
  <2> HIDE DEF cf
  <2>4. fs \in Seq(MirrorFrames) /\ Brings(Agreeing, fs, proc', cf, conf \cup ({p} \cap cf))
    BY <1>0, <1>1, <1>3, <2>2, <2>3, BringsStatus
  <2>5. Tell(fs, p, "start")
    BY <1>3, <2>2, TellsLast
  <2>. QED  BY <1>2, <2>1, <2>4, <2>5 DEF cf
<1> HIDE DEF fs
<1>5. ch' = ch \o fs /\ written' \in Nat /\ ch' \in Seq(MirrorFrames)
  BY <1>0, <1>1, <1>4, WritesFrames DEF fs
<1>6. Tell(ch', p, "start")
  BY <1>0, <1>4, <1>5, TellsJoined
<1>. QED
  BY <1>0, <1>1, <1>2, <1>4, <1>5, <1>6 DEF WorldWrites, WorldTypes

LEMMA OneStatus ==
    ASSUME WorldTypes, NEW p \in Procs, NEW st \in States, NEW to \in States,
           NEW ev \in Operations \cup {""}, p \in conf => Like(st, to),
           proc' = [proc EXCEPT ![p] = to], conf' = conf, Write(<<Status(p, st, ev)>>)
    PROVE  WorldWrites /\ WorldTypes' /\ Tell(ch', p, ev)
<1>0. proc \in [Procs -> States] /\ conf \in SUBSET Procs /\ ch \in Seq(MirrorFrames) /\ written \in Nat
  BY DEF WorldTypes
<1> DEFINE none == << >>
           fs == Append(none, Status(p, st, ev))
<1>1. none \in Seq(MirrorFrames) /\ fs = <<Status(p, st, ev)>>
  <2>1. Status(p, st, ev) \in MirrorFrames
    BY DEF Status, MirrorFrames, StatusFrames
  <2>. QED  BY <2>1, NoFrames, JustOne
<1>2. Brings(Agreeing, none, proc, conf, conf) /\ Agreeing \subseteq Points
  BY BringsNothing
<1>3. conf \cup ({p} \cap conf) = conf
  OBVIOUS
<1> HIDE DEF none
<1>4. /\ fs \in Seq(MirrorFrames) /\ Brings(Agreeing, fs, proc', conf, conf \cup ({p} \cap conf))
      /\ Tell(fs, p, ev)
  BY <1>0, <1>1, <1>2, BringsStatus, TellsLast
<1>5. Write(fs)
  BY <1>1
<1> HIDE DEF fs
<1>6. ch' = ch \o fs /\ written' \in Nat /\ ch' \in Seq(MirrorFrames)
  BY <1>0, <1>4, <1>5, WritesFrames
<1>7. Tell(ch', p, ev)
  BY <1>0, <1>4, <1>6, TellsJoined
<1>. QED
  BY <1>0, <1>3, <1>4, <1>6, <1>7 DEF WorldWrites, WorldTypes

LEMMA StopWrites ==
    ASSUME WorldTypes, NEW p \in Procs, handle_process_stop(p)
    PROVE  WorldWrites /\ WorldTypes' /\ Tell(ch', p, "stop")
<1> DEFINE st == IF p \notin conf \/ proc[p] \in Down THEN "Stopped" ELSE "Stopping"
<1>0. proc \in [Procs -> States]
  BY DEF WorldTypes
<1>1. /\ Write(<<Status(p, st, "stop")>>) /\ conf' = conf
      /\ proc' = IF p \in conf THEN [proc EXCEPT ![p] = st] ELSE proc
  BY DEF handle_process_stop
<1>2. st \in States /\ "stop" \in Operations \cup {""} /\ Like(st, st)
  BY DEF States, Operations, Like
<1> HIDE DEF st
<1>3. CASE p \in conf
  BY <1>1, <1>2, <1>3, OneStatus
<1>4. CASE p \notin conf
  <2> DEFINE to == proc[p]
  <2>1. to \in States /\ proc' = [proc EXCEPT ![p] = to]
    BY <1>0, <1>1, <1>4
  <2> HIDE DEF to
  <2>. QED  BY <1>1, <1>2, <1>4, <2>1, OneStatus
<1>. QED
  BY <1>3, <1>4

LEMMA ExitWrites ==
    ASSUME WorldTypes, NEW p \in Procs, Exit(p)
    PROVE  WorldWrites /\ WorldTypes'
<1> DEFINE st == IF proc[p] = "Stopping" THEN "Stopped" ELSE "Crashed"
<1>1. Write(<<Status(p, st, "")>>) /\ conf' = conf /\ proc' = [proc EXCEPT ![p] = st]
  BY DEF Exit
<1>2. st \in States /\ "" \in Operations \cup {""} /\ Like(st, st)
  BY DEF States, Operations, Like
<1> HIDE DEF st
<1>. QED
  BY <1>1, <1>2, OneStatus

LEMMA ReportWrites ==
    ASSUME WorldTypes, NEW p \in Procs, NEW d \in Domains, ReportOf(p, d)
    PROVE  WorldWrites /\ WorldTypes'
<1>0. proc \in [Procs -> States] /\ conf \in SUBSET Procs /\ ch \in Seq(MirrorFrames) /\ written \in Nat
  BY DEF WorldTypes
<1>1. PICK note \in Notes(d) : Write(<<Reported(d, p, written + 1, note)>>)
  BY DEF ReportOf
<1>2. proc' = proc /\ conf' = conf /\ proc[p] \notin Down
  BY DEF ReportOf, Down
<1> DEFINE f == Reported(d, p, written + 1, note)
           none == << >>
           fs == Append(none, f)
<1>3. f \in ReportFrames /\ f.p = p
  <2>1. note \in Remarks
    BY DEF Notes, Remarks
  <2>. QED  BY <1>0, <2>1 DEF Reported, ReportFrames
<1>4. f \in MirrorFrames
  BY <1>3 DEF MirrorFrames
<1>5. fs = <<f>> /\ none \in Seq(MirrorFrames)
  OBVIOUS
<1>6. Write(fs)
  BY <1>1, <1>5
<1> HIDE DEF f
<1>7. \A y \in Points : AgreesOn(y, proc, conf, conf) => AgreesOn(Reached(y, f), proc, conf, conf)
  <2>1. proc[f.p] \notin Down
    BY <1>2, <1>3
  <2>. QED  BY <1>0, <1>3, <2>1, ReportAgrees
<1>8. Brings(Agreeing, none, proc, conf, conf) /\ Agreeing \subseteq Points
  BY BringsNothing
<1> HIDE DEF none
<1>9. fs \in Seq(MirrorFrames) /\ Brings(Agreeing, fs, proc, conf, conf)
  BY <1>4, <1>5, <1>7, <1>8, BringsOneMore
<1> HIDE DEF fs
<1>10. ch' = ch \o fs /\ written' \in Nat /\ ch' \in Seq(MirrorFrames)
  BY <1>0, <1>6, <1>9, WritesFrames
<1>. QED
  BY <1>0, <1>2, <1>9, <1>10 DEF WorldWrites, WorldTypes

LEMMA TwoFrames ==
    ASSUME NEW a \in MirrorFrames, NEW b \in MirrorFrames, NEW c \in MirrorFrames
    PROVE  /\ <<a>> \o <<b>> = Append(Append(<< >>, a), b)
           /\ <<a>> \o <<b, c>> = Append(Append(Append(<< >>, a), b), c)
OBVIOUS

LEMMA RemoveWrites ==
    ASSUME WorldTypes, NEW p \in Procs, handle_process_remove(p)
    PROVE  WorldWrites /\ WorldTypes' /\ Tell(ch', p, "remove")
<1> DEFINE lives == proc[p] \in {"Running", "Stopping"}
           end == IF lives THEN "Stopping" ELSE "Stopped"
           cf == conf \ {p}
           po == [proc EXCEPT ![p] = end]
           a == Config(cf)
           s0 == Status(p, "Stopped", "")
           s1 == Status(p, end, "remove")
           none == << >>
           first == Append(none, a)
           second == Append(first, s0)
           fs == IF lives THEN Append(first, s1) ELSE Append(second, s1)
<1>0. proc \in [Procs -> States] /\ conf \in SUBSET Procs /\ ch \in Seq(MirrorFrames) /\ written \in Nat
  BY DEF WorldTypes
<1>1. conf' = cf /\ proc' = po
  BY DEF handle_process_remove
<1>2. /\ end \in States /\ "Stopped" \in States
      /\ "remove" \in Operations \cup {""} /\ "" \in Operations \cup {""}
      /\ Like(end, end) /\ cf \in SUBSET Procs /\ p \notin cf
  BY <1>0 DEF States, Operations, Like
<1>3. a \in MirrorFrames /\ s0 \in MirrorFrames /\ s1 \in MirrorFrames
  BY <1>2 DEF Status, Config, MirrorFrames, StatusFrames, MirrorConfigs
<1>4. CASE ~ lives /\ p \notin conf
  <2>1. end = "Stopped" /\ conf' = conf
    BY <1>1, <1>4
  <2>2. Write(<<Status(p, "Stopped", "remove")>>)
    BY <1>4 DEF handle_process_remove
  <2> HIDE DEF lives
  <2>. QED  BY <1>1, <1>2, <2>1, <2>2, OneStatus
<1>5. CASE lives \/ p \in conf
  <2>1. Write(fs)
    <3>1. CASE lives
      <4>1. Write(<<a>> \o <<s1>>)
        BY <3>1 DEF handle_process_remove
      <4>2. fs = Append(Append(<< >>, a), s1)
        BY <3>1
      <4> HIDE DEF a, s1, fs
      <4>. QED  BY <1>3, <4>1, <4>2, TwoFrames
    <3>2. CASE ~ lives
      <4>1. Write(<<a>> \o <<s0, s1>>)
        BY <3>2, <1>5 DEF handle_process_remove
      <4>2. fs = Append(Append(Append(<< >>, a), s0), s1)
        BY <3>2
      <4> HIDE DEF a, s0, s1, fs
      <4>. QED  BY <1>3, <4>1, <4>2, TwoFrames
    <3>. QED  BY <3>1, <3>2
  <2> HIDE DEF lives, end
  <2>2. none \in Seq(MirrorFrames) /\ Brings(Agreeing, none, proc, conf, conf) /\ Agreeing \subseteq Points
    BY NoFrames, BringsNothing
  <2>3. conf \cap cf = cf /\ cf \cup ({p} \cap cf) = cf
    OBVIOUS
  <2> HIDE DEF none, cf
  <2>4. first \in Seq(MirrorFrames) /\ Brings(Agreeing, first, proc, cf, cf)
    <3>1. first \in Seq(MirrorFrames) /\ Brings(Agreeing, first, proc, cf, conf \cap cf)
      BY <1>2, <2>2, BringsConfig
    <3>. QED  BY <2>3, <3>1
  <2> HIDE DEF first
  <2>5. fs \in Seq(MirrorFrames) /\ Brings(Agreeing, fs, po, cf, cf) /\ Tell(fs, p, "remove")
    <3>1. CASE lives
      <4>1. fs = Append(first, s1)
        BY <3>1
      <4>2. Append(first, s1) \in Seq(MirrorFrames) /\ Brings(Agreeing, Append(first, s1), po, cf, cf \cup ({p} \cap cf))
        BY <1>0, <1>2, <2>2, <2>4, BringsStatus
      <4>3. Tell(Append(first, s1), p, "remove")
        BY <1>2, <2>4, TellsLast
      <4>. QED  BY <2>3, <4>1, <4>2, <4>3
    <3>2. CASE ~ lives
      <4> DEFINE pm == [proc EXCEPT ![p] = "Stopped"]
      <4>1. fs = Append(second, s1)
        BY <3>2
      <4>2. second \in Seq(MirrorFrames) /\ Brings(Agreeing, second, pm, cf, cf \cup ({p} \cap cf))
        <5>1. p \in cf => Like("Stopped", "Stopped")
          BY <1>2
        <5>. QED  BY <1>0, <1>2, <2>2, <2>4, <5>1, BringsStatus
      <4>3. second \in Seq(MirrorFrames) /\ Brings(Agreeing, second, pm, cf, cf)
        BY <2>3, <4>2
      <4>4. pm \in [Procs -> States] /\ [pm EXCEPT ![p] = end] = po
        BY <1>0, <1>2
      <4> HIDE DEF pm, second
      <4>5. /\ Append(second, s1) \in Seq(MirrorFrames)
            /\ Brings(Agreeing, Append(second, s1), [pm EXCEPT ![p] = end], cf, cf \cup ({p} \cap cf))
        BY <1>2, <2>2, <4>3, <4>4, BringsStatus
      <4>6. Tell(Append(second, s1), p, "remove")
        BY <1>2, <4>3, TellsLast
      <4>. QED  BY <2>3, <4>1, <4>4, <4>5, <4>6
    <3>. QED  BY <3>1, <3>2
  <2> HIDE DEF fs
  <2>6. ch' = ch \o fs /\ written' \in Nat /\ ch' \in Seq(MirrorFrames)
    BY <1>0, <2>1, <2>5, WritesFrames
  <2>7. Tell(ch', p, "remove")
    BY <1>0, <2>5, <2>6, TellsJoined
  <2>8. proc' \in [Procs -> States] /\ conf' \in SUBSET Procs
    BY <1>0, <1>1, <1>2
  <2>9. WorldWrites
    <3> HIDE DEF po
    <3>. QED  BY <1>1, <2>5, <2>6 DEF WorldWrites
  <2>. QED
    BY <2>6, <2>7, <2>8, <2>9 DEF WorldTypes
<1>. QED
  BY <1>4, <1>5

\* Nothing is written.
LEMMA NothingWrites ==
    ASSUME WorldTypes, UNCHANGED <<proc, conf, written, ch>>
    PROVE  WorldWrites /\ WorldTypes'
<1> DEFINE none == << >>
<1>1. none \in Seq(MirrorFrames) /\ Brings(Agreeing, none, proc, conf, conf)
  BY NoFrames, BringsNothing
<1>2. ch \o none = ch
  BY DEF WorldTypes
<1> HIDE DEF none
<1>. QED
  BY <1>1, <1>2 DEF WorldWrites, WorldTypes

Commands == [p : Procs, op : Operations]

LEMMA HandleWrites ==
    ASSUME WorldTypes, cmds \in Seq(Commands), Handle
    PROVE  /\ WorldWrites /\ WorldTypes'
           /\ Head(cmds).op \notin DOMAIN Answers => Tell(ch', Head(cmds).p, Head(cmds).op)
<1> DEFINE p == Head(cmds).p
           op == Head(cmds).op
<1>1. p \in Procs
  <2>1. cmds # << >>
    BY DEF Handle
  <2>2. Head(cmds) \in Commands
    BY <2>1, HeadTailProperties
  <2>. QED  BY <2>2 DEF Commands
<1>2. \/ op = "start" /\ handle_process_start(p)
      \/ op = "stop" /\ handle_process_stop(p)
      \/ op = "remove" /\ handle_process_remove(p)
      \/ op \in DOMAIN Answers /\ \E d \in Answers[op] : ReportOf(p, d)
      \/ op \in DOMAIN Answers /\ UNCHANGED <<proc, conf, written, ch>>
  BY DEF Handle
<1> HIDE DEF p, op
<1>3. CASE op \in DOMAIN Answers /\ \E d \in Answers[op] : ReportOf(p, d)
  <2>1. PICK d \in Answers[op] : ReportOf(p, d)
    BY <1>3
  <2>2. d \in Domains
    BY <1>3 DEF Answers, Domains, Volatile
  <2>. QED  BY <1>1, <1>3, <2>1, <2>2, ReportWrites DEF op
<1>. QED
  BY <1>1, <1>2, <1>3, StartWrites, StopWrites, RemoveWrites, NothingWrites DEF p, op

(* The answer to QUERY_FULL_SNAPSHOT, from wherever the mirror is. *)
LEMMA OrderIs ==
    ASSUME conf \in SUBSET Procs
    PROVE  /\ Cardinality(conf) \in Nat
           /\ registry_order \in [1..Cardinality(conf) -> conf]
           /\ \A p \in conf : \E i \in 1..Cardinality(conf) : registry_order[i] = p
<1> DEFINE n == Cardinality(conf)
<1>1. IsFiniteSet(conf)
  BY MirrorAssumption, FS_Subset
<1>2. n \in Nat /\ ExistsBijection(1..n, conf)
  BY <1>1, FS_CardinalityType
<1> HIDE DEF n
<1>3. PICK s : s \in Bijection(1..n, conf)
  BY <1>2 DEF ExistsBijection
<1>4. s \in [1..n -> conf] /\ \A p \in conf : \E i \in 1..n : s[i] = p
  BY <1>3 DEF Bijection, Surjection
<1>5. Range(s) = conf
  BY <1>4 DEF Range
<1>6. registry_order \in [1..n -> conf] /\ Range(registry_order) = conf
  BY <1>4, <1>5 DEF registry_order, n
<1>7. \A p \in conf : \E i \in 1..n : registry_order[i] = p
  BY <1>6 DEF Range
<1>. QED
  BY <1>2, <1>6, <1>7 DEF n

\* What the master says of p.
Standpoint(p) == Status(p, IF proc[p] \in Down THEN "Stopped" ELSE proc[p], "")

LEMMA KnownIs ==
    ASSUME proc \in [Procs -> States], NEW p \in Procs
    PROVE  LET st == IF proc[p] \in Down THEN "Stopped" ELSE proc[p]
           IN st \in States /\ Like(st, proc[p]) /\ Standpoint(p) = Status(p, st, "") /\ Standpoint(p) \in MirrorFrames
<1> DEFINE st == IF proc[p] \in Down THEN "Stopped" ELSE proc[p]
<1>1. st \in States /\ Like(st, proc[p])
  BY DEF States, Down, Like
<1>. QED
  BY <1>1 DEF Standpoint, Status, MirrorFrames, StatusFrames

LEMMA Prefixed ==
    ASSUME NEW a \in MirrorFrames, NEW q \in Seq(MirrorFrames)
    PROVE  LET s == <<a>> \o q
           IN s \in Seq(MirrorFrames) /\ Len(s) = Len(q) + 1 /\ s[1] = a /\ \A i \in 1..Len(q) : s[i + 1] = q[i]
OBVIOUS

LEMMA FirstOf ==
    ASSUME NEW s \in Seq(MirrorFrames), Len(s) >= 1
    PROVE  SubSeq(s, 1, 1) = <<s[1]>>
<1> DEFINE a == SubSeq(s, 1, 1)
           b == <<s[1]>>
<1>1. a \in Seq(MirrorFrames) /\ Len(a) = 1 /\ a[1] = s[1]
  OBVIOUS
<1>2. b \in Seq(MirrorFrames) /\ Len(b) = 1 /\ b[1] = s[1]
  OBVIOUS
<1> HIDE DEF a, b
<1>3. a = b
  BY <1>1, <1>2
<1>. QED
  BY <1>3 DEF a, b

LEMMA SnapshotWrites ==
    ASSUME WorldTypes, report_full_snapshot
    PROVE  /\ WorldTypes' /\ proc' = proc /\ conf' = conf
           /\ \E fs \in Seq(MirrorFrames) : ch' = ch \o fs /\ Brings(Points, fs, proc, conf, conf)
<1> DEFINE n == Cardinality(conf)
           ord == registry_order
           tail == [i \in 1..n |-> Standpoint(ord[i])]
           fs == <<Config(conf)>> \o tail
           upto(i) == SubSeq(fs, 1, i + 1)
           Good(i) == Brings(Points, upto(i), proc, conf, {ord[j] : j \in 1..i})
<1>0. proc \in [Procs -> States] /\ conf \in SUBSET Procs /\ ch \in Seq(MirrorFrames) /\ written \in Nat
  BY DEF WorldTypes
<1>1. n \in Nat /\ ord \in [1..n -> conf] /\ \A p \in conf : \E i \in 1..n : ord[i] = p
  BY <1>0, OrderIs
<1>2. Write(fs) /\ proc' = proc /\ conf' = conf
  BY DEF report_full_snapshot, Standpoint
<1> HIDE DEF ord, n
<1>3. Config(conf) \in MirrorFrames
  BY <1>0 DEF Config, MirrorFrames, MirrorConfigs
<1>4. \A i \in 1..n : Standpoint(ord[i]) \in MirrorFrames
  BY <1>0, <1>1, KnownIs
<1>5. tail \in Seq(MirrorFrames) /\ Len(tail) = n /\ \A i \in 1..n : tail[i] = Standpoint(ord[i])
  BY <1>1, <1>4
<1> HIDE DEF tail
<1>6. /\ fs \in Seq(MirrorFrames) /\ Len(fs) = n + 1 /\ fs[1] = Config(conf)
      /\ \A i \in 1..n : fs[i + 1] = Standpoint(ord[i])
  BY <1>3, <1>5, Prefixed
<1> HIDE DEF fs
<1>7. Good(0)
  <2>1. upto(0) = Append(<< >>, Config(conf))
    <3>1. SubSeq(fs, 1, 0 + 1) = <<Config(conf)>>
      BY <1>1, <1>6, FirstOf
    <3>. QED  BY <1>3, <3>1, JustOne
  <2>2. {ord[j] : j \in 1..0} = {}
    OBVIOUS
  <2>3. ASSUME NEW y \in Points
        PROVE  Ends(y, Append(<< >>, Config(conf)), Reached(y, Config(conf)))
    BY <1>3, NoFrames, EndsNowhere, EndsAppend
  <2>4. ASSUME NEW y \in Points PROVE AgreesOn(Reached(y, Config(conf)), proc, conf, {})
    <3>1. AgreesOn(y, proc, y.m.conf, {})
      BY DEF AgreesOn
    <3>2. {} \cap conf = {}
      OBVIOUS
    <3>. QED  BY <1>0, <3>1, <3>2, ConfigAgrees
  <2>5. \A y \in Points : Reached(y, Config(conf)) \in Points
    BY <1>3, ReachesPoint
  <2>. QED  BY <2>1, <2>2, <2>3, <2>4, <2>5 DEF Brings
<1>8. ASSUME NEW i \in 0..(n - 1), Good(i) PROVE Good(i + 1)
  <2> DEFINE p == ord[i + 1]
             st == IF proc[p] \in Down THEN "Stopped" ELSE proc[p]
             K == {ord[j] : j \in 1..i}
             gs == upto(i)
  <2>1. p \in conf /\ p \in Procs /\ i + 1 \in 1..n
    BY <1>0, <1>1, <1>8
  <2>2. st \in States /\ Like(st, proc[p]) /\ Standpoint(p) = Status(p, st, "") /\ Standpoint(p) \in MirrorFrames
    BY <1>0, <2>1, KnownIs
  <2>3. K \cup ({p} \cap conf) = {ord[j] : j \in 1..(i + 1)}
    <3>1. 1..(i + 1) = 1..i \cup {i + 1}
      BY <1>1, <1>8
    <3>2. {ord[j] : j \in 1..(i + 1)} = K \cup {p}
      BY <3>1
    <3>. QED  BY <2>1, <3>2
  <2>4. gs \in Seq(MirrorFrames) /\ upto(i + 1) = Append(gs, Status(p, st, ""))
    <3>1. fs[i + 2] = Standpoint(p)
      BY <1>1, <1>6, <1>8
    <3>2. gs \in Seq(MirrorFrames) /\ SubSeq(fs, 1, i + 2) = Append(SubSeq(fs, 1, i + 1), fs[i + 2])
      BY <1>1, <1>6, <1>8
    <3>3. i + 1 + 1 = i + 2
      BY <1>1, <1>8
    <3>. QED  BY <2>2, <3>1, <3>2, <3>3
  <2>5. Brings(Points, gs, proc, conf, K)
    BY <1>8
  <2>6. [proc EXCEPT ![p] = proc[p]] = proc /\ proc[p] \in States /\ "" \in Operations \cup {""}
    BY <1>0, <2>1
  <2> DEFINE to == proc[p]
  <2>7. Like(st, to) /\ to \in States /\ [proc EXCEPT ![p] = to] = proc
    BY <2>2, <2>6
  <2> HIDE DEF gs, K, st, p, to
  <2>8. Brings(Points, Append(gs, Status(p, st, "")), [proc EXCEPT ![p] = to], conf, K \cup ({p} \cap conf))
    BY <1>0, <2>1, <2>2, <2>4, <2>5, <2>6, <2>7, BringsStatus
  <2>9. Brings(Points, Append(gs, Status(p, st, "")), proc, conf, K \cup ({p} \cap conf))
    BY <2>7, <2>8
  <2>. QED  BY <2>3, <2>4, <2>9 DEF p, gs, K
<1> HIDE DEF Good
<1>9. Good(n)
  <2> DEFINE Bad == {i \in 0..n : ~ Good(i)}
  <2>1. SUFFICES ASSUME ~ Good(n) PROVE FALSE
    OBVIOUS
  <2>2. Bad \in SUBSET Nat /\ Bad # {}
    BY <1>1, <2>1
  <2> HIDE DEF Bad
  <2>3. PICK k \in Bad : \A j \in Bad : k <= j
    BY <2>2, Least
  <2>4. k \in 0..n /\ ~ Good(k) /\ k # 0
    BY <1>7, <2>3 DEF Bad
  <2>5. k - 1 \in 0..(n - 1) /\ k - 1 \in 0..n /\ k - 1 \notin Bad /\ (k - 1) + 1 = k
    BY <1>1, <2>3, <2>4
  <2>6. Good(k - 1)
    BY <2>5 DEF Bad
  <2>. QED  BY <1>8, <2>4, <2>5, <2>6
<1>10. upto(n) = fs /\ {ord[j] : j \in 1..n} = conf
  BY <1>1, <1>6
<1>11. Brings(Points, fs, proc, conf, conf)
  BY <1>9, <1>10 DEF Good
<1>12. ch' = ch \o fs /\ written' \in Nat /\ ch' \in Seq(MirrorFrames)
  BY <1>0, <1>2, <1>6, WritesFrames
<1>. QED
  BY <1>0, <1>2, <1>6, <1>11, <1>12 DEF WorldTypes

-----------------------------------------------------------------------------
(* The types of the variables. *)
MirrorRequests == [id : Nat, p : Procs, op : Operations, at : {"server", "ok", "failed"}]

Here == [m |-> mirror, late |-> late]

ServerTypes ==
    /\ cmds \in Seq(Commands) /\ query \in BOOLEAN
    /\ mainq \in Seq(MirrorFrames) /\ ioq \in Seq(MirrorFrames)
    /\ phase \in {"start", "run"} /\ (phase = "start" => ioq = << >>)
    /\ Here \in Points /\ overtaken \in BOOLEAN

BrowserTypes ==
    /\ conn \in BOOLEAN /\ down \in Seq(MirrorMessages) /\ (~ conn => down = << >>)
    /\ SoundView(view)
    /\ pending \in SUBSET (Procs \X Operations) /\ timers = pending
    /\ requests \in SUBSET MirrorRequests /\ ops \in Nat

MirrorTypes == WorldTypes /\ ServerTypes /\ BrowserTypes

LEMMA HereIs ==
    ASSUME Here \in Points
    PROVE  Sound(mirror) /\ Clean(mirror, late) /\ late \in SUBSET Procs /\ Here.m = mirror /\ Here.late = late
BY PointIs DEF Here

LEMMA InMessages ==
    /\ \A m \in Mirrors : Sound(m) => [t |-> "snapshot", m |-> m] \in MirrorMessages
    /\ \A f \in MirrorFrames : [t |-> "frame", f |-> f] \in MirrorMessages
BY DEF MirrorMessages

LEMMA MessageIs ==
    ASSUME NEW x \in MirrorMessages
    PROVE  /\ x.t \in {"snapshot", "frame"}
           /\ x.t = "snapshot" => Sound(x.m)
           /\ x.t = "frame" => x.f \in MirrorFrames
<1>1. CASE x \in [t : {"snapshot"}, m : {m \in Mirrors : Sound(m)}]
  BY <1>1
<1>2. CASE x \in [t : {"frame"}, f : MirrorFrames]
  BY <1>2
<1>. QED
  BY <1>1, <1>2 DEF MirrorMessages

LEMMA TakesHead ==
    ASSUME NEW S, NEW q \in Seq(S), q # << >>
    PROVE  Head(q) \in S /\ Tail(q) \in Seq(S) /\ 1 \in DOMAIN q /\ Head(q) = q[1]
<1>1. Head(q) \in S /\ Tail(q) \in Seq(S)
  BY HeadTailProperties
<1>2. Len(q) \in Nat /\ Len(q) # 0 /\ Head(q) = q[1] /\ DOMAIN q = 1..Len(q)
  OBVIOUS
<1>. QED
  BY <1>1, <1>2

LEMMA EmptyStatus ==
    << >> \in StatusMaps
<1> DEFINE s == << >>
<1>1. s \in [{} -> States] /\ {} \in SUBSET Procs
  OBVIOUS
<1> HIDE DEF s
<1>. QED
  BY <1>1 DEF StatusMaps, s

LEMMA EmptyPoint ==
    [m |-> NoMirror, late |-> {}] \in Points
<1>1. << >> \in StatusMaps
  BY EmptyStatus
<1>2. NoDomains \in DomMaps /\ \A d \in Domains, p \in Procs : NoDomains[d][p] = None
  BY DEF NoDomains, DomMaps, None
<1>3. DOMAIN << >> = {}
  OBVIOUS
<1>4. NoMirror \in Mirrors /\ NoMirror.conf = {} /\ NoMirror.status = << >> /\ NoMirror.dom = NoDomains
  BY <1>1, <1>2 DEF NoMirror, Mirrors
<1>5. Sound(NoMirror) /\ Clean(NoMirror, {})
  <2>1. Volatile \subseteq Domains
    BY DEF Domains
  <2>. QED  BY <1>2, <1>3, <1>4, <2>1 DEF Sound, Clean, NoMirror
<1>. QED
  BY <1>5, PointIs

LEMMA TypesInit ==
    ASSUME MirrorInit
    PROVE  MirrorTypes
<1>1. << >> \in StatusMaps
  BY EmptyStatus
<1>2. NoDomains \in DomMaps
  BY DEF NoDomains, DomMaps, None
<1>6. [m |-> NoMirror, late |-> {}] \in Points
  BY EmptyPoint
<1>7. SoundView(NoView)
  <2>1. [p \in Procs |-> ""] \in [Procs -> Remarks]
    BY DEF Remarks
  <2>. QED  BY <1>1, <1>2, <2>1 DEF SoundView, NoView, Views
<1>8. WorldTypes
  <2>1. proc \in [Procs -> States] /\ conf \in SUBSET Procs
    BY DEF MirrorInit, States
  <2>. QED  BY <2>1, NoFrames DEF MirrorInit, WorldTypes
<1>9. ServerTypes
  <2>1. << >> \in Seq(Commands)
    OBVIOUS
  <2>. QED  BY <1>6, <2>1, NoFrames DEF MirrorInit, ServerTypes, Here
<1>10. BrowserTypes
  <2>1. << >> \in Seq(MirrorMessages)
    OBVIOUS
  <2>. QED  BY <1>7, <2>1 DEF MirrorInit, BrowserTypes
<1>. QED
  BY <1>8, <1>9, <1>10 DEF MirrorTypes

LEMMA WorldKept ==
    ASSUME WorldTypes, UNCHANGED <<proc, conf, written>>, ch' \in Seq(MirrorFrames)
    PROVE  WorldTypes'
BY DEF WorldTypes

LEMMA ServerKept ==
    ASSUME ServerTypes, cmds' \in Seq(Commands), query' \in BOOLEAN,
           UNCHANGED <<server, late, overtaken>>
    PROVE  ServerTypes' /\ Here' = Here
BY DEF ServerTypes, Here, server

LEMMA BrowserKept ==
    ASSUME BrowserTypes, UNCHANGED <<conn, down, view, pending, timers, requests>>, ops' \in Nat
    PROVE  BrowserTypes'
BY DEF BrowserTypes

\* A step of the master or of a gateway.
LEMMA HandleTypes ==
    ASSUME MirrorTypes, Handle
    PROVE  MirrorTypes'
<1>1. WorldTypes /\ ServerTypes /\ BrowserTypes /\ cmds \in Seq(Commands) /\ query \in BOOLEAN /\ ops \in Nat
  BY DEF MirrorTypes, ServerTypes, BrowserTypes
<1>2. cmds # << >> /\ cmds' = Tail(cmds) /\ query' = query /\ Keep
  BY DEF Handle
<1>3. cmds' \in Seq(Commands)
  BY <1>1, <1>2, TakesHead
<1>4. WorldTypes'
  BY <1>1, HandleWrites
<1>5. UNCHANGED <<server, late, overtaken>> /\ UNCHANGED <<conn, down, view, pending, timers, requests, ops>>
  BY <1>2 DEF Keep, browser
<1>6. ServerTypes'
  BY <1>1, <1>2, <1>3, <1>5, ServerKept
<1>7. BrowserTypes'
  BY <1>1, <1>5, BrowserKept
<1>. QED
  BY <1>4, <1>6, <1>7 DEF MirrorTypes

LEMMA ExitTypes ==
    ASSUME MirrorTypes, NEW p \in Procs, Exit(p)
    PROVE  MirrorTypes'
<1>1. WorldTypes /\ ServerTypes /\ BrowserTypes /\ cmds \in Seq(Commands) /\ query \in BOOLEAN /\ ops \in Nat
  BY DEF MirrorTypes, ServerTypes, BrowserTypes
<1>2. cmds' = cmds /\ query' = query /\ Keep
  BY DEF Exit
<1>4. WorldTypes'
  BY <1>1, ExitWrites
<1>5. UNCHANGED <<server, late, overtaken>> /\ UNCHANGED <<conn, down, view, pending, timers, requests, ops>>
  BY <1>2 DEF Keep, browser
<1>6. ServerTypes'
  BY <1>1, <1>2, <1>5, ServerKept
<1>7. BrowserTypes'
  BY <1>1, <1>5, BrowserKept
<1>. QED
  BY <1>4, <1>6, <1>7 DEF MirrorTypes

LEMMA SpeakTypes ==
    ASSUME MirrorTypes, NEW p \in Procs, Speak(p)
    PROVE  MirrorTypes' /\ WorldWrites
<1>1. WorldTypes /\ ServerTypes /\ BrowserTypes /\ cmds \in Seq(Commands) /\ query \in BOOLEAN /\ ops \in Nat
  BY DEF MirrorTypes, ServerTypes, BrowserTypes
<1>2. PICK d \in Domains : ReportOf(p, d)
  BY DEF Speak
<1>3. /\ cmds' = cmds /\ query' = query /\ UNCHANGED <<server, late, overtaken>>
      /\ UNCHANGED <<conn, down, view, pending, timers, requests>> /\ ops' = ops + 1
  BY DEF Speak, Operation
<1>4. WorldTypes' /\ WorldWrites
  BY <1>1, <1>2, ReportWrites
<1>6. ServerTypes'
  BY <1>1, <1>3, ServerKept
<1>7. BrowserTypes'
  BY <1>1, <1>3, BrowserKept
<1>. QED
  BY <1>4, <1>6, <1>7 DEF MirrorTypes

LEMMA SnapshotTypes ==
    ASSUME MirrorTypes, report_full_snapshot
    PROVE  MirrorTypes'
<1>1. WorldTypes /\ ServerTypes /\ BrowserTypes /\ cmds \in Seq(Commands) /\ query \in BOOLEAN /\ ops \in Nat
  BY DEF MirrorTypes, ServerTypes, BrowserTypes
<1>2. cmds' = cmds /\ query' = FALSE /\ Keep
  BY DEF report_full_snapshot
<1>4. WorldTypes'
  BY <1>1, SnapshotWrites
<1>5. UNCHANGED <<server, late, overtaken>> /\ UNCHANGED <<conn, down, view, pending, timers, requests, ops>>
  BY <1>2 DEF Keep, browser
<1>6. ServerTypes'
  BY <1>1, <1>2, <1>5, ServerKept
<1>7. BrowserTypes'
  BY <1>1, <1>5, BrowserKept
<1>. QED
  BY <1>4, <1>6, <1>7 DEF MirrorTypes

\* A step of the web server.
LEMMA DrainTypes ==
    ASSUME MirrorTypes, drain_and_post
    PROVE  MirrorTypes'
<1>1. WorldTypes /\ ServerTypes /\ BrowserTypes /\ ops \in Nat
  BY DEF MirrorTypes, BrowserTypes
<1>2. ch # << >> /\ ch \in Seq(MirrorFrames) /\ mainq \in Seq(MirrorFrames) /\ ioq \in Seq(MirrorFrames)
  BY <1>1 DEF drain_and_post, WorldTypes, ServerTypes
<1>3. Head(ch) \in MirrorFrames /\ Tail(ch) \in Seq(MirrorFrames)
  BY <1>2, TakesHead
<1>4. /\ ch' \in Seq(MirrorFrames) /\ mainq' \in Seq(MirrorFrames) /\ ioq' \in Seq(MirrorFrames)
      /\ phase = "start" => ioq' = ioq
  <2>1. CASE phase = "run" /\ ch' = << >> /\ ioq' = ioq \o ch /\ mainq' = mainq
    BY <1>2, <2>1, NoFrames
  <2>2. CASE phase = "start" /\ ch' = Tail(ch) /\ mainq' = Append(mainq, Head(ch)) /\ ioq' = ioq
    BY <1>2, <1>3, <2>2
  <2>. QED  BY <2>1, <2>2 DEF drain_and_post
<1>5. WorldTypes'
  BY <1>1, <1>4, WorldKept DEF drain_and_post, world
<1>6. ServerTypes'
  BY <1>1, <1>4 DEF drain_and_post, world, ServerTypes, Here
<1>7. BrowserTypes'
  BY <1>1, BrowserKept DEF drain_and_post, browser
<1>. QED
  BY <1>5, <1>6, <1>7 DEF MirrorTypes

LEMMA RunTypes ==
    ASSUME MirrorTypes, Run
    PROVE  MirrorTypes'
<1>1. WorldTypes /\ ServerTypes /\ BrowserTypes /\ ops \in Nat /\ ch \in Seq(MirrorFrames)
  BY DEF MirrorTypes, BrowserTypes, WorldTypes
<1>2. WorldTypes'
  BY <1>1, WorldKept DEF Run, world
<1>3. ServerTypes'
  BY <1>1 DEF Run, world, ServerTypes, Here
<1>4. BrowserTypes'
  BY <1>1, BrowserKept DEF Run, browser
<1>. QED
  BY <1>2, <1>3, <1>4 DEF MirrorTypes

LEMMA ApplyTakes ==
    ASSUME MirrorTypes, NEW f \in MirrorFrames, Apply(f)
    PROVE  /\ Here' = Reached(Here, f) /\ Here' \in Points
           /\ mirror' = on_frame(mirror, f) /\ Sound(mirror')
           /\ WorldTypes' /\ BrowserTypes' /\ cmds' = cmds /\ query' = query /\ phase' = phase
           /\ UNCHANGED <<proc, conf, ch>>
<1>1. WorldTypes /\ ServerTypes /\ BrowserTypes /\ ch \in Seq(MirrorFrames) /\ Here \in Points
  BY DEF MirrorTypes, WorldTypes, ServerTypes
<1>2. Sound(mirror) /\ late \in SUBSET Procs /\ Here.m = mirror /\ Here.late = late
  BY <1>1, HereIs
<1>3. Here' = Reached(Here, f) /\ mirror' = on_frame(mirror, f)
  <2>1. mirror' = on_frame(mirror, f) /\ late' = LateAfter(late, mirror, f)
    BY DEF Apply, LateAfter
  <2>2. Reached(Here, f) = [m |-> on_frame(mirror, f), late |-> LateAfter(late, mirror, f)]
    BY <1>2 DEF Reached
  <2>. QED  BY <2>1, <2>2 DEF Here
<1>4. Here' \in Points /\ Sound(mirror')
  BY <1>1, <1>2, <1>3, ReachesPoint, StaysSound
<1>5. WorldTypes'
  BY <1>1, WorldKept DEF Apply, world
<1>6. down' \in Seq(MirrorMessages)
  <2> DEFINE x == [t |-> "frame", f |-> f]
  <2>1. x \in MirrorMessages /\ down \in Seq(MirrorMessages)
    BY <1>1, InMessages DEF BrowserTypes
  <2>2. down' = IF conn THEN Append(down, x) ELSE down
    BY DEF Apply
  <2> HIDE DEF x
  <2>. QED  BY <2>1, <2>2
<1>7. BrowserTypes'
  BY <1>1, <1>6 DEF BrowserTypes, Apply, browser
<1>. QED
  BY <1>3, <1>4, <1>5, <1>7 DEF Apply, world

LEMMA ApplyTypes ==
    ASSUME MirrorTypes, ApplyIo \/ ApplyMain
    PROVE  MirrorTypes'
<1>1. ServerTypes /\ mainq \in Seq(MirrorFrames) /\ ioq \in Seq(MirrorFrames)
  BY DEF MirrorTypes, ServerTypes
<1>2. CASE ApplyIo
  <2>1. ioq # << >> /\ ioq' = Tail(ioq) /\ Apply(Head(ioq)) /\ mainq' = mainq /\ overtaken' \in BOOLEAN
    BY <1>2 DEF ApplyIo
  <2>2. Head(ioq) \in MirrorFrames /\ Tail(ioq) \in Seq(MirrorFrames)
    BY <1>1, <2>1, TakesHead
  <2>3. Here' \in Points /\ WorldTypes' /\ BrowserTypes' /\ cmds' = cmds /\ query' = query /\ phase' = phase
    BY <2>1, <2>2, ApplyTakes
  <2>4. ServerTypes'
    BY <1>1, <2>1, <2>2, <2>3 DEF ServerTypes
  <2>. QED  BY <2>3, <2>4 DEF MirrorTypes
<1>3. CASE ApplyMain
  <2>1. /\ mainq # << >> /\ mainq' = Tail(mainq) /\ Apply(Head(mainq))
        /\ ioq' = ioq /\ overtaken' = overtaken
    BY <1>3 DEF ApplyMain
  <2>2. Head(mainq) \in MirrorFrames /\ Tail(mainq) \in Seq(MirrorFrames)
    BY <1>1, <2>1, TakesHead
  <2>3. Here' \in Points /\ WorldTypes' /\ BrowserTypes' /\ cmds' = cmds /\ query' = query /\ phase' = phase
    BY <2>1, <2>2, ApplyTakes
  <2>4. ServerTypes'
    BY <1>1, <2>1, <2>2, <2>3 DEF ServerTypes
  <2>. QED  BY <2>3, <2>4 DEF MirrorTypes
<1>. QED
  BY <1>2, <1>3

\* A step of the browser or of a request of it.
LEMMA OpsAre ==
    /\ Ops = Operations /\ DOMAIN Answers = {"login", "logout", "config", "auto_login"}
    /\ Dispatched \subseteq DOMAIN Answers
BY DEF Ops, Operations, Answers, Dispatched

LEMMA OperateTypes ==
    ASSUME MirrorTypes, NEW p \in Procs, NEW op \in Ops, Operate(p, op)
    PROVE  MirrorTypes'
<1>1. /\ WorldTypes /\ ServerTypes /\ BrowserTypes /\ ops \in Nat /\ ch \in Seq(MirrorFrames)
      /\ cmds \in Seq(Commands) /\ query \in BOOLEAN
  BY DEF MirrorTypes, BrowserTypes, WorldTypes, ServerTypes
<1>2. WorldTypes'
  BY <1>1, WorldKept DEF Operate, world
<1>3. ServerTypes'
  BY <1>1, ServerKept DEF Operate, world
<1>4. op \in Operations /\ <<p, op>> \in Procs \X Operations
  BY OpsAre
<1>5. [id |-> ops, p |-> p, op |-> op, at |-> "server"] \in MirrorRequests
  BY <1>1, <1>4 DEF MirrorRequests
<1>6. BrowserTypes'
  BY <1>1, <1>4, <1>5 DEF Operate, Operation, BrowserTypes
<1>. QED
  BY <1>2, <1>3, <1>6 DEF MirrorTypes

\* What becomes of a request at the server.
Served(r) ==
    \/ Written(r)
    \/ Refused(r)
    \/ r.op \in Dispatched /\ UNCHANGED cmds /\ Move(r, "ok")

LEMMA ServeIs ==
    ASSUME NEW r, Serve(r)
    PROVE  /\ Served(r)
           /\ UNCHANGED <<proc, conf, written, query, ch, server, conn, down, view, pending, timers, ops,
                          breaks, overtaken, late, hidden>>
BY DEF Serve, Served, write_process_control, login_or_logout, handle_connect_disconnect, dispatch_op

LEMMA Moved ==
    ASSUME requests \in SUBSET MirrorRequests, NEW r \in requests, NEW to \in {"server", "ok", "failed"},
           Move(r, to)
    PROVE  /\ requests' \in SUBSET MirrorRequests
           /\ \A q \in requests : q # r => q \in requests'
           /\ \E q \in requests' : q.p = r.p /\ q.op = r.op /\ q.at = to
<1> DEFINE s == [r EXCEPT !.at = to]
<1>1. s \in MirrorRequests /\ s.p = r.p /\ s.op = r.op /\ s.at = to
  BY DEF MirrorRequests
<1>2. requests' = (requests \ {r}) \cup {s}
  BY DEF Move
<1> HIDE DEF s
<1>. QED
  BY <1>1, <1>2

LEMMA ServeTypes ==
    ASSUME MirrorTypes, NEW r \in requests, Serve(r)
    PROVE  MirrorTypes'
<1>1. /\ WorldTypes /\ ServerTypes /\ BrowserTypes /\ ops \in Nat /\ ch \in Seq(MirrorFrames)
      /\ cmds \in Seq(Commands) /\ query \in BOOLEAN /\ requests \in SUBSET MirrorRequests
  BY DEF MirrorTypes, BrowserTypes, WorldTypes, ServerTypes
<1>2. /\ Served(r)
      /\ UNCHANGED <<proc, conf, written, query, ch, server, conn, down, view, pending, timers, ops,
                     overtaken, late>>
  BY ServeIs
<1>3. cmds' \in Seq(Commands)
  <2> DEFINE c == [p |-> r.p, op |-> r.op]
  <2>1. c \in Commands
    BY <1>1 DEF MirrorRequests, Commands
  <2>2. cmds' = Append(cmds, c) \/ cmds' = cmds
    BY <1>2 DEF Served, Written, Refused
  <2> HIDE DEF c
  <2>. QED  BY <1>1, <2>1, <2>2
<1>4. requests' \in SUBSET MirrorRequests
  BY <1>1, <1>2, Moved DEF Served, Written, Refused
<1>5. WorldTypes'
  BY <1>1, <1>2, WorldKept
<1>6. ServerTypes'
  BY <1>1, <1>2, <1>3, ServerKept
<1>7. BrowserTypes'
  BY <1>1, <1>2, <1>4 DEF BrowserTypes
<1>. QED
  BY <1>5, <1>6, <1>7 DEF MirrorTypes

LEMMA SettleTypes ==
    ASSUME MirrorTypes, (\E r \in requests : TakeResponse(r)) \/ (\E key \in timers : PendingTimeout(key))
    PROVE  MirrorTypes'
<1>1. /\ WorldTypes /\ ServerTypes /\ BrowserTypes /\ ops \in Nat /\ ch \in Seq(MirrorFrames)
      /\ cmds \in Seq(Commands) /\ query \in BOOLEAN /\ requests \in SUBSET MirrorRequests
  BY DEF MirrorTypes, BrowserTypes, WorldTypes, ServerTypes
<1>2. UNCHANGED <<world, ch, server, conn, down, view, ops, overtaken, late>>
  BY DEF TakeResponse, PendingTimeout
<1>3. requests' \subseteq requests
  BY DEF TakeResponse, PendingTimeout
<1>4. timers' = pending' /\ pending' \subseteq pending
  BY <1>1 DEF TakeResponse, PendingTimeout, settle_pending, BrowserTypes
<1>5. WorldTypes'
  BY <1>1, <1>2, WorldKept DEF world
<1>6. ServerTypes'
  BY <1>1, <1>2, ServerKept DEF world
<1>7. BrowserTypes'
  BY <1>1, <1>2, <1>3, <1>4 DEF BrowserTypes
<1>. QED
  BY <1>5, <1>6, <1>7 DEF MirrorTypes

\* What the browser does with a message.
LEMMA MessageTaken ==
    ASSUME MirrorTypes, handleTextMessage
    PROVE  LET x == Head(down)
           IN /\ down # << >> /\ x \in MirrorMessages /\ x = down[1]
              /\ down' = Tail(down) /\ down' \in Seq(MirrorMessages) /\ timers' = pending' /\ pending' \subseteq pending
              /\ x.t = "snapshot" =>
                   /\ Sound(x.m) /\ view' = TakenIn(applySnapshot(view, x.m))
                   /\ pending' = {} /\ hidden' = LeftOut(view, x.m)
              /\ x.t = "frame" =>
                   /\ x.f \in MirrorFrames /\ view' = TakenIn(applyFrame(view, x.f))
                   /\ pending' = pending \ applyFrame(view, x.f).cleared
                   /\ hidden' = HiddenAfter(hidden, x.f)
<1> DEFINE x == Head(down)
           new == IF x.t = "snapshot" THEN applySnapshot(view, x.m) ELSE applyFrame(view, x.f)
           keys == IF x.t = "snapshot" THEN pending ELSE new.cleared
<1>1. down \in Seq(MirrorMessages) /\ timers = pending
  BY DEF MirrorTypes, BrowserTypes
<1>2. /\ down # << >> /\ down' = Tail(down)
      /\ view' = TakenIn(new) /\ settle_pending(keys)
      /\ hidden' = IF x.t = "snapshot" THEN LeftOut(view, x.m) ELSE HiddenAfter(hidden, x.f)
  BY DEF handleTextMessage, TakenIn, LeftOut, HiddenAfter
<1>3. x \in MirrorMessages /\ x = down[1] /\ down' \in Seq(MirrorMessages)
  BY <1>1, <1>2, TakesHead
<1> HIDE DEF x
<1>4. /\ x.t = "snapshot" => Sound(x.m)
      /\ x.t = "frame" => x.f \in MirrorFrames
  BY <1>3, MessageIs
<1>5. pending' = pending \ keys /\ timers' = pending'
  BY <1>1, <1>2 DEF settle_pending
<1>6. CASE x.t = "snapshot"
  <2>1. new = applySnapshot(view, x.m) /\ pending \ keys = {} /\ x.t # "frame"
    BY <1>6
  <2> HIDE DEF new, keys
  <2>. QED  BY <1>1, <1>2, <1>3, <1>4, <1>5, <1>6, <2>1 DEF x
<1>7. CASE x.t = "frame"
  <2>1. new = applyFrame(view, x.f) /\ keys = applyFrame(view, x.f).cleared /\ x.t # "snapshot"
    BY <1>7
  <2> HIDE DEF new, keys
  <2>. QED  BY <1>1, <1>2, <1>3, <1>4, <1>5, <1>7, <2>1 DEF x
<1>. QED
  BY <1>3, <1>6, <1>7, MessageIs

LEMMA MessageTypes ==
    ASSUME MirrorTypes, handleTextMessage
    PROVE  MirrorTypes'
<1>1. /\ WorldTypes /\ ServerTypes /\ BrowserTypes /\ ops \in Nat /\ ch \in Seq(MirrorFrames)
      /\ cmds \in Seq(Commands) /\ query \in BOOLEAN /\ SoundView(view) /\ (~ conn => down = << >>)
  BY DEF MirrorTypes, BrowserTypes, WorldTypes, ServerTypes
<1>2. UNCHANGED <<world, ch, server, conn, requests, ops, overtaken, late>>
  BY DEF handleTextMessage
<1> DEFINE x == Head(down)
<1>3. /\ down # << >> /\ down' \in Seq(MirrorMessages) /\ timers' = pending' /\ pending' \subseteq pending
      /\ x \in MirrorMessages
      /\ x.t = "snapshot" => Sound(x.m) /\ view' = TakenIn(applySnapshot(view, x.m))
      /\ x.t = "frame" => x.f \in MirrorFrames /\ view' = TakenIn(applyFrame(view, x.f))
  BY MessageTaken
<1> HIDE DEF x
<1>4. SoundView(view')
  <2>1. CASE x.t = "snapshot"
    <3>1. Sound(x.m) /\ view' = TakenIn(applySnapshot(view, x.m))
      BY <1>3, <2>1
    <3>. QED  BY <1>1, <3>1, SnapshotTaken
  <2>2. CASE x.t = "frame"
    <3>1. x.f \in MirrorFrames /\ view' = TakenIn(applyFrame(view, x.f))
      BY <1>3, <2>2
    <3>. QED  BY <1>1, <3>1, StaysSoundView
  <2>. QED  BY <1>3, <2>1, <2>2, MessageIs
<1>5. WorldTypes'
  BY <1>1, <1>2, WorldKept DEF world
<1>6. ServerTypes'
  BY <1>1, <1>2, ServerKept DEF world
<1>7. BrowserTypes'
  <2>1. SoundView(view)'
    BY <1>4 DEF SoundView
  <2>. QED  BY <1>1, <1>2, <1>3, <2>1 DEF BrowserTypes
<1>. QED
  BY <1>5, <1>6, <1>7 DEF MirrorTypes

LEMMA JoinTypes ==
    ASSUME MirrorTypes, Join \/ Leave
    PROVE  MirrorTypes'
<1>1. /\ WorldTypes /\ ServerTypes /\ BrowserTypes /\ ops \in Nat /\ ch \in Seq(MirrorFrames)
      /\ cmds \in Seq(Commands) /\ query \in BOOLEAN /\ Here \in Points
  BY DEF MirrorTypes, BrowserTypes, WorldTypes, ServerTypes
<1>2. UNCHANGED <<world, ch, server, browser, overtaken, late>>
  BY DEF Join, Leave
<1>3. down' \in Seq(MirrorMessages) /\ conn' \in BOOLEAN /\ (~ conn' => down' = << >>)
  <2>1. CASE Join
    <3> DEFINE x == [t |-> "snapshot", m |-> mirror]
    <3>1. x \in MirrorMessages
      BY <1>1, HereIs, InMessages DEF Sound
    <3>2. conn' = TRUE /\ down' = <<x>>
      BY <2>1 DEF Join
    <3> HIDE DEF x
    <3>. QED  BY <3>1, <3>2
  <2>2. CASE Leave
    <3>1. << >> \in Seq(MirrorMessages)
      OBVIOUS
    <3>. QED  BY <2>2, <3>1 DEF Leave
  <2>. QED  BY <2>1, <2>2
<1>5. WorldTypes'
  BY <1>1, <1>2, WorldKept DEF world
<1>6. ServerTypes'
  BY <1>1, <1>2, ServerKept DEF world
<1>7. BrowserTypes'
  BY <1>1, <1>2, <1>3 DEF BrowserTypes, browser
<1>. QED
  BY <1>5, <1>6, <1>7 DEF MirrorTypes

LEMMA ReopenTypes ==
    ASSUME MirrorTypes, Reopen
    PROVE  MirrorTypes'
<1>1. /\ WorldTypes /\ ServerTypes /\ BrowserTypes /\ requests \in SUBSET MirrorRequests
  BY DEF MirrorTypes, BrowserTypes
<1>2. requests' \in SUBSET MirrorRequests
  <2>1. \A r \in requests : (IF r.at = "server" THEN [r EXCEPT !.at = "failed"] ELSE r) \in MirrorRequests
    BY <1>1 DEF MirrorRequests
  <2>. QED  BY <2>1 DEF Reopen
<1>3. WorldTypes'
  BY <1>1, WorldKept, NoFrames DEF Reopen
<1>4. Here' \in Points
  BY EmptyPoint DEF Reopen, Here
<1>5. ServerTypes'
  BY <1>1, <1>4, NoFrames DEF ServerTypes, Reopen
<1>6. << >> \in Seq(MirrorMessages)
  OBVIOUS
<1>7. BrowserTypes'
  BY <1>1, <1>2, <1>6 DEF BrowserTypes, Reopen
<1>. QED
  BY <1>3, <1>5, <1>7 DEF MirrorTypes

-----------------------------------------------------------------------------
(* The mirror, once the frames under way are applied, agrees with the world. *)
Queue == (mainq \o ioq) \o ch

WorldInv == ~ query /\ ~ overtaken =>
                \E y \in Points : Ends(Here, Queue, y) /\ AgreesOn(y, proc, conf, conf)

LEMMA QueueIs ==
    ASSUME MirrorTypes
    PROVE  /\ mainq \in Seq(MirrorFrames) /\ ioq \in Seq(MirrorFrames) /\ ch \in Seq(MirrorFrames)
           /\ mainq \o ioq \in Seq(MirrorFrames) /\ Queue \in Seq(MirrorFrames) /\ Here \in Points
BY DEF MirrorTypes, WorldTypes, ServerTypes, Queue

LEMMA WorldInvKept ==
    ASSUME WorldInv, UNCHANGED <<query, overtaken, mirror, late, Queue, proc, conf>>
    PROVE  WorldInv'
<1>1. Here' = Here
  BY DEF Here
<1>. QED
  BY <1>1 DEF WorldInv

LEMMA Joined ==
    ASSUME NEW a \in Seq(MirrorFrames), NEW b \in Seq(MirrorFrames), NEW c \in Seq(MirrorFrames), NEW d \in Seq(MirrorFrames)
    PROVE  (a \o b) \o (c \o d) = ((a \o b) \o c) \o d
<1>1. a \o b \in Seq(MirrorFrames)
  OBVIOUS
<1>. QED
  BY <1>1, ConcatAssociative, SMTT(60)

LEMMA WorldInvWrites ==
    ASSUME MirrorTypes, WorldInv, WorldWrites, query' = query,
           UNCHANGED <<overtaken, mirror, late, mainq, ioq>>
    PROVE  WorldInv'
<1>1. SUFFICES ASSUME ~ query, ~ overtaken
               PROVE  (\E y \in Points : Ends(Here, Queue, y) /\ AgreesOn(y, proc, conf, conf))'
  BY DEF WorldInv
<1>2. PICK y \in Points : Ends(Here, Queue, y) /\ AgreesOn(y, proc, conf, conf)
  BY <1>1 DEF WorldInv
<1>3. PICK fs \in Seq(MirrorFrames) : ch' = ch \o fs /\ Brings(Agreeing, fs, proc', conf', conf')
  BY DEF WorldWrites
<1>4. PICK z \in Points : Ends(y, fs, z) /\ AgreesOn(z, proc', conf', conf')
  BY <1>2, <1>3 DEF Brings, Agreeing
<1>5. Ends(Here, Queue \o fs, z)
  BY <1>2, <1>3, <1>4, QueueIs, EndsJoin
<1>6. Queue' = Queue \o fs /\ Here' = Here
  BY <1>3, QueueIs, Joined, SMTT(60) DEF Queue, Here
<1>. QED
  BY <1>4, <1>5, <1>6

LEMMA WorldInvSnapshot ==
    ASSUME MirrorTypes, report_full_snapshot
    PROVE  WorldInv'
<1>1. PICK y \in Points : Ends(Here, Queue, y)
  BY QueueIs, EndsSomewhere
<1>2. WorldTypes
  BY DEF MirrorTypes
<1>3. PICK fs \in Seq(MirrorFrames) : /\ ch' = ch \o fs /\ Brings(Points, fs, proc, conf, conf)
                                /\ proc' = proc /\ conf' = conf
  BY <1>2, SnapshotWrites
<1>4. PICK z \in Points : Ends(y, fs, z) /\ AgreesOn(z, proc, conf, conf)
  BY <1>1, <1>3 DEF Brings
<1>5. Ends(Here, Queue \o fs, z)
  BY <1>1, <1>3, <1>4, QueueIs, EndsJoin
<1>6. mainq' = mainq /\ ioq' = ioq /\ mirror' = mirror /\ late' = late
  BY DEF report_full_snapshot, Keep, server
<1>7. Queue' = Queue \o fs /\ Here' = Here
  BY <1>3, <1>6, QueueIs, Joined, SMTT(60) DEF Queue, Here
<1>. QED
  BY <1>3, <1>4, <1>5, <1>7 DEF WorldInv

LEMMA Posted ==
    ASSUME NEW a \in Seq(MirrorFrames), NEW b \in Seq(MirrorFrames), NEW c \in Seq(MirrorFrames)
    PROVE  /\ (a \o (b \o c)) \o << >> = (a \o b) \o c
           /\ c # << >> => (Append(a, Head(c)) \o << >>) \o Tail(c) = (a \o << >>) \o c
<1>1. (a \o (b \o c)) \o << >> = (a \o b) \o c
  <2>1. b \o c \in Seq(MirrorFrames) /\ a \o (b \o c) \in Seq(MirrorFrames)
    OBVIOUS
  <2>2. (a \o (b \o c)) \o << >> = a \o (b \o c)
    BY <2>1
  <2>. QED  BY <2>2, ConcatAssociative
<1>2. ASSUME c # << >> PROVE (Append(a, Head(c)) \o << >>) \o Tail(c) = (a \o << >>) \o c
  <2>1. Head(c) \in MirrorFrames /\ Tail(c) \in Seq(MirrorFrames)
    BY <1>2, TakesHead
  <2>2. Append(a, Head(c)) \in Seq(MirrorFrames) /\ a \o << >> = a
    BY <2>1
  <2>3. Append(a, Head(c)) \o << >> = Append(a, Head(c))
    BY <2>2
  <2> DEFINE l == Append(a, Head(c)) \o Tail(c)
             r == a \o c
  <2>4. l \in Seq(MirrorFrames) /\ r \in Seq(MirrorFrames) /\ Len(l) = Len(r) /\ \A i \in 1..Len(l) : l[i] = r[i]
    BY <1>2, <2>1
  <2>5. l = r
    <3> HIDE DEF l, r
    <3>. QED  BY <2>4, SeqEqual
  <2>. QED  BY <2>2, <2>3, <2>5
<1>. QED
  BY <1>1, <1>2

LEMMA WorldInvPosted ==
    ASSUME MirrorTypes, WorldInv, drain_and_post
    PROVE  WorldInv'
<1>1. UNCHANGED <<query, overtaken, mirror, late, proc, conf>>
  BY DEF drain_and_post, world
<1>2. ch # << >> /\ (phase = "start" => ioq = << >>)
  BY DEF drain_and_post, MirrorTypes, ServerTypes
<1>3. Queue' = Queue
  <2>1. CASE phase = "run" /\ ch' = << >> /\ ioq' = ioq \o ch /\ mainq' = mainq
    BY <2>1, QueueIs, Posted DEF Queue
  <2>2. CASE phase = "start" /\ ch' = Tail(ch) /\ mainq' = Append(mainq, Head(ch)) /\ ioq' = ioq
    BY <1>2, <2>2, QueueIs, Posted DEF Queue
  <2>. QED  BY <2>1, <2>2 DEF drain_and_post
<1>. QED
  BY <1>1, <1>3, WorldInvKept

LEMMA HeadOfJoined ==
    ASSUME NEW a \in Seq(MirrorFrames), a # << >>, NEW b \in Seq(MirrorFrames)
    PROVE  a \o b # << >> /\ Head(a \o b) = Head(a) /\ Tail(a \o b) = Tail(a) \o b
<1> DEFINE s == a \o b
           l == Tail(s)
           r == Tail(a) \o b
<1>1. Len(a) \in Nat \ {0} /\ Len(b) \in Nat /\ Len(s) = Len(a) + Len(b) /\ s \in Seq(MirrorFrames)
  OBVIOUS
<1>2. s[1] = a[1] /\ s # << >>
  BY <1>1
<1>3. Head(s) = Head(a)
  BY <1>1, <1>2, TakesHead
<1>4. /\ l \in Seq(MirrorFrames) /\ r \in Seq(MirrorFrames) /\ Len(l) = Len(r)
      /\ \A i \in 1..Len(l) : l[i] = r[i]
  BY <1>1, <1>2
<1>5. l = r
  <2> HIDE DEF l, r
  <2>. QED  BY <1>4, SeqEqual
<1>. QED
  BY <1>2, <1>3, <1>5

LEMMA WorldInvApplied ==
    ASSUME MirrorTypes, WorldInv, ApplyIo \/ ApplyMain
    PROVE  WorldInv'
<1>0. SUFFICES ASSUME ~ query', ~ overtaken'
               PROVE  (\E y \in Points : Ends(Here, Queue, y) /\ AgreesOn(y, proc, conf, conf))'
  BY DEF WorldInv
<1>1. /\ mainq \in Seq(MirrorFrames) /\ ioq \in Seq(MirrorFrames) /\ ch \in Seq(MirrorFrames)
      /\ mainq \o ioq \in Seq(MirrorFrames) /\ Queue \in Seq(MirrorFrames)
  BY QueueIs
<1>2. PICK f \in MirrorFrames : /\ Apply(f) /\ ~ overtaken
                          /\ Queue # << >> /\ f = Head(Queue) /\ Queue' = Tail(Queue)
  <2>1. CASE ApplyIo
    <3>1. /\ ioq # << >> /\ ioq' = Tail(ioq) /\ Apply(Head(ioq)) /\ mainq' = mainq
          /\ ~ overtaken /\ mainq = << >>
      BY <2>1, <1>0 DEF ApplyIo
    <3>2. Head(ioq) \in MirrorFrames /\ Tail(ioq) \in Seq(MirrorFrames)
      BY <1>1, <3>1, TakesHead
    <3>3. ch' = ch
      BY <3>1 DEF Apply
    <3>4. mainq \o ioq = ioq /\ mainq \o Tail(ioq) = Tail(ioq)
      BY <1>1, <3>1, <3>2
    <3>5. Queue = ioq \o ch /\ Queue' = Tail(ioq) \o ch
      BY <3>1, <3>3, <3>4 DEF Queue
    <3>. QED  BY <1>1, <3>1, <3>2, <3>5, HeadOfJoined
  <2>2. CASE ApplyMain
    <3>1. /\ mainq # << >> /\ mainq' = Tail(mainq) /\ Apply(Head(mainq))
          /\ ioq' = ioq /\ ~ overtaken
      BY <2>2, <1>0 DEF ApplyMain
    <3>2. Head(mainq) \in MirrorFrames /\ Tail(mainq) \in Seq(MirrorFrames)
      BY <1>1, <3>1, TakesHead
    <3>3. ch' = ch
      BY <3>1 DEF Apply
    <3>4. /\ mainq \o ioq # << >> /\ Head(mainq \o ioq) = Head(mainq)
          /\ Tail(mainq \o ioq) = Tail(mainq) \o ioq
      BY <1>1, <3>1, HeadOfJoined
    <3>5. Queue = (mainq \o ioq) \o ch /\ Queue' = Tail(mainq \o ioq) \o ch
      BY <3>1, <3>3, <3>4 DEF Queue
    <3>. QED  BY <1>1, <3>1, <3>2, <3>4, <3>5, HeadOfJoined
  <2>. QED  BY <2>1, <2>2
<1>3. Here' = Reached(Here, f) /\ UNCHANGED <<proc, conf, query>>
  BY <1>2, ApplyTakes
<1>4. PICK y \in Points : Ends(Here, Queue, y) /\ AgreesOn(y, proc, conf, conf)
  BY <1>0, <1>2, <1>3 DEF WorldInv
<1>5. Ends(Here', Queue', y)
  BY <1>1, <1>2, <1>3, <1>4, EndsTail
<1>. QED
  BY <1>3, <1>4, <1>5

\* The mirror follows: what is settled is the end of the frames under way.
LEMMA FollowsWorld ==
    ASSUME MirrorTypes, WorldInv
    PROVE  MirrorFollows
<1>1. SUFFICES ASSUME Settled
               PROVE  /\ mirror.conf = conf /\ DOMAIN mirror.status = conf
                      /\ \A p \in conf : Like(mirror.status[p], proc[p])
                      /\ \A p \in Procs : (p \notin conf /\ p \notin late) \/ (p \in conf /\ proc[p] \in Down) =>
                            \A d \in Volatile : mirror.dom[d][p] = None
  BY DEF MirrorFollows
<1>2. query = FALSE /\ ch = << >> /\ mainq = << >> /\ ioq = << >> /\ ~ overtaken
  BY <1>1 DEF Settled
<1>3. Here \in Points /\ Queue = << >>
  BY <1>2, QueueIs DEF Queue
<1>4. PICK y \in Points : Ends(Here, Queue, y) /\ AgreesOn(y, proc, conf, conf)
  BY <1>2 DEF WorldInv
<1>5. y = Here
  <2>1. PICK xs : xs[0] = Here /\ xs[Len(Queue)] = y
    BY <1>4 DEF Ends
  <2>2. Len(Queue) = 0
    BY <1>3
  <2>. QED  BY <2>1, <2>2
<1>6. Here.m = mirror /\ Clean(mirror, late) /\ DOMAIN mirror.status \subseteq mirror.conf
  BY <1>3, HereIs DEF Sound
<1>7. AgreesOn(Here, proc, conf, conf)
  BY <1>4, <1>5
<1>8. /\ mirror.conf = conf /\ conf \subseteq DOMAIN mirror.status
      /\ \A p \in conf : Like(mirror.status[p], proc[p])
      /\ \A p \in conf : proc[p] \in Down => \A d \in Volatile : mirror.dom[d][p] = None
  BY <1>6, <1>7 DEF AgreesOn
<1>9. \A p \in Procs : p \notin conf /\ p \notin late => \A d \in Volatile : mirror.dom[d][p] = None
  BY <1>6, <1>8 DEF Clean
<1>. QED
  BY <1>6, <1>8, <1>9

-----------------------------------------------------------------------------
(* The mirrors there were between what is on its way to the browser: a
   snapshot is the first message, and each frame takes one to the next. *)
Trail(ms, q, m) ==
    /\ ms \in [0..Len(q) -> Mirrors] /\ \A i \in 0..Len(q) : Sound(ms[i])
    /\ ms[Len(q)] = m
    /\ \A i \in 1..Len(q) :
         /\ q[i].t = "snapshot" => i = 1 /\ ms[1] = q[1].m
         /\ q[i].t = "frame" => ms[i] = on_frame(ms[i - 1], q[i].f)

Behind(q) == q # << >> /\ q[1].t = "snapshot"

ViewInv ==
    conn => \E ms : Trail(ms, down, mirror) /\ (~ Behind(down) => Follows(view, ms[0], hidden))

LEMMA ViewKept ==
    ASSUME ViewInv, UNCHANGED <<conn, down, mirror, view, hidden>>
    PROVE  ViewInv'
BY DEF ViewInv

LEMMA TrailGrows ==
    ASSUME NEW ms, NEW q \in Seq(MirrorMessages), NEW m, Trail(ms, q, m), NEW f \in MirrorFrames
    PROVE  LET to == Append(q, [t |-> "frame", f |-> f])
           IN \E ns : Trail(ns, to, on_frame(m, f)) /\ ns[0] = ms[0] /\ (Behind(q) <=> Behind(to))
<1> DEFINE x == [t |-> "frame", f |-> f]
           n == Len(q)
           to == Append(q, x)
           z == on_frame(m, f)
           ns == [i \in 0..(n + 1) |-> IF i = n + 1 THEN z ELSE ms[i]]
<1>1. /\ ms \in [0..n -> Mirrors] /\ \A i \in 0..n : Sound(ms[i])
      /\ ms[n] = m
      /\ \A i \in 1..n :
           /\ q[i].t = "snapshot" => i = 1 /\ ms[1] = q[1].m
           /\ q[i].t = "frame" => ms[i] = on_frame(ms[i - 1], q[i].f)
  BY DEF Trail
<1>2. x \in MirrorMessages /\ x.t = "frame" /\ x.f = f
  BY InMessages
<1> HIDE DEF x
<1>3. /\ n \in Nat /\ to \in Seq(MirrorMessages) /\ Len(to) = n + 1 /\ to[n + 1] = x
      /\ \A i \in 1..n : to[i] = q[i]
  BY <1>2, AppendProperties
<1>4. Sound(z) /\ z \in Mirrors
  <2>1. Sound(m)
    BY <1>1, <1>3
  <2>. QED  BY <2>1, StaysSound DEF Sound
<1> HIDE DEF z
<1>5. /\ ns \in [0..(n + 1) -> Mirrors] /\ ns[n + 1] = z
      /\ \A i \in 0..n : ns[i] = ms[i]
  BY <1>1, <1>3, <1>4
<1> HIDE DEF ns
<1>6. \A i \in 0..(n + 1) : Sound(ns[i])
  BY <1>1, <1>3, <1>4, <1>5
<1>7. to # << >> /\ (q = << >> <=> n = 0)
  BY <1>3
<1>8. Behind(q) <=> Behind(to)
  <2>1. CASE n = 0
    BY <1>2, <1>3, <1>7, <2>1 DEF Behind
  <2>2. CASE n > 0
    BY <1>3, <1>7, <2>2 DEF Behind
  <2>. QED  BY <1>3, <2>1, <2>2
<1> HIDE DEF to, n
<1>9. ASSUME NEW i \in 1..(n + 1)
      PROVE  /\ to[i].t = "snapshot" => i = 1 /\ ns[1] = to[1].m
             /\ to[i].t = "frame" => ns[i] = on_frame(ns[i - 1], to[i].f)
  <2>1. CASE i = n + 1
    <3>1. i - 1 = n /\ to[i] = x /\ n \in 0..n
      BY <1>3, <2>1
    <3>2. ns[i] = z /\ ns[i - 1] = m
      BY <1>1, <1>5, <2>1, <3>1
    <3>. QED  BY <1>2, <3>1, <3>2 DEF z
  <2>2. CASE i # n + 1
    <3>1. i \in 1..n /\ i \in 0..n /\ i - 1 \in 0..n /\ 1 \in 1..n /\ 1 \in 0..n
      BY <1>3, <2>2
    <3>2. to[i] = q[i] /\ ns[i] = ms[i] /\ ns[i - 1] = ms[i - 1] /\ ns[1] = ms[1] /\ to[1] = q[1]
      BY <1>3, <1>5, <3>1
    <3>. QED  BY <1>1, <3>1, <3>2
  <2>. QED  BY <2>1, <2>2
<1>10. Trail(ns, to, z) /\ ns[0] = ms[0]
  BY <1>3, <1>5, <1>6, <1>9 DEF Trail
<1>. QED
  BY <1>8, <1>10 DEF to, x, z

LEMMA ViewApplied ==
    ASSUME MirrorTypes, ViewInv, NEW f \in MirrorFrames, Apply(f)
    PROVE  ViewInv'
<1>1. SUFFICES ASSUME conn
               PROVE  (\E ms : Trail(ms, down, mirror) /\ (~ Behind(down) => Follows(view, ms[0], hidden)))'
  BY DEF ViewInv, Apply
<1>2. PICK ms : Trail(ms, down, mirror) /\ (~ Behind(down) => Follows(view, ms[0], hidden))
  BY <1>1 DEF ViewInv
<1>3. /\ down' = Append(down, [t |-> "frame", f |-> f]) /\ mirror' = on_frame(mirror, f)
      /\ view' = view /\ hidden' = hidden
  BY <1>1 DEF Apply, browser
<1>4. down \in Seq(MirrorMessages)
  BY DEF MirrorTypes, BrowserTypes
<1>5. PICK ns : Trail(ns, down', mirror') /\ ns[0] = ms[0] /\ (Behind(down) <=> Behind(down'))
  BY <1>2, <1>3, <1>4, TrailGrows
<1>6. ~ Behind(down') => Follows(view', ns[0], hidden')
  BY <1>2, <1>3, <1>5
<1>. QED
  BY <1>5, <1>6

LEMMA TrailShrinks ==
    ASSUME NEW ms, NEW q \in Seq(MirrorMessages), q # << >>, NEW m, Trail(ms, q, m)
    PROVE  \E ns : Trail(ns, Tail(q), m) /\ ns[0] = ms[1] /\ ~ Behind(Tail(q))
<1> DEFINE n == Len(q)
           to == Tail(q)
           ns == [i \in 0..(n - 1) |-> ms[i + 1]]
<1>1. /\ ms \in [0..n -> Mirrors] /\ \A i \in 0..n : Sound(ms[i])
      /\ ms[n] = m
      /\ \A i \in 1..n :
           /\ q[i].t = "snapshot" => i = 1 /\ ms[1] = q[1].m
           /\ q[i].t = "frame" => ms[i] = on_frame(ms[i - 1], q[i].f)
  BY DEF Trail
<1>2. /\ n \in Nat /\ n >= 1 /\ to \in Seq(MirrorMessages) /\ Len(to) = n - 1
      /\ \A i \in 1..(n - 1) : to[i] = q[i + 1]
  BY HeadTailProperties
<1>3. /\ ns \in [0..(n - 1) -> Mirrors] /\ \A i \in 0..(n - 1) : ns[i] = ms[i + 1] /\ Sound(ns[i])
  BY <1>1, <1>2
<1>4. ns[n - 1] = m /\ ns[0] = ms[1]
  BY <1>1, <1>2, <1>3
<1> HIDE DEF ns
<1>5. to # << >> => 1 \in 1..(n - 1)
  BY <1>2
<1> HIDE DEF to, n
<1>6. ASSUME NEW i \in 1..(n - 1)
      PROVE  /\ to[i].t # "snapshot"
             /\ to[i].t = "frame" => ns[i] = on_frame(ns[i - 1], to[i].f)
  <2>1. /\ i + 1 \in 1..n /\ i + 1 # 1 /\ i \in 0..(n - 1) /\ i - 1 \in 0..(n - 1)
        /\ (i - 1) + 1 = i /\ (i + 1) - 1 = i
    BY <1>2
  <2>2. to[i] = q[i + 1] /\ ns[i] = ms[i + 1] /\ ns[i - 1] = ms[(i + 1) - 1]
    BY <1>2, <1>3, <2>1
  <2>. QED  BY <1>1, <2>1, <2>2
<1>7. Trail(ns, to, m)
  BY <1>2, <1>3, <1>4, <1>6 DEF Trail
<1>8. ~ Behind(to)
  BY <1>5, <1>6 DEF Behind
<1>. QED
  BY <1>4, <1>7, <1>8 DEF to

LEMMA ViewMessage ==
    ASSUME MirrorTypes, ViewInv, handleTextMessage
    PROVE  ViewInv'
<1> DEFINE x == Head(down)
<1>1. /\ down # << >> /\ x \in MirrorMessages /\ x = down[1] /\ down' = Tail(down)
      /\ x.t = "snapshot" =>
           Sound(x.m) /\ view' = TakenIn(applySnapshot(view, x.m)) /\ hidden' = LeftOut(view, x.m)
      /\ x.t = "frame" =>
           x.f \in MirrorFrames /\ view' = TakenIn(applyFrame(view, x.f)) /\ hidden' = HiddenAfter(hidden, x.f)
  BY MessageTaken
<1> HIDE DEF x
<1>2. conn' = conn /\ mirror' = mirror
  BY DEF handleTextMessage, server
<1>3. down \in Seq(MirrorMessages) /\ SoundView(view)
  BY DEF MirrorTypes, BrowserTypes
<1>4. SUFFICES ASSUME conn
               PROVE  (\E ms : Trail(ms, down, mirror) /\ (~ Behind(down) => Follows(view, ms[0], hidden)))'
  BY <1>2 DEF ViewInv
<1>5. PICK ms : Trail(ms, down, mirror) /\ (~ Behind(down) => Follows(view, ms[0], hidden))
  BY <1>4 DEF ViewInv
<1>6. PICK ns : Trail(ns, Tail(down), mirror) /\ ns[0] = ms[1] /\ ~ Behind(Tail(down))
  BY <1>1, <1>3, <1>5, TrailShrinks
<1>7. /\ 1 \in 1..Len(down) /\ 0 \in 0..Len(down) /\ 1 - 1 = 0
  BY <1>1, <1>3
<1>8. /\ Sound(ms[0])
      /\ x.t = "snapshot" => ms[1] = x.m
      /\ x.t = "frame" => ms[1] = on_frame(ms[0], x.f)
  BY <1>1, <1>5, <1>7 DEF Trail
<1>9. Follows(view', ms[1], hidden')
  <2>1. CASE x.t = "snapshot"
    <3> DEFINE m == x.m
    <3>1. Sound(m) /\ view' = TakenIn(applySnapshot(view, m)) /\ hidden' = LeftOut(view, m) /\ ms[1] = m
      BY <1>1, <1>8, <2>1
    <3> HIDE DEF m
    <3>. QED  BY <1>3, <3>1, SnapshotTaken
  <2>2. CASE x.t = "frame"
    <3> DEFINE f == x.f
               m == ms[0]
    <3>1. /\ f \in MirrorFrames /\ view' = TakenIn(applyFrame(view, f)) /\ hidden' = HiddenAfter(hidden, f)
          /\ ms[1] = on_frame(m, f)
      BY <1>1, <1>8, <2>2
    <3>2. Follows(view, m, hidden) /\ Sound(m) /\ view \in Views
      BY <1>1, <1>3, <1>5, <1>8, <2>2 DEF Behind, SoundView
    <3> HIDE DEF f, m
    <3>. QED  BY <3>1, <3>2, FollowsFrame
  <2>. QED  BY <1>1, <2>1, <2>2, MessageIs
<1>. QED
  BY <1>1, <1>2, <1>6, <1>9

LEMMA ViewJoin ==
    ASSUME MirrorTypes, Join
    PROVE  ViewInv'
<1> DEFINE x == [t |-> "snapshot", m |-> mirror]
           q == <<x>>
           ms == [i \in 0..1 |-> mirror]
<1>1. Sound(mirror) /\ mirror \in Mirrors
  BY HereIs DEF MirrorTypes, ServerTypes, Sound
<1>2. down' = q /\ mirror' = mirror
  BY DEF Join, server
<1>3. x.t = "snapshot" /\ x.m = mirror /\ x \in MirrorMessages
  BY <1>1, InMessages
<1> HIDE DEF x
<1>4. Len(q) = 1 /\ q[1] = x /\ q # << >>
  BY <1>3
<1>5. ms \in [0..1 -> Mirrors] /\ ms[0] = mirror /\ ms[1] = mirror /\ \A i \in 0..1 : Sound(ms[i])
  BY <1>1
<1> HIDE DEF q, ms
<1>6. \A i \in 1..1 : i = 1
  OBVIOUS
<1>7. Trail(ms, q, mirror) /\ Behind(q)
  BY <1>3, <1>4, <1>5, <1>6 DEF Trail, Behind
<1>. QED
  BY <1>2, <1>7 DEF ViewInv

LEMMA FollowsMirror ==
    ASSUME MirrorTypes, ViewInv
    PROVE  ViewFollows
<1>1. SUFFICES ASSUME conn, down = << >>, mirror.known
               PROVE  /\ view.known /\ view.conf = mirror.conf
                      /\ DOMAIN mirror.status \subseteq DOMAIN view.status \cup hidden
                      /\ \A p \in DOMAIN view.status :
                            p \in DOMAIN mirror.status => view.status[p] = mirror.status[p]
                      /\ DOMAIN view.status \subseteq mirror.conf
                      /\ \A d \in Domains, p \in Procs :
                            mirror.dom[d][p] # None => view.dom[d][p] = mirror.dom[d][p]
  BY DEF ViewFollows
<1>2. PICK ms : Trail(ms, down, mirror) /\ (~ Behind(down) => Follows(view, ms[0], hidden))
  BY <1>1 DEF ViewInv
<1>3. Len(down) = 0 /\ ~ Behind(down)
  BY <1>1 DEF Behind
<1>4. ms[0] = mirror
  BY <1>2, <1>3 DEF Trail
<1>5. Follows(view, mirror, hidden)
  BY <1>2, <1>3, <1>4
<1>. QED
  BY <1>1, <1>5 DEF Follows

-----------------------------------------------------------------------------
(* What a pending operation of the master's is waiting for: its request, its
   command, or the answer on its way to the browser. *)
Asked(p, op) == \E r \in requests : r.p = p /\ r.op = op /\ r.at \in {"server", "failed"}

Sent(p, op) == \E i \in DOMAIN cmds : cmds[i].p = p /\ cmds[i].op = op

ToldIn(q, p, op) == \E i \in DOMAIN q : q[i].t = "frame" /\ Tells(q[i].f, p, op)

Answered(p, op) == Tell(ch, p, op) \/ Tell(mainq, p, op) \/ Tell(ioq, p, op) \/ ToldIn(down, p, op)

Waits(p, op) == <<p, op>> \in pending /\ op \notin DOMAIN Answers

AwaitInv ==
    conn /\ ~ Behind(down) =>
        \A p \in Procs, op \in Operations : Waits(p, op) => Asked(p, op) \/ Sent(p, op) \/ Answered(p, op)

LEMMA HeadOrTail ==
    ASSUME NEW S, NEW q \in Seq(S), q # << >>, NEW i \in DOMAIN q
    PROVE  \/ q[i] = Head(q)
           \/ \E j \in DOMAIN Tail(q) : Tail(q)[j] = q[i]
<1>1. /\ Len(q) \in Nat /\ DOMAIN q = 1..Len(q) /\ Head(q) = q[1]
      /\ Tail(q) \in Seq(S) /\ Len(Tail(q)) = Len(q) - 1
      /\ \A j \in 1..Len(Tail(q)) : Tail(q)[j] = q[j + 1]
  BY HeadTailProperties
<1>2. CASE i = 1
  BY <1>1, <1>2
<1>3. CASE i # 1
  <2>1. i - 1 \in 1..Len(Tail(q)) /\ (i - 1) + 1 = i
    BY <1>1, <1>3
  <2>2. DOMAIN Tail(q) = 1..Len(Tail(q))
    BY <1>1
  <2>. QED  BY <1>1, <2>1, <2>2
<1>. QED
  BY <1>2, <1>3

LEMMA StillThere ==
    ASSUME NEW S, NEW q \in Seq(S), NEW x \in S
    PROVE  /\ \A i \in DOMAIN q : i \in DOMAIN Append(q, x) /\ Append(q, x)[i] = q[i]
           /\ \E j \in DOMAIN Append(q, x) : Append(q, x)[j] = x
<1> DEFINE s == Append(q, x)
<1>1. /\ s \in Seq(S) /\ Len(s) = Len(q) + 1 /\ s[Len(q) + 1] = x /\ Len(q) \in Nat
      /\ \A i \in 1..Len(q) : s[i] = q[i]
  BY AppendProperties
<1>2. DOMAIN q = 1..Len(q)
  OBVIOUS
<1> HIDE DEF s
<1>3. DOMAIN s = 1..Len(s)
  BY <1>1
<1>. QED
  BY <1>1, <1>2, <1>3 DEF s

LEMMA TellHead ==
    ASSUME NEW q \in Seq(MirrorFrames), q # << >>, NEW p, NEW op, Tell(q, p, op)
    PROVE  Tells(Head(q), p, op) \/ Tell(Tail(q), p, op)
<1>1. PICK i \in DOMAIN q : Tells(q[i], p, op)
  BY DEF Tell
<1>2. q[i] = Head(q) \/ \E j \in DOMAIN Tail(q) : Tail(q)[j] = q[i]
  BY HeadOrTail
<1>. QED
  BY <1>1, <1>2 DEF Tell

LEMMA ToldHead ==
    ASSUME NEW q \in Seq(MirrorMessages), q # << >>, NEW p, NEW op, ToldIn(q, p, op)
    PROVE  (Head(q).t = "frame" /\ Tells(Head(q).f, p, op)) \/ ToldIn(Tail(q), p, op)
<1>1. PICK i \in DOMAIN q : q[i].t = "frame" /\ Tells(q[i].f, p, op)
  BY DEF ToldIn
<1>2. q[i] = Head(q) \/ \E j \in DOMAIN Tail(q) : Tail(q)[j] = q[i]
  BY HeadOrTail
<1>. QED
  BY <1>1, <1>2 DEF ToldIn

LEMMA TellKept ==
    ASSUME NEW q \in Seq(MirrorFrames), NEW f \in MirrorFrames, NEW p, NEW op
    PROVE  /\ Tell(q, p, op) => Tell(Append(q, f), p, op)
           /\ Tells(f, p, op) => Tell(Append(q, f), p, op)
BY StillThere DEF Tell

LEMMA ToldKept ==
    ASSUME NEW q \in Seq(MirrorMessages), NEW f \in MirrorFrames, NEW p, NEW op
    PROVE  LET to == Append(q, [t |-> "frame", f |-> f])
           IN /\ ToldIn(q, p, op) => ToldIn(to, p, op)
              /\ Tells(f, p, op) => ToldIn(to, p, op)
<1> DEFINE x == [t |-> "frame", f |-> f]
<1>1. x \in MirrorMessages /\ x.t = "frame" /\ x.f = f
  BY InMessages
<1> HIDE DEF x
<1>2. /\ \A i \in DOMAIN q : i \in DOMAIN Append(q, x) /\ Append(q, x)[i] = q[i]
      /\ \E j \in DOMAIN Append(q, x) : Append(q, x)[j] = x
  BY <1>1, StillThere
<1>3. ToldIn(q, p, op) => ToldIn(Append(q, x), p, op)
  BY <1>2 DEF ToldIn
<1>4. Tells(f, p, op) => ToldIn(Append(q, x), p, op)
  BY <1>1, <1>2 DEF ToldIn
<1>. QED
  BY <1>3, <1>4 DEF x

LEMMA AwaitTypes ==
    ASSUME MirrorTypes
    PROVE  /\ ch \in Seq(MirrorFrames) /\ mainq \in Seq(MirrorFrames) /\ ioq \in Seq(MirrorFrames) /\ down \in Seq(MirrorMessages)
           /\ cmds \in Seq(Commands) /\ requests \in SUBSET MirrorRequests
           /\ pending \in SUBSET (Procs \X Operations)
           /\ phase \in {"start", "run"} /\ (phase = "start" => ioq = << >>)
BY DEF MirrorTypes, WorldTypes, ServerTypes, BrowserTypes

\* A step of the master or of a gateway.
LEMMA AwaitHandled ==
    ASSUME MirrorTypes, AwaitInv, Handle
    PROVE  AwaitInv'
<1>1. /\ ch \in Seq(MirrorFrames) /\ cmds \in Seq(Commands) /\ WorldTypes
  BY AwaitTypes DEF MirrorTypes
<1>2. /\ UNCHANGED <<conn, down, pending, requests, mainq, ioq>>
      /\ cmds # << >> /\ cmds' = Tail(cmds)
  BY DEF Handle, Keep, server, browser
<1>3. /\ WorldWrites
      /\ Head(cmds).op \notin DOMAIN Answers => Tell(ch', Head(cmds).p, Head(cmds).op)
  BY <1>1, HandleWrites
<1>4. PICK fs \in Seq(MirrorFrames) : ch' = ch \o fs
  BY <1>3 DEF WorldWrites
<1>5. ASSUME NEW p \in Procs, NEW op \in Operations, Waits(p, op)
      PROVE  /\ Asked(p, op) => Asked(p, op)'
             /\ Answered(p, op) => Answered(p, op)'
             /\ Sent(p, op) => Sent(p, op)' \/ Answered(p, op)'
  <2>1. Asked(p, op) => Asked(p, op)'
    BY <1>2 DEF Asked
  <2>2. Answered(p, op) => Answered(p, op)'
    BY <1>1, <1>2, <1>4, TellsJoined DEF Answered
  <2>3. ASSUME Sent(p, op) PROVE Sent(p, op)' \/ Answered(p, op)'
    <3>1. PICK i \in DOMAIN cmds : cmds[i].p = p /\ cmds[i].op = op
      BY <2>3 DEF Sent
    <3>2. cmds[i] = Head(cmds) \/ \E j \in DOMAIN Tail(cmds) : Tail(cmds)[j] = cmds[i]
      BY <1>1, <1>2, HeadOrTail
    <3>3. CASE cmds[i] = Head(cmds)
      <4>1. Tell(ch', p, op)
        BY <1>3, <1>5, <3>1, <3>3 DEF Waits
      <4>. QED  BY <4>1 DEF Answered
    <3>4. CASE \E j \in DOMAIN Tail(cmds) : Tail(cmds)[j] = cmds[i]
      BY <1>2, <3>1, <3>4 DEF Sent
    <3>. QED  BY <3>2, <3>3, <3>4
  <2>. QED  BY <2>1, <2>2, <2>3
<1>6. \A p \in Procs, op \in Operations : Waits(p, op)' => Waits(p, op)
  BY <1>2 DEF Waits
<1>. QED
  BY <1>2, <1>5, <1>6 DEF AwaitInv

LEMMA AwaitWritten ==
    ASSUME MirrorTypes, AwaitInv, UNCHANGED <<conn, down, pending, requests, mainq, ioq, cmds>>,
           NEW fs \in Seq(MirrorFrames), ch' = ch \o fs
    PROVE  AwaitInv'
<1>1. ch \in Seq(MirrorFrames)
  BY AwaitTypes
<1>2. ASSUME NEW p \in Procs, NEW op \in Operations
      PROVE  /\ Asked(p, op) => Asked(p, op)'
             /\ Sent(p, op) => Sent(p, op)'
             /\ Answered(p, op) => Answered(p, op)'
             /\ Waits(p, op)' => Waits(p, op)
  <2>1. Answered(p, op) => Answered(p, op)'
    BY <1>1, TellsJoined DEF Answered
  <2>. QED  BY <2>1 DEF Asked, Sent, Waits
<1>. QED
  BY <1>2 DEF AwaitInv

LEMMA AwaitKept ==
    ASSUME AwaitInv, UNCHANGED <<conn, down, pending, requests, mainq, ioq, cmds, ch>>
    PROVE  AwaitInv'
BY DEF AwaitInv, Asked, Sent, Answered, Waits

\* A step of the web server.
LEMMA AwaitPosted ==
    ASSUME MirrorTypes, AwaitInv, drain_and_post
    PROVE  AwaitInv'
<1>1. ch \in Seq(MirrorFrames) /\ mainq \in Seq(MirrorFrames) /\ ioq \in Seq(MirrorFrames)
  BY AwaitTypes
<1>2. UNCHANGED <<conn, down, pending, requests, cmds>> /\ ch # << >>
  BY DEF drain_and_post, world, browser
<1>3. ASSUME NEW p \in Procs, NEW op \in Operations, Answered(p, op)
      PROVE  Answered(p, op)'
  <2>1. CASE phase = "run" /\ ch' = << >> /\ ioq' = ioq \o ch /\ mainq' = mainq
    BY <1>1, <1>2, <1>3, <2>1, TellsJoined DEF Answered
  <2>2. CASE phase = "start" /\ ch' = Tail(ch) /\ mainq' = Append(mainq, Head(ch)) /\ ioq' = ioq
    <3>1. Head(ch) \in MirrorFrames
      BY <1>1, <1>2, TakesHead
    <3>2. Tell(ch, p, op) => Tells(Head(ch), p, op) \/ Tell(Tail(ch), p, op)
      BY <1>1, <1>2, TellHead
    <3>3. /\ Tell(mainq, p, op) => Tell(mainq', p, op)
          /\ Tells(Head(ch), p, op) => Tell(mainq', p, op)
      BY <1>1, <2>2, <3>1, TellKept
    <3>. QED  BY <1>2, <1>3, <2>2, <3>2, <3>3 DEF Answered
  <2>. QED  BY <2>1, <2>2 DEF drain_and_post
<1>4. \A p \in Procs, op \in Operations :
         /\ Asked(p, op) => Asked(p, op)'
         /\ Sent(p, op) => Sent(p, op)'
         /\ Waits(p, op)' => Waits(p, op)
  BY <1>2 DEF Asked, Sent, Waits
<1>. QED
  BY <1>2, <1>3, <1>4 DEF AwaitInv

LEMMA AwaitApplied ==
    ASSUME MirrorTypes, AwaitInv, ApplyIo \/ ApplyMain
    PROVE  AwaitInv'
<1>1. ch \in Seq(MirrorFrames) /\ mainq \in Seq(MirrorFrames) /\ ioq \in Seq(MirrorFrames) /\ down \in Seq(MirrorMessages)
  BY AwaitTypes
<1>2. PICK f \in MirrorFrames :
         /\ Apply(f)
         /\ \A p \in Procs, op \in Operations :
               Tell(mainq, p, op) \/ Tell(ioq, p, op) =>
                   Tells(f, p, op) \/ Tell(mainq', p, op) \/ Tell(ioq', p, op)
  <2>1. CASE ApplyIo
    <3>1. ioq # << >> /\ ioq' = Tail(ioq) /\ Apply(Head(ioq)) /\ mainq' = mainq
      BY <2>1 DEF ApplyIo
    <3>2. Head(ioq) \in MirrorFrames
      BY <1>1, <3>1, TakesHead
    <3>. QED  BY <1>1, <3>1, <3>2, TellHead
  <2>2. CASE ApplyMain
    <3>1. mainq # << >> /\ mainq' = Tail(mainq) /\ Apply(Head(mainq)) /\ ioq' = ioq
      BY <2>2 DEF ApplyMain
    <3>2. Head(mainq) \in MirrorFrames
      BY <1>1, <3>1, TakesHead
    <3>. QED  BY <1>1, <3>1, <3>2, TellHead
  <2>. QED  BY <2>1, <2>2
<1>3. /\ UNCHANGED <<conn, pending, requests, cmds, ch>>
      /\ conn => down' = Append(down, [t |-> "frame", f |-> f])
  BY <1>2 DEF Apply, world, browser
<1>4. SUFFICES ASSUME conn, ~ Behind(down'), NEW p \in Procs, NEW op \in Operations, Waits(p, op)'
               PROVE  (Asked(p, op) \/ Sent(p, op) \/ Answered(p, op))'
  BY <1>3 DEF AwaitInv
<1>5. ~ Behind(down)
  <2> DEFINE x == [t |-> "frame", f |-> f]
  <2>1. x \in MirrorMessages /\ down' = Append(down, x)
    BY <1>3, <1>4, InMessages
  <2> HIDE DEF x
  <2>2. down # << >> => 1 \in DOMAIN down
    BY <1>1
  <2>3. down # << >> => down'[1] = down[1] /\ 1 \in DOMAIN down'
    BY <1>1, <2>1, <2>2, StillThere
  <2>4. down # << >> => down' # << >>
    BY <1>1, <2>1, AppendProperties
  <2>. QED  BY <1>4, <2>3, <2>4 DEF Behind
<1>6. Asked(p, op) \/ Sent(p, op) \/ Answered(p, op)
  BY <1>3, <1>4, <1>5 DEF AwaitInv, Waits
<1>7. Answered(p, op) => Answered(p, op)'
  <2>1. /\ ToldIn(down, p, op) => ToldIn(down', p, op)
        /\ Tells(f, p, op) => ToldIn(down', p, op)
    BY <1>1, <1>3, <1>4, ToldKept
  <2>. QED  BY <1>2, <1>3, <2>1 DEF Answered
<1>. QED
  BY <1>3, <1>6, <1>7 DEF Asked, Sent

\* A step of the browser or of a request of it.
LEMMA AwaitOperate ==
    ASSUME MirrorTypes, AwaitInv, NEW p \in Procs, NEW op \in Ops, Operate(p, op)
    PROVE  AwaitInv'
<1> DEFINE r == [id |-> ops, p |-> p, op |-> op, at |-> "server"]
<1>1. /\ UNCHANGED <<conn, down, cmds, ch, mainq, ioq>>
      /\ pending' = pending \cup {<<p, op>>} /\ requests' = requests \cup {r}
  BY DEF Operate, world, server
<1>2. r.p = p /\ r.op = op /\ r.at = "server"
  OBVIOUS
<1> HIDE DEF r
<1>3. Asked(p, op)'
  BY <1>1, <1>2 DEF Asked
<1>4. ASSUME NEW q \in Procs, NEW o \in Operations
      PROVE  /\ Asked(q, o) => Asked(q, o)'
             /\ Sent(q, o) => Sent(q, o)'
             /\ Answered(q, o) => Answered(q, o)'
             /\ Waits(q, o)' => Waits(q, o) \/ (q = p /\ o = op)
  BY <1>1 DEF Asked, Sent, Answered, Waits
<1>. QED
  BY <1>1, <1>3, <1>4 DEF AwaitInv

LEMMA AwaitServe ==
    ASSUME MirrorTypes, AwaitInv, NEW r \in requests, Serve(r)
    PROVE  AwaitInv'
<1>1. cmds \in Seq(Commands) /\ requests \in SUBSET MirrorRequests
  BY AwaitTypes
<1>2. Served(r) /\ UNCHANGED <<conn, down, pending, ch, mainq, ioq>>
  BY ServeIs DEF server
<1> DEFINE c == [p |-> r.p, op |-> r.op]
<1>3. c \in Commands /\ c.p = r.p /\ c.op = r.op
  BY <1>1 DEF MirrorRequests, Commands
<1>4. cmds' = Append(cmds, c) \/ cmds' = cmds
  BY <1>2 DEF Served, Written, Refused
<1>5. /\ requests' \in SUBSET MirrorRequests
      /\ \A q \in requests : q # r => q \in requests'
  BY <1>1, <1>2, Moved DEF Served, Written, Refused
<1>6. /\ Written(r) => cmds' = Append(cmds, c)
      /\ Refused(r) => \E q \in requests' : q.p = r.p /\ q.op = r.op /\ q.at = "failed"
  BY <1>1, Moved DEF Written, Refused
<1> HIDE DEF c
<1>7. ASSUME NEW p \in Procs, NEW op \in Operations
      PROVE  /\ Sent(p, op) => Sent(p, op)'
             /\ Answered(p, op) => Answered(p, op)'
             /\ Waits(p, op)' => Waits(p, op)
             /\ Waits(p, op) /\ Asked(p, op) => Asked(p, op)' \/ Sent(p, op)'
  <2>1. Sent(p, op) => Sent(p, op)'
    BY <1>1, <1>3, <1>4, StillThere DEF Sent
  <2>2. ASSUME Waits(p, op), NEW q \in requests, q.p = p, q.op = op, q.at \in {"server", "failed"}
        PROVE  Asked(p, op)' \/ Sent(p, op)'
    <3>1. CASE q # r
      BY <1>5, <2>2, <3>1 DEF Asked
    <3>2. CASE q = r /\ Written(r)
      <4>1. cmds' = Append(cmds, c) /\ c.p = p /\ c.op = op
        BY <1>3, <1>6, <2>2, <3>2
      <4>2. \E j \in DOMAIN Append(cmds, c) : Append(cmds, c)[j] = c
        BY <1>1, <1>3, StillThere
      <4>. QED  BY <4>1, <4>2 DEF Sent
    <3>3. CASE q = r /\ Refused(r)
      BY <1>6, <2>2, <3>3 DEF Asked
    <3>4. CASE q = r /\ r.op \in Dispatched
      BY <2>2, <3>4, OpsAre DEF Waits
    <3>. QED  BY <1>2, <3>1, <3>2, <3>3, <3>4 DEF Served
  <2>3. Answered(p, op) => Answered(p, op)'
    BY <1>2 DEF Answered
  <2>4. Waits(p, op)' => Waits(p, op)
    BY <1>2 DEF Waits
  <2>. QED  BY <2>1, <2>2, <2>3, <2>4 DEF Asked
<1>. QED
  BY <1>2, <1>7 DEF AwaitInv

LEMMA AwaitSettled ==
    ASSUME MirrorTypes, AwaitInv,
           (\E r \in requests : TakeResponse(r)) \/ (\E key \in timers : PendingTimeout(key))
    PROVE  AwaitInv'
<1>1. UNCHANGED <<conn, down, cmds, ch, mainq, ioq>>
  BY DEF TakeResponse, PendingTimeout, world, server
<1>2. ASSUME NEW p \in Procs, NEW op \in Operations, Waits(p, op)'
      PROVE  Waits(p, op) /\ (Asked(p, op) => Asked(p, op)')
  <2>1. CASE \E r \in requests : TakeResponse(r)
    <3>1. PICK r \in requests : TakeResponse(r)
      BY <2>1
    <3>2. /\ requests' = requests \ {r} /\ r.at \in {"ok", "failed"}
          /\ r.at = "failed" => pending' = pending \ {<<r.p, r.op>>}
          /\ r.at # "failed" => pending' = pending
      BY <3>1 DEF TakeResponse, settle_pending
    <3>3. Waits(p, op)
      BY <1>2, <3>2 DEF Waits
    <3>4. ASSUME NEW q \in requests, q.p = p, q.op = op, q.at \in {"server", "failed"}
          PROVE  q # r
      <4>1. CASE r.at = "failed"
        BY <1>2, <3>2, <3>4, <4>1 DEF Waits
      <4>2. CASE r.at = "ok"
        BY <3>4, <4>2
      <4>. QED  BY <3>2, <4>1, <4>2
    <3>. QED  BY <3>2, <3>3, <3>4 DEF Asked
  <2>2. CASE \E key \in timers : PendingTimeout(key)
    BY <1>2, <2>2 DEF PendingTimeout, settle_pending, Waits, Asked
  <2>. QED  BY <2>1, <2>2
<1>3. \A p \in Procs, op \in Operations :
         (Sent(p, op) => Sent(p, op)') /\ (Answered(p, op) => Answered(p, op)')
  BY <1>1 DEF Sent, Answered
<1>. QED
  BY <1>1, <1>2, <1>3 DEF AwaitInv

LEMMA ClearedBy ==
    ASSUME NEW v, NEW f \in MirrorFrames, NEW p, NEW op, Tells(f, p, op), v \in Views
    PROVE  <<p, op>> \in applyFrame(v, f).cleared
<1>1. f.k = "status" /\ f.p = p /\ f.ev = op
  BY DEF Tells
<1>2. applyFrame(v, f) = applyProcessStatus(v, f) /\ f \in StatusFrames
  BY <1>1, FrameKinds, ViewOf
<1>3. <<f.p, f.ev>> \in applyProcessStatus(v, f).cleared
  BY <1>2 DEF applyProcessStatus, Views
<1>. QED
  BY <1>1, <1>2, <1>3

LEMMA AwaitMessage ==
    ASSUME MirrorTypes, AwaitInv, handleTextMessage, NEW ms, Trail(ms, down, mirror)
    PROVE  AwaitInv'
<1> DEFINE x == Head(down)
<1>1. /\ down # << >> /\ x \in MirrorMessages /\ x = down[1] /\ down' = Tail(down) /\ pending' \subseteq pending
      /\ x.t = "snapshot" => pending' = {}
      /\ x.t = "frame" => x.f \in MirrorFrames /\ pending' = pending \ applyFrame(view, x.f).cleared
  BY MessageTaken
<1> HIDE DEF x
<1>2. UNCHANGED <<conn, cmds, ch, mainq, ioq, requests>>
  BY DEF handleTextMessage, world, server
<1>3. down \in Seq(MirrorMessages) /\ view \in Views
  BY AwaitTypes DEF MirrorTypes, BrowserTypes, SoundView
<1>4. CASE x.t = "snapshot"
  <2>1. \A p \in Procs, op \in Operations : ~ Waits(p, op)'
    BY <1>1, <1>4 DEF Waits
  <2>. QED  BY <2>1 DEF AwaitInv
<1>5. CASE x.t = "frame"
  <2>1. ~ Behind(down)
    BY <1>1, <1>5 DEF Behind
  <2>2. ASSUME NEW p \in Procs, NEW op \in Operations, Waits(p, op)'
        PROVE  Waits(p, op) /\ (ToldIn(down, p, op) => ToldIn(down', p, op))
    <3>1. ~ Tells(x.f, p, op)
      BY <1>1, <1>3, <1>5, <2>2, ClearedBy DEF Waits
    <3>2. ToldIn(down, p, op) => ToldIn(Tail(down), p, op)
      BY <1>1, <1>3, <3>1, ToldHead DEF x
    <3>. QED  BY <1>1, <2>2, <3>2 DEF Waits
  <2>3. \A p \in Procs, op \in Operations : (Sent(p, op) => Sent(p, op)') /\ (Asked(p, op) => Asked(p, op)')
    BY <1>2 DEF Sent, Asked
  <2>. QED  BY <1>2, <2>1, <2>2, <2>3 DEF AwaitInv, Answered
<1>. QED
  BY <1>1, <1>4, <1>5, MessageIs

LEMMA AwaitJoin ==
    ASSUME MirrorTypes, Join \/ Leave \/ Reopen
    PROVE  AwaitInv'
<1>1. CASE Join
  <2> DEFINE x == [t |-> "snapshot", m |-> mirror]
             q == <<x>>
  <2>1. down' = q /\ x.t = "snapshot"
    BY <1>1 DEF Join
  <2> HIDE DEF x
  <2>2. q # << >> /\ q[1] = x
    OBVIOUS
  <2> HIDE DEF q
  <2>3. Behind(down')
    BY <2>1, <2>2 DEF Behind
  <2>. QED  BY <2>3 DEF AwaitInv, Behind
<1>2. CASE Leave \/ Reopen
  BY <1>2 DEF Leave, Reopen, AwaitInv
<1>. QED
  BY <1>1, <1>2

LEMMA FollowsAnswers ==
    ASSUME MirrorTypes, AwaitInv
    PROVE  PendingAnswered
<1>1. SUFFICES ASSUME Settled, conn, down = << >>, cmds = << >>, requests = {},
                      NEW key \in pending, key[2] \notin DOMAIN Answers
               PROVE  FALSE
  BY DEF PendingAnswered
<1>2. PICK p \in Procs, op \in Operations : key = <<p, op>>
  BY <1>1, AwaitTypes
<1>3. Waits(p, op) /\ ~ Behind(down)
  BY <1>1, <1>2 DEF Waits, Behind
<1>4. Asked(p, op) \/ Sent(p, op) \/ Answered(p, op)
  BY <1>1, <1>3 DEF AwaitInv
<1>5. ch = << >> /\ mainq = << >> /\ ioq = << >> /\ DOMAIN << >> = {}
  BY <1>1 DEF Settled
<1>. QED
  BY <1>1, <1>4, <1>5 DEF Asked, Sent, Answered, Tell, ToldIn

-----------------------------------------------------------------------------
MirrorIInv == MirrorTypes /\ WorldInv /\ ViewInv /\ AwaitInv

LEMMA MirrorStarts ==
    MirrorInit => MirrorIInv
<1>1. SUFFICES ASSUME MirrorInit PROVE MirrorIInv
  OBVIOUS
<1>2. query = TRUE /\ conn = FALSE
  BY <1>1 DEF MirrorInit
<1>. QED
  BY <1>1, <1>2, TypesInit DEF MirrorIInv, WorldInv, ViewInv, AwaitInv

LEMMA MirrorSteps ==
    MirrorIInv /\ [MirrorNext]_mirrorVars => MirrorIInv'
<1> SUFFICES ASSUME MirrorTypes, WorldInv, ViewInv, AwaitInv, [MirrorNext]_mirrorVars
             PROVE  MirrorIInv'
  BY DEF MirrorIInv
<1>0. WorldTypes /\ ch \in Seq(MirrorFrames)
  BY DEF MirrorTypes, WorldTypes
<1>1. CASE Handle
  <2>1. query' = query /\ UNCHANGED <<overtaken, mirror, late, mainq, ioq, conn, down, view, hidden>>
    BY <1>1 DEF Handle, Keep, server, browser
  <2>2. WorldWrites
    BY <1>0, <1>1, AwaitTypes, HandleWrites
  <2>. QED
    BY <1>1, <2>1, <2>2, HandleTypes, WorldInvWrites, ViewKept, AwaitHandled DEF MirrorIInv
<1>2. CASE report_full_snapshot
  <2>1. UNCHANGED <<conn, down, mirror, view, hidden, pending, requests, mainq, ioq, cmds>>
    BY <1>2 DEF report_full_snapshot, Keep, server, browser
  <2>2. PICK fs \in Seq(MirrorFrames) : ch' = ch \o fs
    BY <1>0, <1>2, SnapshotWrites
  <2>3. AwaitInv'
    BY <2>1, <2>2, AwaitWritten
  <2>. QED
    BY <1>2, <2>1, <2>3, SnapshotTypes, WorldInvSnapshot, ViewKept DEF MirrorIInv
<1>3. ASSUME NEW p \in Procs, Exit(p) PROVE MirrorIInv'
  <2>1. /\ query' = query
        /\ UNCHANGED <<overtaken, mirror, late, mainq, ioq, conn, down, view, hidden, pending, requests, cmds>>
    BY <1>3 DEF Exit, Keep, server, browser
  <2>2. WorldWrites
    BY <1>0, <1>3, ExitWrites
  <2>3. PICK fs \in Seq(MirrorFrames) : ch' = ch \o fs
    BY <2>2 DEF WorldWrites
  <2>4. AwaitInv'
    BY <2>1, <2>3, AwaitWritten
  <2>. QED
    BY <1>3, <2>1, <2>2, <2>4, ExitTypes, WorldInvWrites, ViewKept DEF MirrorIInv
<1>4. ASSUME NEW p \in Procs, Speak(p) PROVE MirrorIInv'
  <2>1. /\ query' = query
        /\ UNCHANGED <<overtaken, mirror, late, mainq, ioq, conn, down, view, hidden, pending, requests, cmds>>
    BY <1>4 DEF Speak, server
  <2>2. WorldWrites /\ MirrorTypes'
    BY <1>4, SpeakTypes
  <2>3. PICK fs \in Seq(MirrorFrames) : ch' = ch \o fs
    BY <2>2 DEF WorldWrites
  <2>4. AwaitInv'
    BY <2>1, <2>3, AwaitWritten
  <2>. QED
    BY <2>1, <2>2, <2>4, WorldInvWrites, ViewKept DEF MirrorIInv
<1>5. ASSUME NEW p \in Procs, NEW op \in Ops, Operate(p, op) PROVE MirrorIInv'
  <2>1. UNCHANGED <<query, overtaken, mirror, late, mainq, ioq, ch, proc, conf, conn, down, view, hidden>>
    BY <1>5 DEF Operate, world, server
  <2>2. WorldInv' /\ ViewInv'
    BY <2>1, WorldInvKept, ViewKept DEF Queue
  <2>. QED
    BY <1>5, <2>2, OperateTypes, AwaitOperate DEF MirrorIInv
<1>6. CASE drain_and_post
  <2>1. UNCHANGED <<conn, down, mirror, view, hidden>>
    BY <1>6 DEF drain_and_post, browser
  <2>. QED
    BY <1>6, <2>1, DrainTypes, WorldInvPosted, ViewKept, AwaitPosted DEF MirrorIInv
<1>7. CASE Run
  <2>1. UNCHANGED <<query, overtaken, mirror, late, mainq, ioq, ch, proc, conf, conn, down, view, hidden,
                    pending, requests, cmds>>
    BY <1>7 DEF Run, world, browser
  <2>2. WorldInv' /\ ViewInv' /\ AwaitInv'
    BY <2>1, WorldInvKept, ViewKept, AwaitKept DEF Queue
  <2>. QED
    BY <1>7, <2>2, RunTypes DEF MirrorIInv
<1>8. CASE ApplyIo \/ ApplyMain
  <2>1. PICK f \in MirrorFrames : Apply(f)
    <3>1. mainq \in Seq(MirrorFrames) /\ ioq \in Seq(MirrorFrames)
      BY AwaitTypes
    <3>. QED  BY <1>8, <3>1, TakesHead DEF ApplyIo, ApplyMain
  <2>2. ViewInv'
    BY <2>1, ViewApplied
  <2>. QED
    BY <1>8, <2>2, ApplyTypes, WorldInvApplied, AwaitApplied DEF MirrorIInv
<1>9. ASSUME NEW r \in requests, Serve(r) PROVE MirrorIInv'
  <2>1. UNCHANGED <<query, overtaken, mirror, late, mainq, ioq, ch, proc, conf, conn, down, view, hidden>>
    BY <1>9, ServeIs DEF server
  <2>2. WorldInv' /\ ViewInv'
    BY <2>1, WorldInvKept, ViewKept DEF Queue
  <2>. QED
    BY <1>9, <2>2, ServeTypes, AwaitServe DEF MirrorIInv
<1>10. CASE (\E r \in requests : TakeResponse(r)) \/ (\E key \in timers : PendingTimeout(key))
  <2>1. UNCHANGED <<query, overtaken, mirror, late, mainq, ioq, ch, proc, conf, conn, down, view, hidden>>
    BY <1>10 DEF TakeResponse, PendingTimeout, world, server
  <2>2. WorldInv' /\ ViewInv'
    BY <2>1, WorldInvKept, ViewKept DEF Queue
  <2>. QED
    BY <1>10, <2>2, SettleTypes, AwaitSettled DEF MirrorIInv
<1>11. CASE handleTextMessage
  <2>1. UNCHANGED <<query, overtaken, mirror, late, mainq, ioq, ch, proc, conf>>
    BY <1>11 DEF handleTextMessage, world, server
  <2>2. WorldInv' /\ ViewInv'
    BY <1>11, <2>1, WorldInvKept, ViewMessage DEF Queue
  <2>3. AwaitInv'
    <3>1. CASE conn
      <4>1. PICK ms : Trail(ms, down, mirror)
        BY <3>1 DEF ViewInv
      <4>. QED  BY <1>11, <4>1, AwaitMessage
    <3>2. CASE ~ conn
      BY <1>11, <3>2 DEF handleTextMessage, AwaitInv
    <3>. QED  BY <3>1, <3>2
  <2>. QED
    BY <1>11, <2>2, <2>3, MessageTypes DEF MirrorIInv
<1>12. CASE Join \/ Leave
  <2>1. UNCHANGED <<query, overtaken, mirror, late, mainq, ioq, ch, proc, conf>>
    BY <1>12 DEF Join, Leave, world, server
  <2>2. WorldInv'
    BY <2>1, WorldInvKept DEF Queue
  <2>3. ViewInv'
    BY <1>12, ViewJoin DEF Leave, ViewInv
  <2>. QED
    BY <1>12, <2>2, <2>3, JoinTypes, AwaitJoin DEF MirrorIInv
<1>13. CASE Reopen
  <2>1. WorldInv' /\ ViewInv'
    BY <1>13 DEF Reopen, WorldInv, ViewInv
  <2>. QED
    BY <1>13, <2>1, ReopenTypes, AwaitJoin DEF MirrorIInv
<1>14. CASE UNCHANGED mirrorVars
  <2>1. UNCHANGED <<query, overtaken, mirror, late, mainq, ioq, ch, proc, conf, conn, down, view, hidden,
                    pending, requests, cmds>>
    BY <1>14 DEF mirrorVars, world, server, browser
  <2>2. WorldInv' /\ ViewInv' /\ AwaitInv'
    BY <2>1, WorldInvKept, ViewKept, AwaitKept DEF Queue
  <2>3. MirrorTypes'
    BY <1>14 DEF mirrorVars, world, server, browser, MirrorTypes, WorldTypes, ServerTypes, BrowserTypes, Here
  <2>. QED
    BY <2>2, <2>3 DEF MirrorIInv
<1>. QED
  BY <1>1, <1>2, <1>3, <1>4, <1>5, <1>6, <1>7, <1>8, <1>9, <1>10, <1>11, <1>12, <1>13, <1>14 DEF MirrorNext

LEMMA MirrorGives ==
    MirrorIInv => MirrorHonest
<1>1. SUFFICES ASSUME MirrorTypes, WorldInv, ViewInv, AwaitInv PROVE MirrorHonest
  BY DEF MirrorIInv
<1>2. MirrorTypeOK
  <2>1. Sound(mirror) /\ conf \in SUBSET Procs /\ pending = timers
    BY <1>1, HereIs DEF MirrorTypes, WorldTypes, ServerTypes, BrowserTypes
  <2>. QED  BY <2>1 DEF MirrorTypeOK, Sound, Mirrors
<1>. QED
  BY <1>1, <1>2, FollowsWorld, FollowsMirror, FollowsAnswers DEF MirrorHonest

(* wsHandlers.ts, process_mirror.cpp, usePending.ts: whatever is lost or
   restarted, the mirror ends up with what the processes do, the browser with
   what the mirror has, and no operation of the master's waits in vain. *)
THEOREM MirrorCorrect ==
    MirrorSpec => []MirrorHonest
BY MirrorStarts, MirrorSteps, MirrorGives, PTL DEF MirrorSpec
=============================================================================
