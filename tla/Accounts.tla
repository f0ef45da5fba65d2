------------------------------- MODULE Accounts -------------------------------
(***************************************************************************)
(* Accounts and characters: the requests of core/routers/auth.py and       *)
(* create_character of core/routers/pcs.py, and the functions of core/db   *)
(* they call inside one transaction each (core/database.py).               *)
(*                                                                         *)
(* The requests of all the server's clients run at the same time, each on  *)
(* its own connection. A statement sees what was committed before it, and  *)
(* an INSERT waits for an open transaction that holds the same unique key. *)
(***************************************************************************)
EXTENDS Naturals

CONSTANTS Registers,   \* calls of register
          Logins,      \* calls of login
          Creates,     \* calls of create_character
          Emails,      \* addresses, equal as CITEXT compares them
          Names,       \* character names, likewise
          Nothing      \* no address, no row, no answer

ASSUME RequestsAssumption ==
  /\ Registers \cap Logins = {} /\ Registers \cap Creates = {}
  /\ Logins \cap Creates = {}
ASSUME NothingAssumption == Nothing \notin Emails \cup Names

Requests == Registers \cup Logins \cup Creates

\* What the tables may hold, by the columns that matter; the id of a row is the
\* request that inserts it.
Users == [id : Registers, email : Emails, admin_level : {0, 10}]
Pcs == [id : Creates, name : Names, user_id : Registers]
LoginRecords == [id : Logins, user_id : Registers, success : BOOLEAN]

\* What a request is told: the claims of the tokens, or the character.
Answers == Users \cup Pcs \cup {Nothing}

VARIABLES
  users, pcs, loginrecords,   \* the committed rows
  phase,        \* phase[r]: new, open, written, committed, answered, failed
  user,         \* user[r]: the account r will insert, or the one it has read
  row,          \* row[r]: what r has inserted and not committed
  answer        \* answer[r]: what the client got

tables == <<users, pcs, loginrecords>>
locals == <<user, row>>
vars == <<tables, phase, locals, answer>>

TypeOK ==
  /\ users \subseteq Users /\ pcs \subseteq Pcs /\ loginrecords \subseteq LoginRecords
  /\ phase \in [Requests -> {"new", "open", "written", "committed", "answered", "failed"}]
  /\ user \in [Requests -> Users \cup {Nothing}]
  /\ row \in [Requests -> Users \cup Pcs \cup LoginRecords \cup {Nothing}]
  /\ answer \in [Requests -> Answers]

Init ==
  /\ users = {} /\ pcs = {} /\ loginrecords = {}
  /\ phase = [r \in Requests |-> "new"]
  /\ user = [r \in Requests |-> Nothing]
  /\ row = [r \in Requests |-> Nothing]
  /\ answer = [r \in Requests |-> Nothing]

Goes(r, from, to) == phase[r] = from /\ phase' = [phase EXCEPT ![r] = to]

-------------------------------------------------------------------------------
(* register *)

\* Definitions named <action>_<bug> are mutants of the action below them: no
\* action uses one, each shows that some property would notice the bug.

\* Mutant: the users are counted the wrong way round.
CountUsers_Inverted(r, e) ==
  /\ Goes(r, "new", "open") /\ r \in Registers
  /\ user' = [user EXCEPT ![r] =
                [id |-> r, email |-> e, admin_level |-> IF users = {} THEN 0 ELSE 10]]
  /\ UNCHANGED <<tables, row, answer>>

\* register_user hashes the password and looks for any user.
CountUsers(r, e) ==
  /\ Goes(r, "new", "open") /\ r \in Registers
  /\ user' = [user EXCEPT ![r] =
                [id |-> r, email |-> e, admin_level |-> IF users = {} THEN 10 ELSE 0]]
  /\ UNCHANGED <<tables, row, answer>>

\* The unique keys: no committed row has the key, and no open transaction does.
EmailFree(e) ==
  /\ \A u \in users : u.email # e
  /\ \A r \in Registers : phase[r] = "written" => row[r].email # e

NameFree(n) ==
  /\ \A p \in pcs : p.name # n
  /\ \A r \in Creates : phase[r] = "written" => row[r].name # n

\* Mutant: the key is only compared with what is committed.
InsertUser_NoWait(r) ==
  /\ Goes(r, "open", "written") /\ r \in Registers
  /\ \A u \in users : u.email # user[r].email
  /\ row' = [row EXCEPT ![r] = user[r]]
  /\ UNCHANGED <<tables, user, answer>>

InsertUser(r) ==
  /\ Goes(r, "open", "written") /\ r \in Registers
  /\ EmailFree(user[r].email)
  /\ row' = [row EXCEPT ![r] = user[r]]
  /\ UNCHANGED <<tables, user, answer>>

\* UniqueViolationError: "User already exists."
UserExists(r) ==
  /\ Goes(r, "open", "failed") /\ r \in Registers
  /\ \E u \in users : u.email = user[r].email
  /\ UNCHANGED <<tables, locals, answer>>

-------------------------------------------------------------------------------
(* login *)

\* authenticate_user finds the user by address; the tokens will be made of what
\* it has read here.
FindUser(r, e) ==
  /\ Goes(r, "new", "open") /\ r \in Logins
  /\ \E u \in users :
       u.email = e /\ user' = [user EXCEPT ![r] = u]
  /\ UNCHANGED <<tables, row, answer>>

NoSuchUser(r, e) ==
  /\ Goes(r, "new", "failed") /\ r \in Logins
  /\ \A u \in users : u.email # e
  /\ UNCHANGED <<tables, locals, answer>>

\* The password is right; its hash is renewed if it is outdated. The record of
\* the login is inserted.
RecordSuccess(r) ==
  /\ Goes(r, "open", "written") /\ r \in Logins
  /\ row' = [row EXCEPT ![r] = [id |-> r, user_id |-> user[r].id, success |-> TRUE]]
  /\ UNCHANGED <<tables, user, answer>>

\* Mutant: the record of a failed login is inserted and the answer is given.
RecordFailure_NotRaised(r) ==
  /\ Goes(r, "open", "written") /\ r \in Logins
  /\ row' = [row EXCEPT ![r] = [id |-> r, user_id |-> user[r].id, success |-> FALSE]]
  /\ UNCHANGED <<tables, user, answer>>

\* The password is wrong. The record of that is inserted, and the exception
\* raised right after it rolls it back. So does the row being refused: a request
\* without a User-Agent header has no value for a column that must have one.
RecordFailure(r) ==
  /\ Goes(r, "open", "failed") /\ r \in Logins
  /\ UNCHANGED <<tables, locals, answer>>

-------------------------------------------------------------------------------
(* create_character *)

\* get_current_user: the bearer of a token, whose user is in the table.
Authorize(r) ==
  /\ Goes(r, "new", "open") /\ r \in Creates
  /\ \E u \in users : user' = [user EXCEPT ![r] = u]
  /\ UNCHANGED <<tables, row, answer>>

InsertPc(r, n) ==
  /\ Goes(r, "open", "written") /\ r \in Creates
  /\ NameFree(n)
  /\ row' = [row EXCEPT ![r] = [id |-> r, name |-> n, user_id |-> user[r].id]]
  /\ UNCHANGED <<tables, user, answer>>

\* UniqueViolationError: "Player Character name already in use".
NameInUse(r, n) ==
  /\ Goes(r, "open", "failed") /\ r \in Creates
  /\ \E p \in pcs : p.name = n
  /\ UNCHANGED <<tables, locals, answer>>

-------------------------------------------------------------------------------
(* Database.transaction and the answers *)

\* The block of db.transaction() is left.
Commit(r) ==
  /\ Goes(r, "written", "committed")
  /\ users' = users \cup (IF r \in Registers THEN {row[r]} ELSE {})
  /\ pcs' = pcs \cup (IF r \in Creates THEN {row[r]} ELSE {})
  /\ loginrecords' = loginrecords \cup (IF r \in Logins THEN {row[r]} ELSE {})
  /\ UNCHANGED <<locals, answer>>

\* The block raises: a pc.create hook does, or the connection is lost.
Rollback(r) ==
  /\ phase[r] \in {"open", "written"}
  /\ phase' = [phase EXCEPT ![r] = "failed"]
  /\ UNCHANGED <<tables, locals, answer>>

\* The answer to r: the claims of the two tokens, or the new character.
Answer(r) == IF r \in Creates THEN row[r] ELSE user[r]

\* Mutant: the answer is given from inside the transaction.
Respond_Early(r) ==
  /\ phase[r] = "written" /\ answer[r] = Nothing
  /\ answer' = [answer EXCEPT ![r] = Answer(r)]
  /\ UNCHANGED <<tables, phase, locals>>

\* After the transaction: the tokens are made, or the character is returned.
Respond(r) ==
  /\ Goes(r, "committed", "answered")
  /\ answer' = [answer EXCEPT ![r] = Answer(r)]
  /\ UNCHANGED <<tables, locals>>

\* The answer is lost: the client does not learn what was committed.
AnswerLost(r) ==
  /\ Goes(r, "committed", "failed")
  /\ UNCHANGED <<tables, locals, answer>>

-------------------------------------------------------------------------------
Next == \E r \in Requests :
  \/ \E e \in Emails : CountUsers(r, e) \/ FindUser(r, e) \/ NoSuchUser(r, e)
  \/ \E n \in Names : InsertPc(r, n) \/ NameInUse(r, n)
  \/ InsertUser(r) \/ UserExists(r) \/ Authorize(r) \/ RecordSuccess(r) \/ RecordFailure(r)
  \/ Commit(r) \/ Rollback(r) \/ Respond(r) \/ AnswerLost(r)

Spec == Init /\ [][Next]_vars

-------------------------------------------------------------------------------
(* Properties *)

\* However the requests overlap, an address has one account (register_user) and
\* a name one character (create_pc).
KeysAreUnique ==
  /\ \A u, v \in users : u.email = v.email => u = v
  /\ \A p, q \in pcs : p.name = q.name => p = q

\* A server that has users has an admin: the account that is committed first is
\* one, even if a registration that was counted before it is rolled back.
SomeAdmin == users # {} => \E u \in users : u.admin_level = 10

\* What a client is told is so: the tokens claim the level of a committed
\* account, a character that is answered exists, and it belongs to a user.
AnswersAreCommitted ==
  /\ \A r \in Requests : answer[r] \in users \cup pcs \cup {Nothing}
  /\ \A p \in pcs : \E u \in users : u.id = p.user_id

\* Whoever got tokens for a login is on record with a successful one, and no
\* failed login gets any.
LoginsAreRecorded ==
  \A r \in Logins : answer[r] # Nothing =>
    [id |-> r, user_id |-> answer[r].id, success |-> TRUE] \in loginrecords

\* core/db/auth.py:55 "if there are no users, make this user an admin.": there is
\* one first user, and one admin for it.
OneFirstAdmin == \A u, v \in users : u.admin_level = 10 /\ v.admin_level = 10 => u = v
===============================================================================
