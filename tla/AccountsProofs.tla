---------------------------- MODULE AccountsProofs ----------------------------
(***************************************************************************)
(* Proofs about Accounts, for any numbers of requests, addresses and       *)
(* names: whatever overlaps, fails or is lost, keys are unique, a server   *)
(* with users has an admin, and what clients are told is in the tables.    *)
(***************************************************************************)
EXTENDS Accounts, TLAPS

-------------------------------------------------------------------------------
(* The inductive invariant *)

\* What a request has read is there, and it inserts what it should.
Carried ==
  \A r \in Requests : phase[r] \in {"open", "written", "committed"} =>
    /\ user[r] \in Users
    /\ r \notin Registers => user[r] \in users

Inserted ==
  \A r \in Requests : phase[r] \in {"written", "committed"} =>
    /\ r \in Registers => row[r] = user[r]
    /\ r \in Logins => row[r] = [id |-> r, user_id |-> user[r].id, success |-> TRUE]
    /\ r \in Creates => row[r] \in Pcs /\ row[r].user_id = user[r].id

\* The transaction of a request that is to be answered has been committed.
Durable ==
  \A r \in Requests : phase[r] = "committed" =>
    /\ r \in Registers => row[r] \in users
    /\ r \in Logins => row[r] \in loginrecords
    /\ r \in Creates => row[r] \in pcs

\* An open transaction holds its key against the committed rows and the others.
Keys ==
  /\ KeysAreUnique
  /\ \A r \in Registers : phase[r] = "written" =>
       /\ \A u \in users : u.email # row[r].email
       /\ \A q \in Registers : phase[q] = "written" /\ row[q].email = row[r].email => q = r
  /\ \A r \in Creates : phase[r] = "written" =>
       /\ \A p \in pcs : p.name # row[r].name
       /\ \A q \in Creates : phase[q] = "written" /\ row[q].name = row[r].name => q = r

\* As long as no account is committed, every one under way is counted as the first.
Admins ==
  /\ SomeAdmin
  /\ users = {} => \A r \in Registers : phase[r] \in {"open", "written"} =>
                     user[r].admin_level = 10

Told == AnswersAreCommitted /\ LoginsAreRecorded

IInv == TypeOK /\ Carried /\ Inserted /\ Durable /\ Keys /\ Admins /\ Told

LEMMA InitIInv == Init => IInv
BY DEF Init, IInv, TypeOK, Carried, Inserted, Durable, Keys, KeysAreUnique, Admins,
       SomeAdmin, Told, AnswersAreCommitted, LoginsAreRecorded, Requests, Answers

-------------------------------------------------------------------------------
(* Every step *)

LEMMA CarriedNext ==
  ASSUME TypeOK, Carried, [Next]_vars
  PROVE  Carried'
<1> USE DEF tables, locals, Requests
<1>1. ASSUME NEW r \in Requests, NEW e \in Emails, CountUsers(r, e) PROVE Carried'
  <2>1. [id |-> r, email |-> e, admin_level |-> IF users = {} THEN 10 ELSE 0] \in Users
    BY <1>1 DEF CountUsers, Users
  <2>2. /\ phase' = [phase EXCEPT ![r] = "open"]
        /\ \E u \in Users : user' = [user EXCEPT ![r] = u]
    BY <1>1, <2>1 DEF CountUsers, Goes
  <2> QED BY <1>1, <2>2 DEF CountUsers, TypeOK, Carried
<1>2. ASSUME NEW r \in Requests, NEW e \in Emails, FindUser(r, e) PROVE Carried'
  BY <1>2 DEF FindUser, Goes, TypeOK, Carried
<1>3. ASSUME NEW r \in Requests, NEW e \in Emails, NoSuchUser(r, e) PROVE Carried'
  BY <1>3 DEF NoSuchUser, Goes, TypeOK, Carried
<1>4. ASSUME NEW r \in Requests, NEW n \in Names, InsertPc(r, n) PROVE Carried'
  BY <1>4 DEF InsertPc, Goes, TypeOK, Carried
<1>5. ASSUME NEW r \in Requests, NEW n \in Names, NameInUse(r, n) PROVE Carried'
  BY <1>5 DEF NameInUse, Goes, TypeOK, Carried
<1>6. ASSUME NEW r \in Requests, InsertUser(r) PROVE Carried'
  BY <1>6 DEF InsertUser, Goes, TypeOK, Carried
<1>7. ASSUME NEW r \in Requests, UserExists(r) PROVE Carried'
  BY <1>7 DEF UserExists, Goes, TypeOK, Carried
<1>8. ASSUME NEW r \in Requests, Authorize(r) PROVE Carried'
  BY <1>8 DEF Authorize, Goes, TypeOK, Carried
<1>9. ASSUME NEW r \in Requests, RecordSuccess(r) PROVE Carried'
  BY <1>9 DEF RecordSuccess, Goes, TypeOK, Carried
<1>10. ASSUME NEW r \in Requests, RecordFailure(r) PROVE Carried'
  BY <1>10 DEF RecordFailure, Goes, TypeOK, Carried
<1>11. ASSUME NEW r \in Requests, Commit(r) PROVE Carried'
  BY <1>11 DEF Commit, Goes, TypeOK, Carried
<1>12. ASSUME NEW r \in Requests, Rollback(r) PROVE Carried'
  BY <1>12 DEF Rollback, Goes, TypeOK, Carried
<1>13. ASSUME NEW r \in Requests, Respond(r) PROVE Carried'
  BY <1>13 DEF Respond, Goes, TypeOK, Carried
<1>14. ASSUME NEW r \in Requests, AnswerLost(r) PROVE Carried'
  BY <1>14 DEF AnswerLost, Goes, TypeOK, Carried
<1>15. CASE UNCHANGED vars
  BY <1>15 DEF vars, TypeOK, Carried
<1> QED
  BY <1>1, <1>2, <1>3, <1>4, <1>5, <1>6, <1>7, <1>8, <1>9, <1>10, <1>11, <1>12, <1>13,
     <1>14, <1>15 DEF Next

LEMMA InsertedNext ==
  ASSUME TypeOK, Carried, Inserted, [Next]_vars
  PROVE  Inserted'
<1> USE DEF tables, locals, Requests
<1>1. ASSUME NEW r \in Requests, NEW e \in Emails, CountUsers(r, e) PROVE Inserted'
  BY <1>1 DEF CountUsers, Goes, TypeOK, Carried, Inserted
<1>2. ASSUME NEW r \in Requests, NEW e \in Emails, FindUser(r, e) PROVE Inserted'
  BY <1>2 DEF FindUser, Goes, TypeOK, Carried, Inserted
<1>3. ASSUME NEW r \in Requests, NEW e \in Emails, NoSuchUser(r, e) PROVE Inserted'
  BY <1>3 DEF NoSuchUser, Goes, TypeOK, Carried, Inserted
<1>4. ASSUME NEW r \in Requests, NEW n \in Names, InsertPc(r, n) PROVE Inserted'
  <2>1. r \in Creates /\ user[r] \in Users /\ phase[r] = "open"
    BY <1>4 DEF InsertPc, Goes, Carried
  <2>2. PICK pc : pc = [id |-> r, name |-> n, user_id |-> user[r].id]
    OBVIOUS
  <2>3. pc \in Pcs /\ pc.user_id = user[r].id /\ pc.name = n
    BY <2>1, <2>2 DEF Users, Pcs
  <2>4. row' = [row EXCEPT ![r] = pc] /\ phase' = [phase EXCEPT ![r] = "written"]
    BY <1>4, <2>2 DEF InsertPc, Goes
  <2> QED BY <1>4, <2>1, <2>3, <2>4, RequestsAssumption DEF InsertPc, TypeOK, Inserted
<1>5. ASSUME NEW r \in Requests, NEW n \in Names, NameInUse(r, n) PROVE Inserted'
  BY <1>5 DEF NameInUse, Goes, TypeOK, Carried, Inserted
<1>6. ASSUME NEW r \in Requests, InsertUser(r) PROVE Inserted'
  <2> QED BY <1>6, RequestsAssumption DEF InsertUser, Goes, TypeOK, Inserted
<1>7. ASSUME NEW r \in Requests, UserExists(r) PROVE Inserted'
  BY <1>7 DEF UserExists, Goes, TypeOK, Carried, Inserted
<1>8. ASSUME NEW r \in Requests, Authorize(r) PROVE Inserted'
  BY <1>8 DEF Authorize, Goes, TypeOK, Carried, Inserted
<1>9. ASSUME NEW r \in Requests, RecordSuccess(r) PROVE Inserted'
  <2>1. r \in Logins /\ user[r] \in Users /\ phase[r] = "open"
    BY <1>9 DEF RecordSuccess, Goes, Carried
  <2>2. PICK rec : rec = [id |-> r, user_id |-> user[r].id, success |-> TRUE]
    OBVIOUS
  <2>3. rec \in LoginRecords
    BY <2>1, <2>2 DEF Users, LoginRecords
  <2>4. row' = [row EXCEPT ![r] = rec] /\ phase' = [phase EXCEPT ![r] = "written"]
    BY <1>9, <2>2 DEF RecordSuccess, Goes
  <2> QED BY <1>9, <2>1, <2>2, <2>4, RequestsAssumption DEF RecordSuccess, TypeOK, Inserted
<1>10. ASSUME NEW r \in Requests, RecordFailure(r) PROVE Inserted'
  BY <1>10 DEF RecordFailure, Goes, TypeOK, Carried, Inserted
<1>11. ASSUME NEW r \in Requests, Commit(r) PROVE Inserted'
  BY <1>11 DEF Commit, Goes, TypeOK, Carried, Inserted
<1>12. ASSUME NEW r \in Requests, Rollback(r) PROVE Inserted'
  BY <1>12 DEF Rollback, Goes, TypeOK, Carried, Inserted
<1>13. ASSUME NEW r \in Requests, Respond(r) PROVE Inserted'
  BY <1>13 DEF Respond, Goes, TypeOK, Carried, Inserted
<1>14. ASSUME NEW r \in Requests, AnswerLost(r) PROVE Inserted'
  BY <1>14 DEF AnswerLost, Goes, TypeOK, Carried, Inserted
<1>15. CASE UNCHANGED vars
  BY <1>15 DEF vars, TypeOK, Carried, Inserted
<1> QED
  BY <1>1, <1>2, <1>3, <1>4, <1>5, <1>6, <1>7, <1>8, <1>9, <1>10, <1>11, <1>12, <1>13,
     <1>14, <1>15 DEF Next

LEMMA DurableNext ==
  ASSUME TypeOK, Inserted, Durable, [Next]_vars
  PROVE  Durable'
<1> USE DEF tables, locals, Requests
<1>1. ASSUME NEW r \in Requests, NEW e \in Emails, CountUsers(r, e) PROVE Durable'
  BY <1>1 DEF CountUsers, Goes, TypeOK, Inserted, Durable
<1>2. ASSUME NEW r \in Requests, NEW e \in Emails, FindUser(r, e) PROVE Durable'
  BY <1>2 DEF FindUser, Goes, TypeOK, Inserted, Durable
<1>3. ASSUME NEW r \in Requests, NEW e \in Emails, NoSuchUser(r, e) PROVE Durable'
  BY <1>3 DEF NoSuchUser, Goes, TypeOK, Inserted, Durable
<1>4. ASSUME NEW r \in Requests, NEW n \in Names, InsertPc(r, n) PROVE Durable'
  BY <1>4 DEF InsertPc, Goes, TypeOK, Inserted, Durable
<1>5. ASSUME NEW r \in Requests, NEW n \in Names, NameInUse(r, n) PROVE Durable'
  BY <1>5 DEF NameInUse, Goes, TypeOK, Inserted, Durable
<1>6. ASSUME NEW r \in Requests, InsertUser(r) PROVE Durable'
  BY <1>6 DEF InsertUser, Goes, TypeOK, Inserted, Durable
<1>7. ASSUME NEW r \in Requests, UserExists(r) PROVE Durable'
  BY <1>7 DEF UserExists, Goes, TypeOK, Inserted, Durable
<1>8. ASSUME NEW r \in Requests, Authorize(r) PROVE Durable'
  BY <1>8 DEF Authorize, Goes, TypeOK, Inserted, Durable
<1>9. ASSUME NEW r \in Requests, RecordSuccess(r) PROVE Durable'
  BY <1>9 DEF RecordSuccess, Goes, TypeOK, Inserted, Durable
<1>10. ASSUME NEW r \in Requests, RecordFailure(r) PROVE Durable'
  BY <1>10 DEF RecordFailure, Goes, TypeOK, Inserted, Durable
<1>11. ASSUME NEW r \in Requests, Commit(r) PROVE Durable'
  BY <1>11 DEF Commit, Goes, TypeOK, Inserted, Durable
<1>12. ASSUME NEW r \in Requests, Rollback(r) PROVE Durable'
  BY <1>12 DEF Rollback, Goes, TypeOK, Inserted, Durable
<1>13. ASSUME NEW r \in Requests, Respond(r) PROVE Durable'
  BY <1>13 DEF Respond, Goes, TypeOK, Inserted, Durable
<1>14. ASSUME NEW r \in Requests, AnswerLost(r) PROVE Durable'
  BY <1>14 DEF AnswerLost, Goes, TypeOK, Inserted, Durable
<1>15. CASE UNCHANGED vars
  BY <1>15 DEF vars, TypeOK, Inserted, Durable
<1> QED
  BY <1>1, <1>2, <1>3, <1>4, <1>5, <1>6, <1>7, <1>8, <1>9, <1>10, <1>11, <1>12, <1>13,
     <1>14, <1>15 DEF Next

LEMMA TypeNext ==
  ASSUME TypeOK, Carried, Inserted, [Next]_vars
  PROVE  TypeOK'
<1> USE DEF tables, locals, Requests
<1>1. ASSUME NEW r \in Requests, NEW e \in Emails, CountUsers(r, e) PROVE TypeOK'
  <2>1. [id |-> r, email |-> e, admin_level |-> IF users = {} THEN 10 ELSE 0] \in Users
    BY <1>1 DEF CountUsers, Users
  <2>2. /\ phase' = [phase EXCEPT ![r] = "open"]
        /\ \E u \in Users : user' = [user EXCEPT ![r] = u]
    BY <1>1, <2>1 DEF CountUsers, Goes
  <2> QED BY <1>1, <2>2 DEF CountUsers, TypeOK
<1>2. ASSUME NEW r \in Requests, NEW e \in Emails, FindUser(r, e) PROVE TypeOK'
  BY <1>2 DEF FindUser, Goes, TypeOK
<1>3. ASSUME NEW r \in Requests, NEW e \in Emails, NoSuchUser(r, e) PROVE TypeOK'
  BY <1>3 DEF NoSuchUser, Goes, TypeOK
<1>4. ASSUME NEW r \in Requests, NEW n \in Names, InsertPc(r, n) PROVE TypeOK'
  <2>1. r \in Creates /\ user[r] \in Users /\ phase[r] = "open"
    BY <1>4 DEF InsertPc, Goes, Carried
  <2>2. PICK pc : pc = [id |-> r, name |-> n, user_id |-> user[r].id]
    OBVIOUS
  <2>3. pc \in Pcs /\ pc.user_id = user[r].id /\ pc.name = n
    BY <2>1, <2>2 DEF Users, Pcs
  <2>4. row' = [row EXCEPT ![r] = pc] /\ phase' = [phase EXCEPT ![r] = "written"]
    BY <1>4, <2>2 DEF InsertPc, Goes
  <2> QED BY <1>4, <2>3, <2>4 DEF InsertPc, TypeOK
<1>5. ASSUME NEW r \in Requests, NEW n \in Names, NameInUse(r, n) PROVE TypeOK'
  BY <1>5 DEF NameInUse, Goes, TypeOK
<1>6. ASSUME NEW r \in Requests, InsertUser(r) PROVE TypeOK'
  BY <1>6 DEF InsertUser, Goes, TypeOK
<1>7. ASSUME NEW r \in Requests, UserExists(r) PROVE TypeOK'
  BY <1>7 DEF UserExists, Goes, TypeOK
<1>8. ASSUME NEW r \in Requests, Authorize(r) PROVE TypeOK'
  BY <1>8 DEF Authorize, Goes, TypeOK
<1>9. ASSUME NEW r \in Requests, RecordSuccess(r) PROVE TypeOK'
  <2>1. r \in Logins /\ user[r] \in Users /\ phase[r] = "open"
    BY <1>9 DEF RecordSuccess, Goes, Carried
  <2>2. PICK rec : rec = [id |-> r, user_id |-> user[r].id, success |-> TRUE]
    OBVIOUS
  <2>3. rec \in LoginRecords
    BY <2>1, <2>2 DEF Users, LoginRecords
  <2>4. row' = [row EXCEPT ![r] = rec] /\ phase' = [phase EXCEPT ![r] = "written"]
    BY <1>9, <2>2 DEF RecordSuccess, Goes
  <2> QED BY <1>9, <2>3, <2>4 DEF RecordSuccess, TypeOK
<1>10. ASSUME NEW r \in Requests, RecordFailure(r) PROVE TypeOK'
  BY <1>10 DEF RecordFailure, Goes, TypeOK
<1>11. ASSUME NEW r \in Requests, Commit(r) PROVE TypeOK'
  <2>1. phase[r] = "written"
    BY <1>11 DEF Commit, Goes
  <2>2. /\ r \in Registers => row[r] \in Users
        /\ r \in Creates => row[r] \in Pcs
    BY <2>1 DEF Inserted, Carried
  <2>3. r \in Logins => row[r] \in LoginRecords
    <3>1. user[r] \in Users
      BY <2>1 DEF Carried
    <3>2. user[r].id \in Registers
      BY <3>1 DEF Users
    <3>3. r \in Logins =>
            [id |-> r, user_id |-> user[r].id, success |-> TRUE] \in LoginRecords
      BY <3>2 DEF LoginRecords
    <3> QED BY <2>1, <3>3 DEF Inserted
  <2>4. users' \subseteq Users /\ pcs' \subseteq Pcs /\ loginrecords' \subseteq LoginRecords
    BY <1>11, <2>2, <2>3 DEF Commit, TypeOK
  <2> QED BY <1>11, <2>4 DEF Commit, Goes, TypeOK
<1>12. ASSUME NEW r \in Requests, Rollback(r) PROVE TypeOK'
  BY <1>12 DEF Rollback, Goes, TypeOK
<1>13. ASSUME NEW r \in Requests, Respond(r) PROVE TypeOK'
  <2>1. phase[r] = "committed"
    BY <1>13 DEF Respond, Goes
  <2>2. Answer(r) \in Answers
    BY <2>1 DEF Answer, Answers, Carried, Inserted
  <2> QED BY <1>13, <2>2 DEF Respond, Goes, TypeOK
<1>14. ASSUME NEW r \in Requests, AnswerLost(r) PROVE TypeOK'
  BY <1>14 DEF AnswerLost, Goes, TypeOK
<1>15. CASE UNCHANGED vars
  BY <1>15 DEF vars, TypeOK
<1> QED
  BY <1>1, <1>2, <1>3, <1>4, <1>5, <1>6, <1>7, <1>8, <1>9, <1>10, <1>11, <1>12, <1>13,
     <1>14, <1>15 DEF Next

LEMMA KeysNext ==
  ASSUME TypeOK, Carried, Inserted, Keys, [Next]_vars
  PROVE  Keys'
<1> USE DEF tables, locals, Requests
<1>1. ASSUME NEW r \in Requests, NEW e \in Emails, CountUsers(r, e) PROVE Keys'
  BY <1>1 DEF CountUsers, Goes, TypeOK, Inserted, Keys, KeysAreUnique
<1>2. ASSUME NEW r \in Requests, NEW e \in Emails, FindUser(r, e) PROVE Keys'
  BY <1>2 DEF FindUser, Goes, TypeOK, Inserted, Keys, KeysAreUnique
<1>3. ASSUME NEW r \in Requests, NEW e \in Emails, NoSuchUser(r, e) PROVE Keys'
  BY <1>3 DEF NoSuchUser, Goes, TypeOK, Inserted, Keys, KeysAreUnique
<1>4. ASSUME NEW r \in Requests, NEW n \in Names, InsertPc(r, n) PROVE Keys'
  <2>1. r \in Creates /\ user[r] \in Users /\ phase[r] = "open"
    BY <1>4 DEF InsertPc, Goes, Carried
  <2>2. PICK pc : pc = [id |-> r, name |-> n, user_id |-> user[r].id]
    OBVIOUS
  <2>3. pc \in Pcs /\ pc.user_id = user[r].id /\ pc.name = n
    BY <2>1, <2>2 DEF Users, Pcs
  <2>4. row' = [row EXCEPT ![r] = pc] /\ phase' = [phase EXCEPT ![r] = "written"]
    BY <1>4, <2>2 DEF InsertPc, Goes
  <2>5. /\ \A p \in pcs : p.name # n
        /\ \A q \in Creates : phase[q] = "written" => row[q].name # n
        /\ UNCHANGED <<users, pcs>>
    BY <1>4 DEF InsertPc, NameFree
  <2>6. r \notin Registers
    BY <2>1, RequestsAssumption
  <2>7. KeysAreUnique'
    BY <2>5 DEF Keys, KeysAreUnique
  <2>8. ASSUME NEW s \in Creates, phase'[s] = "written"
        PROVE  /\ \A p \in pcs' : p.name # row'[s].name
               /\ \A q \in Creates :
                    phase'[q] = "written" /\ row'[q].name = row'[s].name => q = s
    BY <2>3, <2>4, <2>5, <2>8 DEF TypeOK, Keys
  <2>9. \A s \in Registers : row'[s] = row[s] /\ phase'[s] = phase[s]
    BY <2>4, <2>6 DEF TypeOK
  <2> QED BY <2>5, <2>7, <2>8, <2>9 DEF Keys
<1>5. ASSUME NEW r \in Requests, NEW n \in Names, NameInUse(r, n) PROVE Keys'
  BY <1>5 DEF NameInUse, Goes, TypeOK, Inserted, Keys, KeysAreUnique
<1>6. ASSUME NEW r \in Requests, InsertUser(r) PROVE Keys'
  <2>1. r \in Registers /\ row' = [row EXCEPT ![r] = user[r]]
        /\ phase' = [phase EXCEPT ![r] = "written"] /\ UNCHANGED <<users, pcs>>
    BY <1>6 DEF InsertUser, Goes
  <2>2. /\ \A u \in users : u.email # user[r].email
        /\ \A q \in Registers : phase[q] = "written" => row[q].email # user[r].email
    BY <1>6 DEF InsertUser, EmailFree
  <2>3. r \notin Creates
    BY <2>1, RequestsAssumption
  <2>4. KeysAreUnique'
    BY <2>1 DEF Keys, KeysAreUnique
  <2>5. ASSUME NEW s \in Registers, phase'[s] = "written"
        PROVE  /\ \A u \in users' : u.email # row'[s].email
               /\ \A q \in Registers :
                    phase'[q] = "written" /\ row'[q].email = row'[s].email => q = s
    BY <2>1, <2>2, <2>5 DEF TypeOK, Keys
  <2>6. \A s \in Creates : row'[s] = row[s] /\ phase'[s] = phase[s]
    BY <2>1, <2>3 DEF TypeOK
  <2> QED BY <2>1, <2>4, <2>5, <2>6 DEF Keys
<1>7. ASSUME NEW r \in Requests, UserExists(r) PROVE Keys'
  BY <1>7 DEF UserExists, Goes, TypeOK, Inserted, Keys, KeysAreUnique
<1>8. ASSUME NEW r \in Requests, Authorize(r) PROVE Keys'
  BY <1>8 DEF Authorize, Goes, TypeOK, Inserted, Keys, KeysAreUnique
<1>9. ASSUME NEW r \in Requests, RecordSuccess(r) PROVE Keys'
  <2>1. r \in Logins /\ UNCHANGED <<users, pcs>>
    BY <1>9 DEF RecordSuccess
  <2>2. \A s \in Registers \cup Creates : row'[s] = row[s] /\ phase'[s] = phase[s]
    BY <1>9, <2>1, RequestsAssumption DEF RecordSuccess, Goes, TypeOK
  <2> QED BY <2>1, <2>2 DEF Keys, KeysAreUnique
<1>10. ASSUME NEW r \in Requests, RecordFailure(r) PROVE Keys'
  BY <1>10 DEF RecordFailure, Goes, TypeOK, Inserted, Keys, KeysAreUnique
<1>11. ASSUME NEW r \in Requests, Commit(r) PROVE Keys'
  BY <1>11 DEF Commit, Goes, TypeOK, Inserted, Keys, KeysAreUnique
<1>12. ASSUME NEW r \in Requests, Rollback(r) PROVE Keys'
  BY <1>12 DEF Rollback, Goes, TypeOK, Inserted, Keys, KeysAreUnique
<1>13. ASSUME NEW r \in Requests, Respond(r) PROVE Keys'
  BY <1>13 DEF Respond, Goes, TypeOK, Inserted, Keys, KeysAreUnique
<1>14. ASSUME NEW r \in Requests, AnswerLost(r) PROVE Keys'
  BY <1>14 DEF AnswerLost, Goes, TypeOK, Inserted, Keys, KeysAreUnique
<1>15. CASE UNCHANGED vars
  BY <1>15 DEF vars, TypeOK, Inserted, Keys, KeysAreUnique
<1> QED
  BY <1>1, <1>2, <1>3, <1>4, <1>5, <1>6, <1>7, <1>8, <1>9, <1>10, <1>11, <1>12, <1>13,
     <1>14, <1>15 DEF Next

LEMMA AdminsNext ==
  ASSUME TypeOK, Carried, Inserted, Admins, [Next]_vars
  PROVE  Admins'
<1> USE DEF tables, locals, Requests
<1>1. ASSUME NEW r \in Requests, NEW e \in Emails, CountUsers(r, e) PROVE Admins'
  BY <1>1 DEF CountUsers, Goes, TypeOK, Carried, Inserted, Admins, SomeAdmin
<1>2. ASSUME NEW r \in Requests, NEW e \in Emails, FindUser(r, e) PROVE Admins'
  BY <1>2 DEF FindUser, Goes, TypeOK, Carried, Inserted, Admins, SomeAdmin
<1>3. ASSUME NEW r \in Requests, NEW e \in Emails, NoSuchUser(r, e) PROVE Admins'
  BY <1>3 DEF NoSuchUser, Goes, TypeOK, Carried, Inserted, Admins, SomeAdmin
<1>4. ASSUME NEW r \in Requests, NEW n \in Names, InsertPc(r, n) PROVE Admins'
  BY <1>4 DEF InsertPc, Goes, TypeOK, Carried, Inserted, Admins, SomeAdmin
<1>5. ASSUME NEW r \in Requests, NEW n \in Names, NameInUse(r, n) PROVE Admins'
  BY <1>5 DEF NameInUse, Goes, TypeOK, Carried, Inserted, Admins, SomeAdmin
<1>6. ASSUME NEW r \in Requests, InsertUser(r) PROVE Admins'
  BY <1>6 DEF InsertUser, Goes, TypeOK, Carried, Inserted, Admins, SomeAdmin
<1>7. ASSUME NEW r \in Requests, UserExists(r) PROVE Admins'
  BY <1>7 DEF UserExists, Goes, TypeOK, Carried, Inserted, Admins, SomeAdmin
<1>8. ASSUME NEW r \in Requests, Authorize(r) PROVE Admins'
  BY <1>8 DEF Authorize, Goes, TypeOK, Carried, Inserted, Admins, SomeAdmin
<1>9. ASSUME NEW r \in Requests, RecordSuccess(r) PROVE Admins'
  BY <1>9 DEF RecordSuccess, Goes, TypeOK, Carried, Inserted, Admins, SomeAdmin
<1>10. ASSUME NEW r \in Requests, RecordFailure(r) PROVE Admins'
  BY <1>10 DEF RecordFailure, Goes, TypeOK, Carried, Inserted, Admins, SomeAdmin
<1>11. ASSUME NEW r \in Requests, Commit(r) PROVE Admins'
  BY <1>11 DEF Commit, Goes, TypeOK, Carried, Inserted, Admins, SomeAdmin
<1>12. ASSUME NEW r \in Requests, Rollback(r) PROVE Admins'
  BY <1>12 DEF Rollback, Goes, TypeOK, Carried, Inserted, Admins, SomeAdmin
<1>13. ASSUME NEW r \in Requests, Respond(r) PROVE Admins'
  BY <1>13 DEF Respond, Goes, TypeOK, Carried, Inserted, Admins, SomeAdmin
<1>14. ASSUME NEW r \in Requests, AnswerLost(r) PROVE Admins'
  BY <1>14 DEF AnswerLost, Goes, TypeOK, Carried, Inserted, Admins, SomeAdmin
<1>15. CASE UNCHANGED vars
  BY <1>15 DEF vars, TypeOK, Carried, Inserted, Admins, SomeAdmin
<1> QED
  BY <1>1, <1>2, <1>3, <1>4, <1>5, <1>6, <1>7, <1>8, <1>9, <1>10, <1>11, <1>12, <1>13,
     <1>14, <1>15 DEF Next

LEMMA ToldNext ==
  ASSUME TypeOK, Carried, Inserted, Durable, Told, [Next]_vars
  PROVE  Told'
<1> USE DEF tables, locals, Requests
<1>1. ASSUME NEW r \in Requests, NEW e \in Emails, CountUsers(r, e) PROVE Told'
  BY <1>1 DEF CountUsers, Goes, TypeOK, Carried, Inserted, Durable, Told,
     AnswersAreCommitted, LoginsAreRecorded
<1>2. ASSUME NEW r \in Requests, NEW e \in Emails, FindUser(r, e) PROVE Told'
  BY <1>2 DEF FindUser, Goes, TypeOK, Carried, Inserted, Durable, Told,
     AnswersAreCommitted, LoginsAreRecorded
<1>3. ASSUME NEW r \in Requests, NEW e \in Emails, NoSuchUser(r, e) PROVE Told'
  BY <1>3 DEF NoSuchUser, Goes, TypeOK, Carried, Inserted, Durable, Told,
     AnswersAreCommitted, LoginsAreRecorded
<1>4. ASSUME NEW r \in Requests, NEW n \in Names, InsertPc(r, n) PROVE Told'
  BY <1>4 DEF InsertPc, Goes, TypeOK, Carried, Inserted, Durable, Told,
     AnswersAreCommitted, LoginsAreRecorded
<1>5. ASSUME NEW r \in Requests, NEW n \in Names, NameInUse(r, n) PROVE Told'
  BY <1>5 DEF NameInUse, Goes, TypeOK, Carried, Inserted, Durable, Told,
     AnswersAreCommitted, LoginsAreRecorded
<1>6. ASSUME NEW r \in Requests, InsertUser(r) PROVE Told'
  BY <1>6 DEF InsertUser, Goes, TypeOK, Carried, Inserted, Durable, Told,
     AnswersAreCommitted, LoginsAreRecorded
<1>7. ASSUME NEW r \in Requests, UserExists(r) PROVE Told'
  BY <1>7 DEF UserExists, Goes, TypeOK, Carried, Inserted, Durable, Told,
     AnswersAreCommitted, LoginsAreRecorded
<1>8. ASSUME NEW r \in Requests, Authorize(r) PROVE Told'
  BY <1>8 DEF Authorize, Goes, TypeOK, Carried, Inserted, Durable, Told,
     AnswersAreCommitted, LoginsAreRecorded
<1>9. ASSUME NEW r \in Requests, RecordSuccess(r) PROVE Told'
  BY <1>9 DEF RecordSuccess, Goes, TypeOK, Carried, Inserted, Durable, Told,
     AnswersAreCommitted, LoginsAreRecorded
<1>10. ASSUME NEW r \in Requests, RecordFailure(r) PROVE Told'
  BY <1>10 DEF RecordFailure, Goes, TypeOK, Carried, Inserted, Durable, Told,
     AnswersAreCommitted, LoginsAreRecorded
<1>11. ASSUME NEW r \in Requests, Commit(r) PROVE Told'
  <2>1. phase[r] = "written" /\ answer' = answer
    BY <1>11 DEF Commit, Goes
  <2>2. users \subseteq users' /\ loginrecords \subseteq loginrecords' /\ pcs \subseteq pcs'
    BY <1>11 DEF Commit
  <2>3. LoginsAreRecorded'
    BY <2>1, <2>2 DEF Told, LoginsAreRecorded
  <2>4. ASSUME NEW p \in pcs' PROVE \E u \in users' : u.id = p.user_id
    <3>1. CASE p \in pcs
      BY <2>2, <3>1 DEF Told, AnswersAreCommitted
    <3>2. CASE r \in Creates /\ p = row[r]
      <4>1. user[r] \in users /\ row[r].user_id = user[r].id
        BY <2>1, <3>2, RequestsAssumption DEF Carried, Inserted
      <4> QED BY <2>2, <3>2, <4>1
    <3> QED BY <1>11, <3>1, <3>2 DEF Commit
  <2>5. \A s \in Requests : answer'[s] \in users' \cup pcs' \cup {Nothing}
    BY <2>1, <2>2 DEF Told, AnswersAreCommitted
  <2> QED BY <2>3, <2>4, <2>5 DEF Told, AnswersAreCommitted
<1>12. ASSUME NEW r \in Requests, Rollback(r) PROVE Told'
  BY <1>12 DEF Rollback, Goes, TypeOK, Carried, Inserted, Durable, Told,
     AnswersAreCommitted, LoginsAreRecorded
<1>13. ASSUME NEW r \in Requests, Respond(r) PROVE Told'
  <2>1. /\ phase[r] = "committed" /\ UNCHANGED <<users, pcs, loginrecords>>
        /\ answer' = [answer EXCEPT ![r] = Answer(r)]
    BY <1>13 DEF Respond, Goes
  <2>2. Answer(r) \in users \cup pcs
    BY <2>1 DEF Answer, Carried, Inserted, Durable
  <2>3. AnswersAreCommitted'
    BY <2>1, <2>2 DEF TypeOK, Told, AnswersAreCommitted
  <2>4. ASSUME NEW s \in Logins, answer'[s] # Nothing
        PROVE  [id |-> s, user_id |-> answer'[s].id, success |-> TRUE] \in loginrecords
    <3>1. CASE s = r
      <4>1. answer'[s] = user[s]
        BY <2>1, <3>1, RequestsAssumption DEF TypeOK, Answer
      <4> QED BY <2>1, <3>1, <4>1 DEF Inserted, Durable
    <3>2. CASE s # r
      BY <2>1, <2>4, <3>2 DEF TypeOK, Told, LoginsAreRecorded
    <3> QED BY <3>1, <3>2
  <2> QED BY <2>1, <2>3, <2>4 DEF Told, LoginsAreRecorded
<1>14. ASSUME NEW r \in Requests, AnswerLost(r) PROVE Told'
  BY <1>14 DEF AnswerLost, Goes, TypeOK, Carried, Inserted, Durable, Told,
     AnswersAreCommitted, LoginsAreRecorded
<1>15. CASE UNCHANGED vars
  BY <1>15 DEF vars, TypeOK, Carried, Inserted, Durable, Told, AnswersAreCommitted,
     LoginsAreRecorded
<1> QED
  BY <1>1, <1>2, <1>3, <1>4, <1>5, <1>6, <1>7, <1>8, <1>9, <1>10, <1>11, <1>12, <1>13,
     <1>14, <1>15 DEF Next


LEMMA NextIInv == IInv /\ [Next]_vars => IInv'
<1> SUFFICES ASSUME IInv, [Next]_vars PROVE IInv'
  OBVIOUS
<1> USE DEF IInv
<1>1. TypeOK' /\ Carried' /\ Inserted' /\ Durable'
  BY TypeNext, CarriedNext, InsertedNext, DurableNext
<1>2. Keys' /\ Admins' /\ Told'
  BY KeysNext, AdminsNext, ToldNext
<1> QED BY <1>1, <1>2

-------------------------------------------------------------------------------
(* Theorems *)

\* The inductive invariant holds, for any requests and however they overlap.
THEOREM Invariant == Spec => []IInv
BY InitIInv, NextIInv, PTL DEF Spec

\* Every variable keeps its type.
THEOREM TypeCorrect == Spec => []TypeOK
<1>1. IInv => TypeOK
  BY DEF IInv
<1> QED BY <1>1, Invariant, PTL

\* An address has one account and a name one character.
THEOREM KeysCorrect == Spec => []KeysAreUnique
<1>1. IInv => KeysAreUnique
  BY DEF IInv, Keys
<1> QED BY <1>1, Invariant, PTL

\* A server that has users has an admin.
THEOREM AdminsCorrect == Spec => []SomeAdmin
<1>1. IInv => SomeAdmin
  BY DEF IInv, Admins
<1> QED BY <1>1, Invariant, PTL

\* The accounts and characters that clients are told of are committed.
THEOREM AnswersCorrect == Spec => []AnswersAreCommitted
<1>1. IInv => AnswersAreCommitted
  BY DEF IInv, Told
<1> QED BY <1>1, Invariant, PTL

\* No one gets tokens for a login that is not on record.
THEOREM LoginsCorrect == Spec => []LoginsAreRecorded
<1>1. IInv => LoginsAreRecorded
  BY DEF IInv, Told
<1> QED BY <1>1, Invariant, PTL
===============================================================================
