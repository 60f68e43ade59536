------------------------------- MODULE Accounts -------------------------------
(***************************************************************************)
(* Login codes and model profiles (auth_service.py).                       *)
(*                                                                         *)
(* A login code is looked up, compared and consumed; a profile list seeds  *)
(* itself when it is empty and keeps one default.  As in UserRows, each    *)
(* query before a request's first write reads at a moment of its own, and  *)
(* the writes up to a commit are one transaction.  An update writes only   *)
(* the columns it changed with respect to what it had read, and fails when *)
(* its row is gone; a delete of a row that is gone does nothing.           *)
(*                                                                         *)
(* The profiles are those of one user.  A profile is looked up by its id,  *)
(* among the user's own first and then among everybody's, while the bulk   *)
(* updates and the choice of a successor go by the user who asks: so       *)
(* another user's request can change a row of these, and this user's       *)
(* request a row of another.                                               *)
(***************************************************************************)
EXTENDS Integers, FiniteSets, Sequences

CONSTANTS
    Clients,      \* the requests that can be served at the same time
    MaxCodes,     \* bound: codes sent
    MaxProfiles   \* bound: profiles ever created

ASSUME ClientsAssumption == IsFiniteSet(Clients) /\ Clients # {}
ASSUME AccountBounds == MaxCodes \in Nat /\ MaxProfiles \in Nat

VARIABLES
    codes,      \* the codes sent to one address, oldest first
    known,      \* is there a user with this address?
    login,      \* what each client's verification is doing
    preset,     \* what an empty list is seeded with: the defaults of its rows
    profiles,   \* one user's profiles; ids in the order of creation
    lastId,     \* the newest id
    edit        \* what each client's profile request is doing

codeVars == <<codes, known, login>>
profileVars == <<profiles, lastId, edit>>

-----------------------------------------------------------------------------
(* Login codes.                                                            *)

NoLogin == [at |-> "idle", code |-> 0, knew |-> FALSE]

\* Mutant: an older code stays open.
CodeSentBeside ==
    /\ Len(codes) < MaxCodes
    /\ codes' = Append(codes, [open |-> TRUE, expired |-> FALSE, used |-> 0])
    /\ UNCHANGED <<known, login>>

\* upsert_login_code: every open code is consumed, a new one inserted.
SendCode ==
    /\ Len(codes) < MaxCodes
    /\ codes' = Append([i \in DOMAIN codes |-> [codes[i] EXCEPT !.open = FALSE]],
                       [open |-> TRUE, expired |-> FALSE, used |-> 0])
    /\ UNCHANGED <<known, login>>

\* Ten minutes pass; older codes have expired before.
Expire(n) ==
    /\ codes[n].expired = FALSE
    /\ codes' = [i \in DOMAIN codes |->
                    IF i <= n THEN [codes[i] EXCEPT !.expired = TRUE] ELSE codes[i]]
    /\ UNCHANGED <<known, login>>

Open == {n \in DOMAIN codes : codes[n].open}

\* verify_login_code with code n: the newest open code is read; it must not
\* have expired, and be this one.
LookUp(s, n) ==
    /\ login[s] = NoLogin
    /\ n \in Open /\ \A m \in Open : m <= n
    /\ ~codes[n].expired
    /\ login' = [login EXCEPT ![s] = [NoLogin EXCEPT !.at = "user", !.code = n]]
    /\ UNCHANGED <<codes, known>>

FindUser(s) ==
    /\ login[s].at = "user"
    /\ login' = [login EXCEPT ![s].at = "accept", ![s].knew = known]
    /\ UNCHANGED <<codes, known>>

\* Mutant: the code is not consumed.
AcceptAgain(s) ==
    /\ login[s].at = "accept"
    /\ known' = TRUE
    /\ codes' = [codes EXCEPT ![login[s].code].used = @ + 1]
    /\ login' = [login EXCEPT ![s] = NoLogin]

\* The code is consumed and the user stored.  Two first logins at once insert
\* the same address: the second fails as a whole.
Accept(s) ==
    /\ login[s].at = "accept"
    /\ known' = TRUE
    /\ IF known /\ ~login[s].knew THEN UNCHANGED codes
       ELSE codes' = [codes EXCEPT ![login[s].code].used = @ + 1,
                                   ![login[s].code].open = FALSE]
    /\ login' = [login EXCEPT ![s] = NoLogin]

-----------------------------------------------------------------------------
(* Model profiles.                                                         *)

Foreign == 0   \* the id of a profile that is another user's
NoEdit == [at |-> "idle", id |-> Foreign, was |-> FALSE, to |-> FALSE,
           mine |-> TRUE]
Edits(s, e) == edit' = [edit EXCEPT ![s] = e]
\* Mutant: the old default stays when another profile is made the default.
KeptDefaults == profiles

\* The bulk update that comes before a new default.
Cleared == {[p EXCEPT !.def = FALSE] : p \in profiles}
Ids == {p.id : p \in profiles}
Others(id) == {p \in profiles : p.id # id}
IsDefault(id) == \E p \in profiles : p.id = id /\ p.def
Fits(n) == lastId + n <= MaxProfiles

\* list_user_llm_profiles: rows are returned as they are; an empty list is
\* seeded, from the user's old settings, another user's rows or the
\* environment.
List(s) ==
    /\ edit[s] = NoEdit
    /\ profiles = {} /\ preset # <<>>
    /\ Edits(s, [NoEdit EXCEPT !.at = "seed"])
    /\ UNCHANGED <<profiles, lastId>>

Seed(s) ==
    /\ edit[s].at = "seed" /\ Fits(Len(preset))
    /\ profiles' = profiles \cup
          {[id |-> lastId + i, def |-> preset[i]] : i \in DOMAIN preset}
    /\ lastId' = lastId + Len(preset)
    /\ Edits(s, NoEdit)

\* create_user_llm_profile: the first one is the default.
CountProfiles(s, wanted) ==
    /\ edit[s] = NoEdit
    /\ Edits(s, [NoEdit EXCEPT !.at = "create", !.to = wanted \/ profiles = {}])
    /\ UNCHANGED <<profiles, lastId>>

Create(s) ==
    /\ edit[s].at = "create" /\ Fits(1)
    /\ lastId' = lastId + 1
    /\ profiles' = (IF edit[s].to THEN Cleared ELSE profiles) \cup
          {[id |-> lastId', def |-> edit[s].to]}
    /\ Edits(s, NoEdit)

\* get_user_llm_profile, which update, delete and set_default begin with: a
\* request of this user (mine) finds one of the profiles or another user's, a
\* request of another user one of these.
Find(s, id, what, to, mine) ==
    /\ edit[s] = NoEdit
    /\ id \in Ids \/ (mine /\ id = Foreign)
    /\ what # "update" => ~to
    /\ \E was \in BOOLEAN :
          /\ id \in Ids => was = IsDefault(id)
          /\ Edits(s, [at |-> what, id |-> id, was |-> was, to |-> to,
                       mine |-> mine])
    /\ UNCHANGED <<profiles, lastId>>

\* One transaction: this profile is given its is_default, and the others of
\* the user who asks lose theirs where one is chosen (clears).  It fails as a
\* whole when the profile is gone; another user's may be.
Sets(id, def, clears) ==
    \/ /\ id \in Ids \cup {Foreign}
       /\ profiles' = {[p EXCEPT !.def = IF p.id = id THEN def
                                         ELSE p.def /\ ~clears] : p \in profiles}
    \/ id \notin Ids /\ UNCHANGED profiles

\* update_user_llm_profile: is_default is written if it differs from what was
\* read.
Update(s) ==
    LET e == edit[s]
        def == IF e.to = e.was THEN IsDefault(e.id) ELSE e.to
    IN
    /\ e.at = "update"
    /\ Sets(e.id, def, e.mine /\ e.to)
    /\ Edits(s, NoEdit)
    /\ UNCHANGED lastId

\* set_default_user_llm_profile: the bulk update takes in the profile itself
\* if it is the user's own, so that its is_default is written in any case.
SetDefault(s) ==
    LET e == edit[s] IN
    /\ e.at = "default"
    /\ Sets(e.id, e.mine \/ ~e.was \/ IsDefault(e.id), e.mine)
    /\ Edits(s, NoEdit)
    /\ UNCHANGED lastId

\* delete_user_llm_profile: the deletion is committed; a deleted default has
\* its successor chosen after that, in a second transaction, among the profiles
\* of the user who asked.
Delete(s) ==
    /\ edit[s].at = "delete"
    /\ profiles' = Others(edit[s].id)
    /\ Edits(s, IF edit[s].was /\ edit[s].mine
                THEN [NoEdit EXCEPT !.at = "choose"] ELSE NoEdit)
    /\ UNCHANGED lastId

\* The oldest one left.
ChooseNext(s) ==
    /\ edit[s].at = "choose"
    /\ IF profiles = {} THEN Edits(s, NoEdit)
       ELSE \E id \in Ids :
              /\ \A other \in Ids : id <= other
              /\ Edits(s, IF IsDefault(id) THEN NoEdit
                          ELSE [NoEdit EXCEPT !.at = "promote", !.id = id])
    /\ UNCHANGED <<profiles, lastId>>

Promote(s) ==
    /\ edit[s].at = "promote"
    /\ profiles' = {[p EXCEPT !.def = p.def \/ p.id = edit[s].id] : p \in profiles}
    /\ Edits(s, NoEdit)
    /\ UNCHANGED lastId

-----------------------------------------------------------------------------
AccountsInit ==
    /\ codes = <<>> /\ known \in BOOLEAN
    /\ login = [s \in Clients |-> NoLogin]
    /\ preset \in {<<>>, <<TRUE>>, <<FALSE, TRUE>>}
    /\ profiles = {} /\ lastId = 0
    /\ edit = [s \in Clients |-> NoEdit]

CodesNext ==
    \/ SendCode
    \/ \E n \in DOMAIN codes : Expire(n)
    \/ \E s \in Clients :
          \/ \E n \in DOMAIN codes : LookUp(s, n)
          \/ FindUser(s) \/ Accept(s)

ProfileStep(s) ==
    \/ List(s) \/ Seed(s)
    \/ \E wanted \in BOOLEAN : CountProfiles(s, wanted)
    \/ Create(s)
    \/ \E id \in Ids \cup {Foreign}, what \in {"update", "default", "delete"},
          to, mine \in BOOLEAN : Find(s, id, what, to, mine)
    \/ Update(s) \/ SetDefault(s) \/ Delete(s) \/ ChooseNext(s) \/ Promote(s)

ProfilesNext == UNCHANGED preset /\ \E s \in Clients : ProfileStep(s)

-----------------------------------------------------------------------------
(* Properties.                                                             *)

AccountsTypeOK ==
    /\ codes \in Seq([open : BOOLEAN, expired : BOOLEAN,
                      used : 0..Cardinality(Clients)])
    /\ Len(codes) <= MaxCodes
    /\ known \in BOOLEAN
    /\ login \in [Clients -> [at : {"idle", "user", "accept"}, code : 0..MaxCodes,
                              knew : BOOLEAN]]
    /\ preset \in {<<>>, <<TRUE>>, <<FALSE, TRUE>>}
    /\ lastId \in 0..MaxProfiles
    /\ profiles \subseteq [id : 1..lastId, def : BOOLEAN]
    /\ edit \in [Clients ->
          [at : {"idle", "seed", "create", "update", "default", "delete",
                 "choose", "promote"},
           id : 0..lastId, was : BOOLEAN, to : BOOLEAN, mine : BOOLEAN]]

Holders(n) == {s \in Clients : login[s].at # "idle" /\ login[s].code = n}

\* At most the newest code of an address is open, and a code logs in only the
\* requests that had looked it up before the first of them consumed it.
CodesHold ==
    /\ \A n \in Open : n = Len(codes)
    /\ \A n \in DOMAIN codes :
          /\ codes[n].used + Cardinality(Holders(n)) <= Cardinality(Clients)
          /\ codes[n].used > 0 => ~codes[n].open

Defaults == Cardinality({p \in profiles : p.def})

\* Where no list that is copied has two defaults itself, a user comes to have
\* more than one default profile in three ways only: a list is seeded that
\* another first listing has seeded meanwhile; a deletion promotes its successor
\* although there is a default, because somebody has just chosen one or because
\* the profile deleted was another user's; or another user's request makes one
\* of these profiles a default, which takes it from none of the others.
DefaultsMultiply ==
    /\ Defaults' > 1 /\ Defaults' > Defaults
    => \E s \in Clients :
          /\ edit'[s] = NoEdit
          /\ \/ edit[s].at = "seed" /\ profiles # {}
             \/ edit[s].at = "promote" /\ Defaults > 0
             \/ edit[s].at \in {"update", "default"} /\ ~edit[s].mine
=============================================================================
