------------------------------ MODULE Accounts ------------------------------
(***************************************************************************)
(* Accounts and sessions (server/src/auth.rs): registration against the    *)
(* file users.json, login with its back-off, bearer tokens in memory,      *)
(* restart.                                                                *)
(*                                                                         *)
(* register runs under the store's lock, the write and rename of the file  *)
(* included; a login takes three locks one after the other.  A password is *)
(* the right or a wrong one.  What register refuses at once (a name or a   *)
(* password out of shape) is left out.                                     *)
(***************************************************************************)
EXTENDS Naturals, FiniteSets

CONSTANTS
  Names,         \* user names
  MaxUsers,      \* MAX_USERS
  Doors,         \* the threads that serve logins
  MaxTokens,     \* tokens issued (bounds the model)
  MaxBoots,      \* restarts (bounds the model)
  MaxTries       \* failed logins of a name until the back-off is over (bounds the model)

ASSUME AccountsAssumption ==
  /\ MaxUsers \in Nat /\ MaxTokens \in Nat /\ MaxBoots \in Nat /\ MaxTries \in Nat
  /\ IsFiniteSet(Doors)

VARIABLES
  store,      \* UserStore, in memory
  file,       \* users.json
  written,    \* users.json.tmp: written and not yet renamed, by a register under way
  sessions,   \* Sessions.map
  tokens,     \* tokens issued so far
  failing,    \* names whose last failure is less than LOGIN_BACKOFF ago
  tries,      \* history: failed logins of a name since it last was not failing
  door,       \* what each login is at
  promised,   \* history: names whose registration was acknowledged
  misread,    \* history: a start could not read the file
  boots

accountVars == <<store, file, written, sessions, tokens, failing, tries, door, promised,
                 misread, boots>>

NoFileYet == {}
Nothing == [names |-> {}, by |-> "nobody"]
Outside == [at |-> "out"]

AccountsInit ==
  /\ store = {} /\ file = NoFileYet /\ written = Nothing
  /\ sessions = {} /\ tokens = 0
  /\ failing = {} /\ tries = [n \in Names |-> 0]
  /\ door = [d \in Doors |-> Outside]
  /\ promised = {} /\ misread = FALSE /\ boots = 0

\* The store's lock is held by a registration.
Registering == written.by # "nobody"

\* register: taken names and a full store are refused; the account is pushed, then
\* the new store is written beside the file.
Register(n) ==
  /\ ~Registering
  /\ n \notin store /\ Cardinality(store) < MaxUsers
  /\ store' = store \cup {n}
  /\ written' = [names |-> store \cup {n}, by |-> n]
  /\ UNCHANGED <<file, sessions, tokens, failing, tries, door, promised, misread, boots>>

\* persist, its rename: acknowledged.
Rename ==
  /\ Registering
  /\ file' = written.names
  /\ promised' = promised \cup {written.by}
  /\ written' = Nothing
  /\ UNCHANGED <<store, sessions, tokens, failing, tries, door, misread, boots>>

\* Mutant: acknowledged all the same.
PersistIgnored ==
  /\ Registering
  /\ promised' = promised \cup {written.by}
  /\ written' = Nothing
  /\ UNCHANGED <<store, file, sessions, tokens, failing, tries, door, misread, boots>>

\* persist fails, at the write or at the rename: refused, and the account stays.
PersistRefused ==
  /\ Registering
  /\ written' = Nothing
  /\ UNCHANGED <<store, file, sessions, tokens, failing, tries, door, promised, misread, boots>>

\* Mutant: no back-off.
EnterAlways(d, n) ==
  /\ door[d] = Outside
  /\ door' = [door EXCEPT ![d] = [at |-> "record", name |-> n]]
  /\ UNCHANGED <<store, file, written, sessions, tokens, failing, tries, promised, misread, boots>>

\* login, first section: the back-off.
Enter(d, n) ==
  /\ door[d] = Outside /\ n \notin failing
  /\ door' = [door EXCEPT ![d] = [at |-> "record", name |-> n]]
  /\ UNCHANGED <<store, file, written, sessions, tokens, failing, tries, promised, misread, boots>>

\* login, second section, and the password.
Check(d, right) ==
  /\ door[d].at = "record" /\ ~Registering
  /\ LET n == door[d].name
     IN  door' = [door EXCEPT ![d] =
                    [at |-> IF right /\ n \in store THEN "grant" ELSE "fail", name |-> n]]
  /\ UNCHANGED <<store, file, written, sessions, tokens, failing, tries, promised, misread, boots>>

\* login, third section: the failure is noted,
Fail(d) ==
  /\ door[d].at = "fail" /\ tries[door[d].name] < MaxTries
  /\ failing' = failing \cup {door[d].name}
  /\ tries' = [tries EXCEPT ![door[d].name] = @ + 1]
  /\ door' = [door EXCEPT ![d] = Outside]
  /\ UNCHANGED <<store, file, written, sessions, tokens, promised, misread, boots>>

\* or a token is issued.
Grant(d) ==
  /\ door[d].at = "grant" /\ tokens < MaxTokens
  /\ tokens' = tokens + 1
  /\ sessions' = sessions \cup {[token |-> tokens + 1, name |-> door[d].name]}
  /\ door' = [door EXCEPT ![d] = Outside]
  /\ UNCHANGED <<store, file, written, failing, tries, promised, misread, boots>>

\* LOGIN_BACKOFF is over.
BackoffEnds(n) ==
  /\ n \in failing
  /\ failing' = failing \ {n}
  /\ tries' = [tries EXCEPT ![n] = 0]
  /\ UNCHANGED <<store, file, written, sessions, tokens, door, promised, misread, boots>>

\* auth_logout, with the token in the header.
Logout(s) ==
  /\ s \in sessions
  /\ sessions' = sessions \ {s}
  /\ UNCHANGED <<store, file, written, tokens, failing, tries, door, promised, misread, boots>>

\* Mutant: sessions outlive the process.
BootKeepsSessions(readable) ==
  /\ boots < MaxBoots
  /\ boots' = boots + 1
  /\ store' = IF readable THEN file ELSE {}
  /\ misread' = (misread \/ (~readable /\ file # {}))
  /\ written' = Nothing
  /\ failing' = {} /\ tries' = [n \in Names |-> 0]
  /\ door' = [d \in Doors |-> Outside]
  /\ UNCHANGED <<file, sessions, tokens, promised>>

\* The process stops at any step and starts again: load takes an unreadable file
\* for an empty one.
Boot(readable) ==
  /\ boots < MaxBoots
  /\ boots' = boots + 1
  /\ store' = IF readable THEN file ELSE {}
  /\ misread' = (misread \/ (~readable /\ file # {}))
  /\ written' = Nothing /\ sessions' = {}
  /\ failing' = {} /\ tries' = [n \in Names |-> 0]
  /\ door' = [d \in Doors |-> Outside]
  /\ UNCHANGED <<file, tokens, promised>>

AccountsNext ==
  \/ \E n \in Names : Register(n) \/ BackoffEnds(n) \/ \E d \in Doors : Enter(d, n)
  \/ Rename \/ PersistRefused
  \/ \E d \in Doors : Fail(d) \/ Grant(d) \/ \E right \in BOOLEAN : Check(d, right)
  \/ \E s \in sessions : Logout(s)
  \/ \E readable \in BOOLEAN : Boot(readable)

AccountsSpec == AccountsInit /\ [][AccountsNext]_accountVars

-----------------------------------------------------------------------------
\* "Accounts are durable": an acknowledged registration is in the file and can
\* log in, through refused registrations and crashes at any step - unless a
\* start once misread the file.
AccountsSurvive == ~misread => promised \subseteq file /\ file \subseteq store

\* A session is of an account of this process, also when the registration was
\* refused or forgotten by a restart.
SessionsHaveAccounts == \A s \in sessions : s.name \in store

\* The back-off is checked before the password and set after it: until it is
\* over, no more logins of a name fail than there are threads.
BackoffHolds == \A n \in Names : tries[n] <= Cardinality(Doors)
=============================================================================
