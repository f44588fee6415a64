------------------------------ MODULE UserCache -------------------------------
(***************************************************************************)
(* internal/app/features/users/user_store.go: users and their latest IP in *)
(* the database, both cached in Redis for an hour.  Readers fill the cache *)
(* on a miss; a login (Upsert) writes the database and deletes the cached  *)
(* copy twice, half a second apart (cache.KeyDelayDoubleDel), so that what *)
(* a reader read before the write and stored after it does not stay.       *)
(*                                                                         *)
(* One phone number; its user has a new id after each deletion.  A cached  *)
(* value or a row that is not there is Absent.                             *)
(***************************************************************************)
EXTENDS Naturals

CONSTANTS
    Readers, Logins, Ips, Absent,
    MaxUsers,       \* bound: ids the phone number is given
    StoreFaults     \* bound: commands to Redis that fail

ASSUME UserCacheAssumption == MaxUsers \in Nat

Ids == 1 .. MaxUsers

VARIABLES
    lastId,     \* the last id given to the phone number
    userRow,    \* database: the ids of users not deleted
    ipRow,      \* database: the latest IP of each id
    userKey,    \* Redis: the ids with a cached user
    ipKey,      \* Redis: the cached IP of each id
    reader,     \* GetSelfInfo in progress: where, for whom, what it has read
    login,      \* Upsert in progress
    deleting,   \* DeleteByID in progress: the row is deleted, the keys are not
    racing,     \* readers that had read an IP when a login began its pause
    storeFaults,
    unsettled   \* history: ids one of whose deletions failed

userVars == <<lastId, userRow, ipRow, userKey, ipKey, reader, login, deleting,
              racing, storeFaults, unsettled>>

UserInit ==
    /\ lastId = 0
    /\ userRow = {} /\ userKey = {} /\ deleting = {}
    /\ ipRow = [i \in Ids |-> Absent]
    /\ ipKey = [i \in Ids |-> Absent]
    /\ reader = [r \in Readers |-> [at |-> "idle", id |-> 0, ip |-> Absent]]
    /\ login = [w \in Logins |-> [at |-> "idle", id |-> 0, ip |-> Absent]]
    /\ racing = [w \in Logins |-> {}]
    /\ storeFaults = 0
    /\ unsettled = {}

-----------------------------------------------------------------------------
(* GetSelfInfo: GetByID, then GetLatestIP.                                  *)
ReaderAt(r, at) == reader' = [reader EXCEPT ![r].at = at]

database == <<lastId, userRow, ipRow>>
writers == <<login, deleting, storeFaults, unsettled>>
others == <<writers, racing>>

(* The id comes from the claims of a token that may outlive the user.       *)
GetByID(r) ==
    /\ reader[r].at = "idle"
    /\ \E i \in 1 .. lastId :
       reader' = [reader EXCEPT ![r].id = i,
                       ![r].at = IF i \in userKey THEN "ip" ELSE "user"]
    /\ UNCHANGED <<database, userKey, ipKey, others>>

(* On a miss the row is selected, and no row is answered with 401.          *)
SelectUser(r) ==
    /\ reader[r].at = "user"
    /\ ReaderAt(r, IF reader[r].id \in userRow THEN "setUser" ELSE "idle")
    /\ UNCHANGED <<database, userKey, ipKey, others>>

SetUser(r) ==
    /\ reader[r].at = "setUser"
    /\ userKey' = userKey \cup {reader[r].id}
    /\ ReaderAt(r, "ip")
    /\ UNCHANGED <<database, ipKey, others>>

GetLatestIP(r) ==
    /\ reader[r].at = "ip"
    /\ ReaderAt(r, IF ipKey[reader[r].id] = Absent THEN "select" ELSE "idle")
    /\ UNCHANGED <<database, userKey, ipKey, others>>

SelectIP(r) ==
    /\ reader[r].at = "select"
    /\ LET ip == ipRow[reader[r].id] IN
       reader' = [reader EXCEPT ![r].at = IF ip = Absent THEN "idle" ELSE "setIP",
                                ![r].ip = ip]
    /\ UNCHANGED <<database, userKey, ipKey, others>>

SetIP(r) ==
    /\ reader[r].at = "setIP"
    /\ ipKey' = [ipKey EXCEPT ![reader[r].id] = reader[r].ip]
    /\ reader' = [reader EXCEPT ![r] = [at |-> "idle", id |-> 0, ip |-> Absent]]
    /\ racing' = [w \in Logins |-> racing[w] \ {r}]
    /\ UNCHANGED <<database, userKey, writers>>

-----------------------------------------------------------------------------
(* Upsert.                                                                  *)
cached == <<userKey, ipKey, reader>>

LoginAt(w, at) == login' = [login EXCEPT ![w].at = at]

(* The insert fails if the phone number has a user; otherwise the user gets *)
(* a new id.                                                                *)
Insert(w) ==
    /\ login[w].at = "idle"
    /\ \/ userRow # {} /\ UNCHANGED <<lastId, userRow>>
       \/ /\ userRow = {} /\ lastId < MaxUsers
          /\ lastId' = lastId + 1
          /\ userRow' = {lastId'}
    /\ \E ip \in Ips : login' = [login EXCEPT ![w] = [at |-> "read", id |-> 0, ip |-> ip]]
    /\ UNCHANGED <<ipRow, cached, deleting, racing, storeFaults, unsettled>>

ReadBack(w) ==
    /\ login[w].at = "read"
    /\ \/ \E i \in userRow :
             login' = [login EXCEPT ![w].at = "delUser", ![w].id = i]
       \/ userRow = {} /\ LoginAt(w, "idle")
    /\ UNCHANGED <<database, cached, deleting, racing, storeFaults, unsettled>>

(* KeyDelayDoubleDel: with an error of the first Del the second is left out. *)
DelFails == storeFaults < StoreFaults /\ storeFaults' = storeFaults + 1

(* The user's key: the pause of half a second outlasts nothing that matters *)
(* here, as Upsert does not change an existing row.                         *)
DelUser(w) ==
    /\ login[w].at \in {"delUser", "delUser2"}
    /\ \/ /\ userKey' = userKey \ {login[w].id}
          /\ LoginAt(w, IF login[w].at = "delUser" THEN "delUser2" ELSE "upsertIP")
          /\ UNCHANGED storeFaults
       \/ DelFails /\ LoginAt(w, "upsertIP") /\ UNCHANGED userKey
    /\ UNCHANGED <<database, ipKey, reader, deleting, racing, unsettled>>

UpsertLatestIP(w) ==
    /\ login[w].at = "upsertIP"
    /\ ipRow' = [ipRow EXCEPT ![login[w].id] = login[w].ip]
    /\ LoginAt(w, "delIP")
    /\ UNCHANGED <<lastId, userRow, cached, deleting, racing, storeFaults, unsettled>>

(* Mutant: the key is deleted once.                                         *)
DelIPOnce(w) ==
    /\ login[w].at = "delIP"
    /\ ipKey' = [ipKey EXCEPT ![login[w].id] = Absent]
    /\ LoginAt(w, "idle")
    /\ UNCHANGED <<database, userKey, reader, deleting, racing, storeFaults, unsettled>>

DelIP(w) ==
    /\ login[w].at = "delIP"
    /\ \/ /\ ipKey' = [ipKey EXCEPT ![login[w].id] = Absent]
          /\ racing' = [racing EXCEPT ![w] = {r \in Readers : reader[r].at = "setIP"}]
          /\ LoginAt(w, "pause")
          /\ UNCHANGED <<storeFaults, unsettled>>
       \/ /\ DelFails
          /\ unsettled' = unsettled \cup {login[w].id}
          /\ LoginAt(w, "idle")
          /\ UNCHANGED <<ipKey, racing>>
    /\ UNCHANGED <<database, userKey, reader, deleting>>

(* After the pause.  A reader takes less than that from its select to its   *)
(* set: those that raced with the first Del are done.                       *)
DelIP2(w) ==
    /\ login[w].at = "pause"
    /\ racing[w] = {}
    /\ \/ /\ ipKey' = [ipKey EXCEPT ![login[w].id] = Absent]
          /\ UNCHANGED <<storeFaults, unsettled>>
       \/ /\ DelFails
          /\ unsettled' = unsettled \cup {login[w].id}
          /\ UNCHANGED ipKey
    /\ LoginAt(w, "idle")
    /\ UNCHANGED <<database, userKey, reader, deleting, racing>>

-----------------------------------------------------------------------------
(* DeleteByID removes the user's row and both keys, in two steps; the row   *)
(* with the IP stays.                                                       *)
DeleteByID(i) ==
    /\ i \in userRow
    /\ userRow' = userRow \ {i}
    /\ deleting' = deleting \cup {i}
    /\ UNCHANGED <<lastId, ipRow, cached, login, racing, storeFaults, unsettled>>

KeyDel(i) ==
    /\ i \in deleting
    /\ deleting' = deleting \ {i}
    /\ \/ /\ userKey' = userKey \ {i}
          /\ ipKey' = [ipKey EXCEPT ![i] = Absent]
          /\ UNCHANGED storeFaults
       \/ DelFails /\ UNCHANGED <<userKey, ipKey>>
    /\ UNCHANGED <<database, reader, login, racing, unsettled>>

(* External: the keys live for an hour.                                     *)
CacheExpires(i) ==
    /\ \/ userKey' = userKey \ {i} /\ i \in userKey /\ UNCHANGED ipKey
       \/ ipKey' = [ipKey EXCEPT ![i] = Absent] /\ ipKey[i] # Absent /\ UNCHANGED userKey
    /\ UNCHANGED <<database, reader, others>>

UserNext ==
    \/ \E r \in Readers : \/ GetByID(r) \/ SelectUser(r) \/ SetUser(r)
                          \/ GetLatestIP(r) \/ SelectIP(r) \/ SetIP(r)
    \/ \E w \in Logins : \/ Insert(w) \/ ReadBack(w) \/ DelUser(w)
                         \/ UpsertLatestIP(w) \/ DelIP(w) \/ DelIP2(w)
    \/ \E i \in Ids : DeleteByID(i) \/ KeyDel(i) \/ CacheExpires(i)

-----------------------------------------------------------------------------
(* Between logins, the cached IP of a user is the one in the database,      *)
(* however readers and other logins raced with the writes: as long as a     *)
(* reader is faster than the pause and no Del failed.                       *)
FreshIP ==
    \A i \in Ids \ unsettled :
        (\A w \in Logins : login[w].id = i => login[w].at \notin {"delIP", "pause"})
        => ipKey[i] \in {Absent, ipRow[i]}
=============================================================================
