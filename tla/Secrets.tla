------------------------------ MODULE Secrets ------------------------------
(***************************************************************************)
(* A user's secrets: the hub's table (hub/secrets/service.py), the push of *)
(* the whole table when the VM is woken (hub/secrets/push.py) and the      *)
(* user-server's cache (llm/secrets_cache.py), which a start of an agent   *)
(* reads.  Encryption is left out: a value is its version number.          *)
(***************************************************************************)
EXTENDS Naturals, FiniteSets

CONSTANTS
  Keys,         \* key names
  EnvKeys,      \* those the hub has in its own environment
  SecretCalls,  \* request slots of the hub
  NoSecretCall, NoPush,
  MaxPuts       \* bound on the puts

ASSUME SecretsAssumption == EnvKeys \subseteq Keys /\ MaxPuts \in Nat

VARIABLES
  secretRows,  \* user_secrets: rows by id, the number of the put that made them
  putsMade,    \* puts so far; the value of a put is its number
  secretCall,  \* the requests under way
  pushed,      \* the push under way: what it read
  vmCache,     \* the user-server's cache
  vmUp,        \* the VM runs
  snapshots,   \* history: what the table held when the VM's last push read it
  doubled      \* history: keys two puts of which overlapped

secretsVars == <<secretRows, putsMade, secretCall, pushed, vmCache, vmUp, snapshots, doubled>>
NoSecretRow == [key |-> "none"]
PutIds == 1..MaxPuts
SecretRow == [key : Keys, value : PutIds]
EnvValue == 0
Payloads == UNION {[ks -> {EnvValue} \cup PutIds] : ks \in SUBSET Keys}
SecretCall == [op : {"put", "delete"}, key : Keys, row : {0} \cup PutIds]

SecretsTypeOK ==
  /\ secretRows \in [PutIds -> SecretRow \cup {NoSecretRow}]
  /\ putsMade \in 0..MaxPuts
  /\ secretCall \in [SecretCalls -> SecretCall \cup {NoSecretCall}]
  /\ pushed \in Payloads \cup {NoPush}
  /\ vmCache \in Payloads
  /\ vmUp \in BOOLEAN
  /\ snapshots \subseteq Payloads
  /\ doubled \subseteq Keys

SecretsInit ==
  /\ secretRows = [i \in PutIds |-> NoSecretRow]
  /\ putsMade = 0
  /\ secretCall = [c \in SecretCalls |-> NoSecretCall]
  /\ pushed = NoPush
  /\ vmCache = [k \in {} |-> 0]
  /\ vmUp = FALSE
  /\ snapshots = {}
  /\ doubled = {}

RowsOf(k) == {i \in PutIds : secretRows[i] # NoSecretRow /\ secretRows[i].key = k}

\* put_secret and delete_secret look the row up: two rows are an error.
SecretCallLoads(c, op, k) ==
  /\ secretCall[c] = NoSecretCall
  /\ Cardinality(RowsOf(k)) <= 1
  /\ secretCall' = [secretCall EXCEPT ![c] =
       [op |-> op, key |-> k, row |-> IF RowsOf(k) = {} THEN 0 ELSE CHOOSE i \in RowsOf(k) : TRUE]]
  /\ doubled' = IF \E d \in SecretCalls : secretCall[d] # NoSecretCall /\ secretCall[d].key = k
                THEN doubled \cup {k} ELSE doubled
  /\ UNCHANGED <<secretRows, putsMade, pushed, vmCache, vmUp, snapshots>>

\* The row found is updated (an error if it has been deleted since), else one is
\* inserted: no constraint keeps a second one out.
PutCommits(c) ==
  LET row == secretCall[c].row
      value == [key |-> secretCall[c].key, value |-> putsMade + 1] IN
  /\ secretCall[c] # NoSecretCall /\ secretCall[c].op = "put" /\ putsMade < MaxPuts
  /\ putsMade' = putsMade + 1
  /\ secretRows' = IF row = 0 THEN [secretRows EXCEPT ![putsMade'] = value]
                   ELSE IF secretRows[row] # NoSecretRow THEN [secretRows EXCEPT ![row] = value]
                   ELSE secretRows
  /\ secretCall' = [secretCall EXCEPT ![c] = NoSecretCall]
  /\ UNCHANGED <<pushed, vmCache, vmUp, snapshots, doubled>>

DeleteSecretCommits(c) ==
  LET row == secretCall[c].row IN
  /\ secretCall[c] # NoSecretCall /\ secretCall[c].op = "delete"
  /\ secretRows' = IF row = 0 THEN secretRows ELSE [secretRows EXCEPT ![row] = NoSecretRow]
  /\ secretCall' = [secretCall EXCEPT ![c] = NoSecretCall]
  /\ UNCHANGED <<putsMade, pushed, vmCache, vmUp, snapshots, doubled>>

SecretCallFails(c) ==
  /\ secretCall[c] # NoSecretCall
  /\ secretCall' = [secretCall EXCEPT ![c] = NoSecretCall]
  /\ UNCHANGED <<secretRows, putsMade, pushed, vmCache, vmUp, snapshots, doubled>>

\* The payload: one of the rows of each key (the last the query returns), in no order
\* the code asks for, and then the hub's own keys.  A row that cannot be decrypted (the
\* hub's KEK is not the one it was written with) is skipped.
Payload(read, legible) ==
  [k \in {j \in Keys : RowsOf(j) \cap legible # {}} \cup EnvKeys |->
     IF k \in EnvKeys THEN EnvValue ELSE secretRows[read[k]].value]

\* push: the rows are read; wake() holds the user's lock, so one push at a time.
PushReads ==
  /\ ~vmUp /\ pushed = NoPush
  /\ \E legible \in SUBSET PutIds, read \in [Keys -> PutIds] :
       /\ \A k \in Keys : LET rows == RowsOf(k) \cap legible IN
            read[k] \in IF rows = {} THEN {1} ELSE rows
       /\ pushed' = Payload(read, legible)
  /\ snapshots' = {pushed'}
  /\ UNCHANGED <<secretRows, putsMade, secretCall, vmCache, vmUp, doubled>>

MutRefreshMerges(keys) ==
  vmCache' = [k \in DOMAIN vmCache \cup keys |-> IF k \in keys THEN pushed[k] ELSE vmCache[k]]
\* refresh_secrets: clear, then put_many, with no await between them.
RefreshSecrets(keys) == vmCache' = [k \in keys |-> pushed[k]]

\* An empty payload is not sent; a push that fails is logged and wake() goes on.
PushDone ==
  /\ pushed # NoPush
  /\ \/ DOMAIN pushed # {} /\ RefreshSecrets(DOMAIN pushed)
     \/ UNCHANGED vmCache
  /\ pushed' = NoPush
  /\ vmUp' = TRUE
  /\ UNCHANGED <<secretRows, putsMade, secretCall, snapshots, doubled>>

\* The VM is stopped; the next wake starts another process, or (paused) goes on
\* with the cache it had.
VMGoesDown ==
  /\ vmUp
  /\ vmUp' = FALSE
  /\ vmCache' \in {vmCache, [k \in {} |-> 0]}
  /\ UNCHANGED <<secretRows, putsMade, secretCall, pushed, snapshots, doubled>>

SecretsNext ==
  \/ \E c \in SecretCalls :
       \/ \E op \in {"put", "delete"}, k \in Keys : SecretCallLoads(c, op, k)
       \/ PutCommits(c) \/ DeleteSecretCommits(c) \/ SecretCallFails(c)
  \/ PushReads \/ PushDone \/ VMGoesDown

SecretsSpec == SecretsInit /\ [][SecretsNext]_secretsVars

-----------------------------------------------------------------------------
(* Properties                                                              *)

\* One row for a key, unless two calls for it overlapped: a second row makes every
\* later put and delete of the key fail.
OneRowPerKey == \A k \in Keys \ doubled : Cardinality(RowsOf(k)) <= 1

\* What is in the VM's cache was in the table, among what the hub could decrypt, at one
\* moment: a refresh never mixes two versions of the table, and a key that was deleted,
\* or can no longer be read, is not kept beside newer ones.
CacheIsOneSnapshot ==
  [][vmCache' # vmCache /\ DOMAIN vmCache' # {} => vmCache' \in snapshots]_secretsVars

\* put_secret (secrets/service.py:36) keeps a key readable, and push and
\* refresh_secrets (secrets/push.py:24, hub_callback/router.py:28) give a VM keys that
\* belong together.
SecretsSafe == []OneRowPerKey /\ CacheIsOneSnapshot
=============================================================================
