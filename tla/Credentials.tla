----------------------------- MODULE Credentials -----------------------------
(* BMC credentials: the Secret that Metal3 reads, the encrypted copy in the  *)
(* hardware_assets row, as registration, set and resync write them           *)
(* (api/hardware_assets.py, api/baremetalhosts.py, services/metal3.py,       *)
(* bmc.py, kubernetes.py, crypto.py).                                       *)
(*                                                                         *)
(* One API process serves requests as coroutines. Kubernetes calls block    *)
(* the event loop, database calls suspend the request, so a step runs from  *)
(* one database call to the next. Passwords are numbered as they are        *)
(* submitted.                                                               *)
EXTENDS Integers, Sequences, SequencesExt, FiniteSets

CONSTANTS
    Hosts,
    Handlers,       \* requests in progress at a time
    KeyPlan,        \* the values BMC_ENCRYPTION_KEY is given, one after the other
    MaxSubmits,     \* bound: passwords submitted
    None

VARIABLES
    row,        \* row[x]: None or [password, key]; password 0 is not stored
    secret,     \* secret[x]: the password in the Secret, 0 if there is none
    stage,      \* index into KeyPlan
    unset,      \* the process was started without BMC_ENCRYPTION_KEY
    torotate,   \* the rows the operator's rotation has yet to rewrite
    request,    \* request[h]: what a handler is doing
    submits,    \* the last password submitted
    acked,      \* history: acked[x], the last password that was confirmed
    trust       \* history: trust[x], how the last requests about x went

vars == <<row, secret, stage, unset, torotate, request, submits, acked, trust>>
keys == <<stage, unset, torotate>>
history == <<acked, trust>>

AllKeys == UNION { ToSet(KeyPlan[i]) : i \in DOMAIN KeyPlan }

(* The rotation that crypto.rotate_key documents: the key that encrypts is    *)
(* still configured after the next restart, though not as the first one. The *)
(* process may be started without any key at every restart.                  *)
ASSUME KeyPlanRotates ==
    /\ KeyPlan \in Seq(Seq(AllKeys) \ {<<>>}) /\ KeyPlan # <<>> /\ None \notin AllKeys
    /\ \A i \in 1 .. Len(KeyPlan) - 1 : Head(KeyPlan[i]) \in ToSet(KeyPlan[i + 1])
    /\ MaxSubmits \in Nat

PlanKeys == ToSet(KeyPlan[stage])
PlanKey == Head(KeyPlan[stage])
Keys == IF unset THEN {} ELSE PlanKeys

\* Mutant: encrypts with the last key.
EncryptionKeyLast == IF unset THEN None ELSE KeyPlan[stage][Len(KeyPlan[stage])]

EncryptionKey == IF unset THEN None ELSE PlanKey

(* services/crypto.py: the first key encrypts, each of them decrypts.        *)
CanDecrypt(stored) == stored.key \in Keys

NoCredentials == [password |-> 0, key |-> None]
Kept == { x \in Hosts : row[x] \notin {None, NoCredentials} }    \* has_bmc_credentials

(* A request: its program point, the hosts it has yet to write, all of its   *)
(* hosts, the password it carries or read, and the row it loaded last.       *)
Request == [at : {"idle", "set", "commit", "resync", "find", "refused", "upsert"},
            hosts : Seq(Hosts), all : SUBSET Hosts,
            password : 0 .. MaxSubmits, key : AllKeys \cup {None},
            loaded : {"none", "row", "gone"}, alone : BOOLEAN]
Idle == [at |-> "idle", hosts |-> <<>>, all |-> {}, password |-> 0, key |-> None,
         loaded |-> "none", alone |-> FALSE]

Init ==
    /\ row = [x \in Hosts |-> None]
    /\ secret = [x \in Hosts |-> 0]
    /\ stage = 1 /\ unset \in BOOLEAN
    /\ torotate = {}
    /\ request = [h \in Handlers |-> Idle]
    /\ submits = 0
    /\ acked = [x \in Hosts |-> 0]
    /\ trust = [x \in Hosts |-> "settled"]

-----------------------------------------------------------------------------
(* Requests about x overlapped, or one was confirmed that did not keep the    *)
(* password, and none that ran alone has settled it since.                   *)
InDoubt(x) == trust[x] \in {"raced", "unkept"}

(* A request about hosts begins. One that overlaps with it is not alone.     *)
Arrive(h, new) ==
    LET others == { i \in Handlers : request[i].all \cap new.all # {} }
    IN  /\ request[h] = Idle
        /\ request' = [i \in Handlers |->
                          IF i = h THEN [new EXCEPT !.alone = others = {}]
                          ELSE [request[i] EXCEPT !.alone = @ /\ i \notin others]]
        /\ trust' = [x \in Hosts |->
                        IF x \notin new.all THEN trust[x]
                        ELSE IF others # {} THEN "raced"
                        ELSE IF InDoubt(x) THEN trust[x] ELSE "open"]
        /\ UNCHANGED acked

(* A registration without a key leaves the older password in the row, and     *)
(* succeeds (_upsert_hardware_asset_shell).                                  *)
Unkept(r, x) == r.at = "upsert" /\ r.key = None /\ x \in Kept

(* A request is answered with success. A resync confirms no new password,     *)
(* unless it ends what earlier requests have left in doubt.                  *)
Succeed(h) ==
    LET r == request[h]
        confirms(x) == r.at # "resync" \/ InDoubt(x)
        tells(x) == x \in r.all /\ (r.alone \/ (Unkept(r, x) /\ trust[x] # "raced"))
    IN  /\ request' = [request EXCEPT ![h] = Idle]
        /\ acked' = [x \in Hosts |-> IF x \in r.all /\ confirms(x) THEN r.password
                                     ELSE acked[x]]
        /\ trust' = [x \in Hosts |-> IF ~ tells(x) THEN trust[x]
                                     ELSE IF Unkept(r, x) THEN "unkept" ELSE "settled"]

(* It is answered with an error: no key or the wrong one, a call that        *)
(* Kubernetes refuses, a row that is gone at the flush, a lost database.     *)
Abort(h) ==
    /\ request[h] # Idle
    /\ request' = [request EXCEPT ![h] = Idle]
    /\ UNCHANGED <<row, secret, keys, submits, history>>

NewPassword == /\ submits < MaxSubmits
               /\ submits' = submits + 1

-----------------------------------------------------------------------------
(* POST /hardware-assets creates a row without credentials.                  *)
CreateAsset(x) ==
    /\ row[x] = None
    /\ row' = [row EXCEPT ![x] = NoCredentials]
    /\ UNCHANGED <<secret, keys, request, submits, history>>

(* DELETE /hardware-assets/{id} removes the row and nothing else. The UPDATE *)
(* of a request that has loaded the row will match nothing.                 *)
DeleteAsset(x) ==
    LET holding == { h \in Handlers : request[h].loaded = "row" /\ Head(request[h].hosts) = x }
    IN  /\ row[x] # None
        /\ row' = [row EXCEPT ![x] = None]
        /\ request' = [h \in Handlers |-> IF h \in holding
                                          THEN [request[h] EXCEPT !.loaded = "gone"]
                                          ELSE request[h]]
        /\ UNCHANGED <<secret, keys, submits, history>>

-----------------------------------------------------------------------------
(* POST /hardware-assets/{id}/bmc-credentials: load the row,                 *)
SetBegin(h, x) ==
    /\ row[x] # None
    /\ NewPassword
    /\ Arrive(h, [Idle EXCEPT !.at = "set", !.hosts = <<x>>, !.all = {x},
                              !.password = submits', !.loaded = "row"])
    /\ UNCHANGED <<row, secret, keys>>

(* encrypt the password and write the Secret,                                *)
SetStore(h) ==
    /\ request[h].at = "set"
    /\ EncryptionKey # None
    /\ secret' = [secret EXCEPT ![Head(request[h].hosts)] = request[h].password]
    /\ request' = [request EXCEPT ![h].at = "commit", ![h].key = EncryptionKey]
    /\ UNCHANGED <<row, keys, submits, history>>

\* Mutant: only an empty column is filled.
SetCommitFillsGap(h) ==
    LET r == request[h]
        x == Head(r.hosts)
    IN  /\ r.at = "commit" /\ r.loaded = "row"
        /\ row' = [row EXCEPT ![x] = IF x \in Kept THEN @
                                     ELSE [password |-> r.password, key |-> r.key]]
        /\ Succeed(h)
        /\ UNCHANGED <<secret, keys, submits>>

(* commit the encrypted copy.                                                *)
SetCommit(h) ==
    LET r == request[h]
    IN  /\ r.at = "commit" /\ r.loaded = "row"
        /\ row' = [row EXCEPT ![Head(r.hosts)] = [password |-> r.password, key |-> r.key]]
        /\ Succeed(h)
        /\ UNCHANGED <<secret, keys, submits>>

-----------------------------------------------------------------------------
(* POST /hardware-assets/{id}/resync-bmc-secret: load the row,               *)
ResyncBegin(h, x) ==
    /\ x \in Kept
    /\ Arrive(h, [Idle EXCEPT !.at = "resync", !.hosts = <<x>>, !.all = {x},
                              !.password = row[x].password, !.key = row[x].key])
    /\ UNCHANGED <<row, secret, keys, submits>>

(* decrypt the password and write the Secret.                                *)
ResyncStore(h) ==
    LET r == request[h]
    IN  /\ r.at = "resync"
        /\ CanDecrypt(r)
        /\ secret' = [secret EXCEPT ![Head(r.hosts)] = r.password]
        /\ Succeed(h)
        /\ UNCHANGED <<row, keys, submits>>

-----------------------------------------------------------------------------
(* Metal3Service.bulk_register: for one host after the other the Secret, then *)
(* the BareMetalHost. Kubernetes may refuse any of the calls; the Secrets of  *)
(* the first n hosts stay written.                                           *)
RegisterHosts(hosts, password, n) ==
    secret' = [x \in Hosts |-> IF x \in ToSet(SubSeq(hosts, 1, n)) THEN password ELSE secret[x]]

(* POST /baremetalhosts, and /bulk-import with several hosts.                *)
Register(h, hosts) ==
    LET r == [Idle EXCEPT !.hosts = hosts, !.all = ToSet(hosts), !.password = submits']
    IN  /\ NewPassword
        /\ \E n \in 0 .. Len(hosts), at \in {"find", "refused"} :
              /\ at = "find" => n = Len(hosts)
              /\ RegisterHosts(hosts, submits', n)
              /\ Arrive(h, [r EXCEPT !.at = at])
        /\ UNCHANGED <<row, keys>>

(* _upsert_hardware_asset_shell, for each host in turn: is there a row? The   *)
(* password is encrypted; without a key it is not kept.                      *)
ShellFind(h) ==
    LET r == request[h]
    IN  /\ r.at = "find"
        /\ request' = [request EXCEPT
              ![h].at = "upsert", ![h].key = EncryptionKey,
              ![h].loaded = IF row[Head(r.hosts)] = None THEN "none" ELSE "row"]
        /\ UNCHANGED <<row, secret, keys, submits, history>>

\* Mutant: a password that is kept already is left alone.
ShellFillsGap(r) ==
    LET kept == IF r.key = None THEN NoCredentials ELSE [password |-> r.password, key |-> r.key]
        x == Head(r.hosts)
    IN  /\ \/ r.loaded = "row"
           \/ r.loaded = "none" /\ row[x] = None
        /\ row' = [row EXCEPT ![x] = IF x \in Kept THEN @ ELSE kept]

(* The commit: an UPDATE that leaves a kept password alone when there is no   *)
(* key, or an INSERT; then the next host.                                    *)
Shell(r) ==
    LET kept == IF r.key = None THEN NoCredentials ELSE [password |-> r.password, key |-> r.key]
        x == Head(r.hosts)
    IN  /\ \/ r.loaded = "row"
           \/ r.loaded = "none" /\ row[x] = None
        /\ row' = [row EXCEPT ![x] = IF r.loaded = "row" /\ r.key = None THEN @ ELSE kept]

\* Mutant: the next host is taken to have the row the last one had.
ShellCommitKeepsRow(h) ==
    LET r == request[h]
    IN  /\ r.at = "upsert"
        /\ Shell(r)
        /\ IF Len(r.hosts) = 1
           THEN Succeed(h)
           ELSE /\ request' = [request EXCEPT ![h].at = "find", ![h].hosts = Tail(@)]
                /\ UNCHANGED history
        /\ UNCHANGED <<secret, keys, submits>>

ShellCommit(h) ==
    LET r == request[h]
    IN  /\ r.at = "upsert"
        /\ Shell(r)
        /\ IF Len(r.hosts) = 1
           THEN Succeed(h)
           ELSE /\ request' = [request EXCEPT ![h].at = "find", ![h].hosts = Tail(@),
                                              ![h].loaded = "none"]
                /\ UNCHANGED history
        /\ UNCHANGED <<secret, keys, submits>>

-----------------------------------------------------------------------------
(* The process restarts, perhaps without the key or with the next value of   *)
(* it; requests in progress are lost. A key is dropped when the rotation is  *)
(* over, as crypto.rotate_key documents it; it is over the rows of then.      *)
Restart ==
    /\ unset' \in BOOLEAN
    /\ \/ UNCHANGED <<stage, torotate>>
       \/ /\ stage < Len(KeyPlan)
          /\ torotate = {} \/ PlanKeys \subseteq ToSet(KeyPlan[stage + 1])
          /\ stage' = stage + 1
          /\ torotate' = Kept
    /\ request' = [h \in Handlers |-> Idle]
    /\ UNCHANGED <<row, secret, submits, history>>

(* crypto.rotate_key over the next of these rows, if it still has a password; *)
(* the operator passes the keys.                                             *)
RotateRow(x) ==
    /\ x \in torotate
    /\ torotate' = torotate \ {x}
    /\ IF x \in Kept
       THEN row[x].key \in PlanKeys /\ row' = [row EXCEPT ![x].key = PlanKey]
       ELSE UNCHANGED row
    /\ UNCHANGED <<secret, stage, unset, request, submits, history>>

(* The Secret, or its namespace, is deleted from the cluster.                *)
SecretLost(x) ==
    /\ secret[x] # 0
    /\ secret' = [secret EXCEPT ![x] = 0]
    /\ UNCHANGED <<row, keys, request, submits, history>>

Selections == { s \in UNION { [1 .. n -> Hosts] : n \in 1 .. Cardinality(Hosts) } :
                  \A i, j \in DOMAIN s : s[i] = s[j] => i = j }

Next ==
    \/ \E x \in Hosts : CreateAsset(x) \/ DeleteAsset(x) \/ RotateRow(x) \/ SecretLost(x)
    \/ \E h \in Handlers :
          \/ \E x \in Hosts : SetBegin(h, x) \/ ResyncBegin(h, x)
          \/ \E hosts \in Selections : Register(h, hosts)
          \/ SetStore(h) \/ SetCommit(h) \/ ResyncStore(h)
          \/ ShellFind(h) \/ ShellCommit(h) \/ Abort(h)
    \/ Restart

Spec == Init /\ [][Next]_vars

-----------------------------------------------------------------------------
Stored == [password : 0 .. MaxSubmits, key : AllKeys \cup {None}]

RequestOK(r) ==
    /\ r.at # "idle" => r.hosts # <<>>
    /\ ToSet(r.hosts) \subseteq r.all
    /\ r.at \in {"set", "commit"} => r.loaded # "none"
    /\ r.at \in {"idle", "resync", "find"} => r.loaded = "none"

(* Every variable has its type, and a request that is about to write a row    *)
(* knows whether it loaded one (hardware_assets.py:153, baremetalhosts.py:39). *)
TypeOK ==
    /\ row \in [Hosts -> Stored \cup {None}]
    /\ secret \in [Hosts -> 0 .. MaxSubmits]
    /\ stage \in DOMAIN KeyPlan /\ unset \in BOOLEAN /\ torotate \subseteq Hosts
    /\ submits \in 0 .. MaxSubmits
    /\ acked \in [Hosts -> 0 .. MaxSubmits]
    /\ trust \in [Hosts -> {"settled", "open", "raced", "unkept"}]
    /\ request \in [Handlers -> Request]
    /\ \A h \in Handlers : RequestOK(request[h])

(* Once a request about a host ran alone and was answered with success, the   *)
(* Secret and the kept password agree, however many requests were cut off or *)
(* raced before: registration, set and resync heal each other's leftovers    *)
(* (hardware_assets.py:149-152). The exception is a registration without a   *)
(* key of a host whose password is kept: it succeeds and keeps the old one   *)
(* (baremetalhosts.py:47-53).                                                *)
StoresAgree ==
    \A x \in Kept : trust[x] = "settled" => secret[x] \in {row[x].password, 0}

(* A confirmed password is never replaced by an older one: neither a resync,  *)
(* nor a failed request, nor a restart brings back what an operator has      *)
(* changed (hardware_assets.py:174-198, baremetalhosts.py:47-53). The        *)
(* exceptions are requests that overlap, and, after a registration without a *)
(* key that left the older password in the row, the resync of that row.      *)
AcknowledgedKept ==
    \A x \in Hosts : ~ InDoubt(x) /\ secret[x] # 0 => secret[x] >= acked[x]

(* Through the rotation that crypto.rotate_key documents (crypto.py:79-87),   *)
(* with registrations, requests and restarts while it runs, the keys of the  *)
(* plan decrypt every password in the table: nothing is written under the    *)
(* key that is about to be dropped.                                          *)
Decryptable ==
    \A x \in Kept : row[x].key \in PlanKeys

(* "so this and the BMH-registration path can't drift into storing different  *)
(* passwords" (hardware_assets.py:149-152), and a registration without a key *)
(* "should fail loudly" (crypto.py:31-35): false, because it succeeds with   *)
(* the new Secret beside the old row.                                        *)
NoDrift ==
    \A x \in Kept : trust[x] \in {"settled", "unkept"} => secret[x] \in {row[x].password, 0}
=============================================================================
