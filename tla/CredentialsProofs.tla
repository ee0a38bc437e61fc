-------------------------- MODULE CredentialsProofs --------------------------
(* No password is lost in a rotation of the encryption key, and the Secret    *)
(* and the kept password of a host agree whenever a request about it had its *)
(* way, for any hosts, requests and sequence of keys that rotates as         *)
(* documented, though any start of the process may find the key unset.       *)
EXTENDS Credentials, TLAPS

(* What is written, or about to be, is under the key that encrypts now.       *)
Fresh(r) == r.at \in {"commit", "upsert"} => r.key = EncryptionKey
Committed(r) == r.at = "commit" => r.key # None

KeyInv ==
    /\ TypeOK
    /\ Decryptable
    /\ \A x \in Kept \ torotate : row[x].key = PlanKey
    /\ \A h \in Handlers : Fresh(request[h]) /\ Committed(request[h])

-----------------------------------------------------------------------------
(* Fields of a request that is changed in part.                              *)
LEMMA KeyStored ==
  ASSUME NEW r \in Request, NEW k \in AllKeys \cup {None}
  PROVE  LET n == [r EXCEPT !.at = "commit", !.key = k]
         IN  /\ n \in Request /\ n.at = "commit" /\ n.key = k /\ n.hosts = r.hosts
             /\ n.all = r.all /\ n.loaded = r.loaded
  BY DEF Request

LEMMA RowGone ==
  ASSUME NEW r \in Request
  PROVE  LET n == [r EXCEPT !.loaded = "gone"]
         IN  /\ n \in Request /\ n.at = r.at /\ n.key = r.key /\ n.hosts = r.hosts
             /\ n.all = r.all /\ n.loaded = "gone"
  BY DEF Request

LEMMA NextHost ==
  ASSUME NEW r \in Request, NEW rest \in Seq(Hosts)
  PROVE  LET n == [r EXCEPT !.at = "find", !.hosts = rest, !.loaded = "none"]
         IN  /\ n \in Request /\ n.at = "find" /\ n.hosts = rest
             /\ n.all = r.all /\ n.loaded = "none"
  BY DEF Request

LEMMA AloneSet ==
  ASSUME NEW r \in Request, NEW alone \in BOOLEAN
  PROVE  LET n == [r EXCEPT !.alone = alone]
         IN  /\ n \in Request /\ n.at = r.at /\ n.key = r.key /\ n.hosts = r.hosts
             /\ n.all = r.all /\ n.loaded = r.loaded
  BY DEF Request

LEMMA TailOfMany ==
  ASSUME NEW s \in Seq(Hosts), s # <<>>, Len(s) # 1
  PROVE  Tail(s) \in Seq(Hosts) /\ Tail(s) # <<>> /\ ToSet(Tail(s)) \subseteq ToSet(s)
<1>1. Tail(s) \in Seq(Hosts) /\ Len(Tail(s)) = Len(s) - 1 /\ Len(s) > 1
  <2>1. Len(s) \in Nat /\ Len(s) # 0
    OBVIOUS
  <2>2. Tail(s) \in Seq(Hosts) /\ Len(Tail(s)) = Len(s) - 1
    BY <2>1
  <2> QED BY <2>1, <2>2
<1>2. \A i \in 1 .. Len(Tail(s)) : Tail(s)[i] = s[i + 1] /\ i + 1 \in 1 .. Len(s)
  BY <1>1
<1>3. ToSet(Tail(s)) \subseteq ToSet(s)
  BY <1>1, <1>2 DEF ToSet
<1> QED BY <1>1, <1>3

LEMMA IdleIsRequest == Idle \in Request /\ RequestOK(Idle) /\ Idle.at = "idle"
<1>1. <<>> \in Seq(Hosts) /\ 0 \in 0 .. MaxSubmits
  BY KeyPlanRotates
<1>2. ToSet(<<>>) = {}
  BY DEF ToSet
<1> QED BY <1>1, <1>2 DEF Idle, Request, RequestOK

LEMMA NothingStored == NoCredentials \in Stored
  BY KeyPlanRotates DEF NoCredentials, Stored

LEMMA KeyTypes ==
  ASSUME TypeOK
  PROVE  /\ PlanKey \in AllKeys /\ PlanKey \in PlanKeys /\ PlanKey # None
         /\ EncryptionKey \in AllKeys \cup {None}
         /\ EncryptionKey # None => EncryptionKey = PlanKey
<1>1. KeyPlan[stage] \in Seq(AllKeys) \ {<<>>}
  BY KeyPlanRotates DEF TypeOK
<1>2. PlanKey \in AllKeys /\ PlanKey \in PlanKeys
  BY <1>1 DEF PlanKey, PlanKeys, ToSet
<1> QED BY <1>2, KeyPlanRotates DEF EncryptionKey

-----------------------------------------------------------------------------
(* A request that begins, and those it overlaps with.                        *)
LEMMA Arrived ==
  ASSUME TypeOK, NEW h \in Handlers, NEW new \in Request, RequestOK(new), Arrive(h, new)
  PROVE  /\ request' \in [Handlers -> Request]
         /\ \A g \in Handlers : RequestOK(request'[g])
         /\ request'[h].at = new.at
         /\ \A g \in Handlers \ {h} : request'[g].at = request[g].at /\ request'[g].key = request[g].key
         /\ trust' \in [Hosts -> {"settled", "open", "raced", "unkept"}]
         /\ acked' = acked
<1> DEFINE others == { i \in Handlers : request[i].all \cap new.all # {} }
           changed(i) == IF i = h THEN [new EXCEPT !.alone = others = {}]
                         ELSE [request[i] EXCEPT !.alone = @ /\ i \notin others]
<1>1. request' = [i \in Handlers |-> changed(i)]
  BY DEF Arrive
<1>2. (others = {}) \in BOOLEAN
  OBVIOUS
<1>3. /\ changed(h) \in Request /\ RequestOK(changed(h)) /\ changed(h).at = new.at
  <2> DEFINE n == [new EXCEPT !.alone = others = {}]
  <2>1. /\ n \in Request /\ n.at = new.at /\ n.key = new.key /\ n.hosts = new.hosts
        /\ n.all = new.all /\ n.loaded = new.loaded
    BY <1>2, AloneSet
  <2>2. changed(h) = n
    OBVIOUS
  <2> QED BY <2>1, <2>2 DEF RequestOK
<1>4. ASSUME NEW g \in Handlers \ {h}
      PROVE  /\ changed(g) \in Request /\ RequestOK(changed(g))
             /\ changed(g).at = request[g].at /\ changed(g).key = request[g].key
  <2> DEFINE r == request[g]
             n == [r EXCEPT !.alone = r.alone /\ g \notin others]
  <2>1. r \in Request /\ RequestOK(r)
    BY DEF TypeOK
  <2>2. (r.alone /\ g \notin others) \in BOOLEAN
    OBVIOUS
  <2>3. /\ n \in Request /\ n.at = r.at /\ n.key = r.key /\ n.hosts = r.hosts
        /\ n.all = r.all /\ n.loaded = r.loaded
    BY <2>1, <2>2, AloneSet
  <2>4. changed(g) = n
    OBVIOUS
  <2> QED BY <2>1, <2>3, <2>4 DEF RequestOK
<1> HIDE DEF changed
<1>5. request' \in [Handlers -> Request]
  BY <1>1, <1>3, <1>4
<1>6. \A g \in Handlers : RequestOK(request'[g])
  BY <1>1, <1>3, <1>4
<1>7. trust' \in [Hosts -> {"settled", "open", "raced", "unkept"}] /\ acked' = acked
  BY DEF Arrive, TypeOK
<1> QED BY <1>1, <1>3, <1>4, <1>5, <1>6, <1>7

(* What Begin actions hand to it.                                            *)
LEMMA SetIsRequest ==
  ASSUME NEW x \in Hosts, NEW password \in 0 .. MaxSubmits
  PROVE  LET new == [Idle EXCEPT !.at = "set", !.hosts = <<x>>, !.all = {x},
                                 !.password = password, !.loaded = "row"]
         IN  new \in Request /\ RequestOK(new) /\ new.at = "set"
<1>1. <<x>> \in Seq(Hosts) /\ <<x>> # <<>> /\ ToSet(<<x>>) = {x}
  BY DEF ToSet
<1> QED BY <1>1 DEF Idle, Request, RequestOK

LEMMA ResyncIsRequest ==
  ASSUME NEW x \in Hosts, NEW stored \in Stored
  PROVE  LET new == [Idle EXCEPT !.at = "resync", !.hosts = <<x>>, !.all = {x},
                                 !.password = stored.password, !.key = stored.key]
         IN  new \in Request /\ RequestOK(new) /\ new.at = "resync"
<1>1. <<x>> \in Seq(Hosts) /\ <<x>> # <<>> /\ ToSet(<<x>>) = {x}
  BY DEF ToSet
<1> QED BY <1>1 DEF Idle, Request, RequestOK, Stored

LEMMA RegisterIsRequest ==
  ASSUME NEW hosts \in Selections, NEW password \in 0 .. MaxSubmits, NEW at \in {"find", "refused"}
  PROVE  LET r == [Idle EXCEPT !.hosts = hosts, !.all = ToSet(hosts), !.password = password]
             new == [r EXCEPT !.at = at]
         IN  new \in Request /\ RequestOK(new) /\ new.at = at
<1>1. PICK n \in 1 .. Cardinality(Hosts) : hosts \in [1 .. n -> Hosts]
  BY DEF Selections
<1>2. hosts \in Seq(Hosts) /\ hosts # <<>>
  BY <1>1
<1>3. ToSet(hosts) \subseteq Hosts
  BY <1>2 DEF ToSet
<1> QED BY <1>2, <1>3 DEF Idle, Request, RequestOK

(* A request that ends.                                                      *)
LEMMA Ended ==
  ASSUME TypeOK, NEW h \in Handlers, request' = [request EXCEPT ![h] = Idle]
  PROVE  /\ request' \in [Handlers -> Request]
         /\ \A g \in Handlers : RequestOK(request'[g])
         /\ request'[h] = Idle /\ \A g \in Handlers \ {h} : request'[g] = request[g]
  BY IdleIsRequest DEF TypeOK

LEMMA Succeeded ==
  ASSUME TypeOK, NEW h \in Handlers, Succeed(h)
  PROVE  /\ acked' \in [Hosts -> 0 .. MaxSubmits]
         /\ trust' \in [Hosts -> {"settled", "open", "raced", "unkept"}]
         /\ request' = [request EXCEPT ![h] = Idle]
<1>1. request[h].password \in 0 .. MaxSubmits
  BY DEF TypeOK, Request
<1> QED BY <1>1 DEF Succeed, TypeOK

(* One that goes on.                                                         *)
LEMMA Continued ==
  ASSUME TypeOK, NEW h \in Handlers, NEW new \in Request, RequestOK(new),
         request' = [request EXCEPT ![h] = new]
  PROVE  /\ request' \in [Handlers -> Request]
         /\ \A g \in Handlers : RequestOK(request'[g])
         /\ request'[h] = new /\ \A g \in Handlers \ {h} : request'[g] = request[g]
  BY DEF TypeOK

-----------------------------------------------------------------------------
KeysKnown == \A x \in Kept \ torotate : row[x].key = PlanKey
RequestsKnow == \A h \in Handlers : Fresh(request[h]) /\ Committed(request[h])

(* A step that writes no row and keeps the key leaves only its request to show. *)
LEMMA RowsKept ==
  ASSUME KeyInv, TypeOK', UNCHANGED <<row, keys>>, NEW h \in Handlers,
         \A g \in Handlers \ {h} : request'[g].at = request[g].at /\ request'[g].key = request[g].key,
         request'[h].at \in {"commit", "upsert"} => request'[h].key = EncryptionKey,
         request'[h].at = "commit" => request'[h].key # None
  PROVE  KeyInv'
<1>1. EncryptionKey' = EncryptionKey /\ PlanKeys' = PlanKeys /\ PlanKey' = PlanKey /\ Kept' = Kept
  BY DEF keys, EncryptionKey, PlanKey, PlanKeys, Kept
<1>2. Decryptable'
  BY <1>1 DEF KeyInv, Decryptable
<1>3. \A x \in (Kept \ torotate)' : row'[x].key = PlanKey'
  BY <1>1 DEF KeyInv, keys
<1>4. \A g \in Handlers : Fresh(request[g])' /\ Committed(request[g])'
  BY <1>1 DEF KeyInv, Fresh, Committed
<1> QED BY <1>2, <1>3, <1>4 DEF KeyInv

(* A row that is written is under the key that encrypts, or has no password.  *)
LEMMA RowWritten ==
  ASSUME KeyInv, UNCHANGED stage, torotate' \subseteq torotate,
         NEW x \in Hosts, torotate \subseteq (torotate' \cup {x}),
         NEW new,
         \/ new \in {None, NoCredentials}
         \/ new.key = PlanKey,
         row' = [row EXCEPT ![x] = new]
  PROVE  /\ Decryptable'
         /\ \A y \in (Kept \ torotate)' : row'[y].key = PlanKey'
<1>1. PlanKey' = PlanKey /\ PlanKeys' = PlanKeys
  BY DEF PlanKey, PlanKeys
<1>2. row'[x] = new /\ \A y \in Hosts \ {x} : row'[y] = row[y]
  BY DEF KeyInv, TypeOK
<1>3. PlanKey \in PlanKeys
  BY KeyTypes DEF KeyInv
<1>4. ASSUME NEW y \in Kept' PROVE row'[y].key \in PlanKeys /\ (y \notin torotate' => row'[y].key = PlanKey)
  <2>1. CASE y = x
    BY <1>2, <1>3, <1>4, <2>1 DEF Kept
  <2>2. CASE y # x
    <3>1. y \in Kept /\ row'[y] = row[y] /\ (y \notin torotate' => y \notin torotate)
      BY <1>2, <1>4, <2>2 DEF Kept
    <3> QED BY <3>1 DEF KeyInv, Decryptable
  <2> QED BY <2>1, <2>2
<1> QED BY <1>1, <1>4 DEF Decryptable

LEMMA SetBeginKeys ==
  ASSUME KeyInv, NEW h \in Handlers, NEW x \in Hosts, SetBegin(h, x) PROVE KeyInv'
<1> DEFINE new == [Idle EXCEPT !.at = "set", !.hosts = <<x>>, !.all = {x},
                               !.password = submits', !.loaded = "row"]
<1>1. submits' \in 0 .. MaxSubmits
  BY KeyPlanRotates DEF SetBegin, NewPassword, KeyInv, TypeOK
<1>2. new \in Request /\ RequestOK(new) /\ new.at = "set"
  BY <1>1, SetIsRequest
<1>3. Arrive(h, new) /\ UNCHANGED <<row, secret, keys>>
  BY DEF SetBegin
<1> HIDE DEF new
<1>4. TypeOK'
  BY <1>1, <1>2, <1>3, Arrived DEF KeyInv, TypeOK, keys
<1> QED BY <1>2, <1>3, <1>4, Arrived, RowsKept DEF KeyInv

LEMMA ResyncBeginKeys ==
  ASSUME KeyInv, NEW h \in Handlers, NEW x \in Hosts, ResyncBegin(h, x) PROVE KeyInv'
<1> DEFINE new == [Idle EXCEPT !.at = "resync", !.hosts = <<x>>, !.all = {x},
                               !.password = row[x].password, !.key = row[x].key]
<1>1. row[x] \in Stored
  BY DEF ResyncBegin, Kept, KeyInv, TypeOK
<1>2. new \in Request /\ RequestOK(new) /\ new.at = "resync"
  BY <1>1, ResyncIsRequest
<1>3. Arrive(h, new) /\ UNCHANGED <<row, secret, keys, submits>>
  BY DEF ResyncBegin
<1> HIDE DEF new
<1>4. TypeOK'
  BY <1>2, <1>3, Arrived DEF KeyInv, TypeOK, keys
<1> QED BY <1>2, <1>3, <1>4, Arrived, RowsKept DEF KeyInv

LEMMA RegisterKeys ==
  ASSUME KeyInv, NEW h \in Handlers, NEW hosts \in Selections, Register(h, hosts) PROVE KeyInv'
<1> DEFINE r == [Idle EXCEPT !.hosts = hosts, !.all = ToSet(hosts), !.password = submits']
<1>1. submits' \in 0 .. MaxSubmits
  BY KeyPlanRotates DEF Register, NewPassword, KeyInv, TypeOK
<1>2. PICK n \in 0 .. Len(hosts), at \in {"find", "refused"} :
         RegisterHosts(hosts, submits', n) /\ Arrive(h, [r EXCEPT !.at = at])
  BY DEF Register
<1> DEFINE new == [r EXCEPT !.at = at]
<1>3. new \in Request /\ RequestOK(new) /\ new.at = at
  BY <1>1, RegisterIsRequest
<1>4. Arrive(h, new) /\ UNCHANGED <<row, keys>>
  BY <1>2 DEF Register
<1>5. secret' \in [Hosts -> 0 .. MaxSubmits]
  BY <1>1, <1>2 DEF RegisterHosts, KeyInv, TypeOK
<1> HIDE DEF new, r
<1>6. TypeOK'
  BY <1>1, <1>3, <1>4, <1>5, Arrived DEF KeyInv, TypeOK, keys
<1> QED BY <1>3, <1>4, <1>6, Arrived, RowsKept DEF KeyInv

LEMMA SetStoreKeys == ASSUME KeyInv, NEW h \in Handlers, SetStore(h) PROVE KeyInv'
<1> DEFINE r == request[h]
           new == [r EXCEPT !.at = "commit", !.key = EncryptionKey]
<1>1. r \in Request /\ RequestOK(r) /\ r.at = "set"
  BY DEF KeyInv, TypeOK, SetStore
<1>2. EncryptionKey \in AllKeys \cup {None} /\ EncryptionKey # None
  BY KeyTypes DEF KeyInv, SetStore
<1>3. /\ new \in Request /\ new.at = "commit" /\ new.key = EncryptionKey /\ new.hosts = r.hosts
      /\ new.all = r.all /\ new.loaded = r.loaded
  BY <1>1, <1>2, KeyStored
<1>4. RequestOK(new)
  BY <1>1, <1>3 DEF RequestOK
<1>5. request' = [request EXCEPT ![h] = new] /\ UNCHANGED <<row, keys, submits, history>>
  BY DEF SetStore
<1>6. secret' \in [Hosts -> 0 .. MaxSubmits]
  BY <1>1 DEF SetStore, KeyInv, TypeOK, Request
<1> HIDE DEF new
<1>7. /\ request' \in [Handlers -> Request]
      /\ \A g \in Handlers : RequestOK(request'[g])
      /\ request'[h] = new /\ \A g \in Handlers \ {h} : request'[g] = request[g]
  BY <1>3, <1>4, <1>5, Continued DEF KeyInv
<1>8. TypeOK'
  BY <1>5, <1>6, <1>7 DEF KeyInv, TypeOK, keys, history
<1> QED BY <1>2, <1>3, <1>5, <1>7, <1>8, RowsKept

LEMMA ShellFindKeys == ASSUME KeyInv, NEW h \in Handlers, ShellFind(h) PROVE KeyInv'
<1> DEFINE r == request[h]
           found == IF row[Head(r.hosts)] = None THEN "none" ELSE "row"
           new == [r EXCEPT !.at = "upsert", !.key = EncryptionKey, !.loaded = found]
<1>1. r \in Request /\ RequestOK(r) /\ r.at = "find"
  BY DEF KeyInv, TypeOK, ShellFind
<1>2. EncryptionKey \in AllKeys \cup {None}
  BY KeyTypes DEF KeyInv
<1>3. /\ new \in Request /\ new.at = "upsert" /\ new.key = EncryptionKey /\ new.hosts = r.hosts
      /\ new.all = r.all /\ new.loaded = found
  <2>1. found \in {"none", "row"}
    OBVIOUS
  <2> HIDE DEF found, r
  <2> QED BY <1>1, <1>2, <2>1 DEF Request
<1>4. RequestOK(new)
  BY <1>1, <1>3 DEF RequestOK
<1>5. request' = [request EXCEPT ![h] = new] /\ UNCHANGED <<row, secret, keys, submits, history>>
  BY DEF ShellFind
<1> HIDE DEF new
<1>6. /\ request' \in [Handlers -> Request]
      /\ \A g \in Handlers : RequestOK(request'[g])
      /\ request'[h] = new /\ \A g \in Handlers \ {h} : request'[g] = request[g]
  BY <1>3, <1>4, <1>5, Continued DEF KeyInv
<1>7. TypeOK'
  BY <1>5, <1>6 DEF KeyInv, TypeOK, keys, history
<1> QED BY <1>3, <1>5, <1>6, <1>7, RowsKept

LEMMA ResyncStoreKeys == ASSUME KeyInv, NEW h \in Handlers, ResyncStore(h) PROVE KeyInv'
<1>1. /\ Succeed(h) /\ UNCHANGED <<row, keys, submits>>
      /\ secret' = [secret EXCEPT ![Head(request[h].hosts)] = request[h].password]
  BY DEF ResyncStore
<1>2. secret' \in [Hosts -> 0 .. MaxSubmits]
  BY <1>1 DEF KeyInv, TypeOK, Request
<1>3. TypeOK'
  BY <1>1, <1>2, Succeeded, Ended DEF KeyInv, TypeOK, keys
<1> QED BY <1>1, <1>3, Succeeded, Ended, IdleIsRequest, RowsKept DEF KeyInv

LEMMA AbortKeys == ASSUME KeyInv, NEW h \in Handlers, Abort(h) PROVE KeyInv'
<1>1. /\ request' = [request EXCEPT ![h] = Idle]
      /\ UNCHANGED <<row, secret, keys, submits, history>>
  BY DEF Abort
<1>2. TypeOK'
  BY <1>1, Ended DEF KeyInv, TypeOK, keys, history
<1> QED BY <1>1, <1>2, Ended, IdleIsRequest, RowsKept DEF KeyInv

-----------------------------------------------------------------------------
LEMMA SetCommitKeys == ASSUME KeyInv, NEW h \in Handlers, SetCommit(h) PROVE KeyInv'
<1> DEFINE r == request[h]
           x == Head(r.hosts)
           new == [password |-> r.password, key |-> r.key]
<1>1. /\ r \in Request /\ RequestOK(r) /\ r.at = "commit"
      /\ r.key = EncryptionKey /\ EncryptionKey # None
  BY DEF KeyInv, TypeOK, SetCommit, Fresh, Committed
<1>2. r.hosts \in Seq(Hosts) /\ r.hosts # <<>>
  BY <1>1 DEF Request, RequestOK
<1>3. x \in Hosts
  BY <1>2
<1>4. new \in Stored /\ new.key = PlanKey
  BY <1>1, KeyTypes DEF KeyInv, Request, Stored
<1>5. /\ row' = [row EXCEPT ![x] = new] /\ Succeed(h)
      /\ UNCHANGED <<secret, keys, submits>>
  BY DEF SetCommit
<1> HIDE DEF new, x
<1>6. row' \in [Hosts -> Stored \cup {None}]
  BY <1>3, <1>4, <1>5 DEF KeyInv, TypeOK
<1>7. TypeOK'
  BY <1>5, <1>6, Succeeded, Ended DEF KeyInv, TypeOK, keys
<1>8. Decryptable' /\ KeysKnown'
  BY <1>1, <1>3, <1>4, <1>5, RowWritten DEF keys, KeysKnown
<1>9. RequestsKnow'
  BY <1>5, Succeeded, Ended, IdleIsRequest
     DEF KeyInv, RequestsKnow, Fresh, Committed, EncryptionKey, PlanKey, keys
<1> QED BY <1>7, <1>8, <1>9 DEF KeyInv, KeysKnown, RequestsKnow

LEMMA ShellCommitKeys == ASSUME KeyInv, NEW h \in Handlers, ShellCommit(h) PROVE KeyInv'
<1> DEFINE r == request[h]
           x == Head(r.hosts)
           kept == IF r.key = None THEN NoCredentials ELSE [password |-> r.password, key |-> r.key]
           new == IF r.loaded = "row" /\ r.key = None THEN row[x] ELSE kept
<1>1. /\ r \in Request /\ RequestOK(r) /\ r.at = "upsert" /\ r.key = EncryptionKey
  BY DEF KeyInv, TypeOK, ShellCommit, Fresh
<1>2. r.hosts \in Seq(Hosts) /\ r.hosts # <<>>
  BY <1>1 DEF Request, RequestOK
<1>3. x \in Hosts
  BY <1>2
<1>4. row' = [row EXCEPT ![x] = new] /\ UNCHANGED <<secret, keys, submits>>
  BY DEF ShellCommit, Shell
<1>5. /\ kept \in Stored
      /\ \/ kept = NoCredentials
         \/ kept.key = PlanKey
  <2>1. CASE r.key = None
    BY <2>1, NothingStored
  <2>2. CASE r.key # None
    BY <1>1, <2>2, KeyTypes DEF KeyInv, Request, Stored
  <2> QED BY <2>1, <2>2
<1>6. row' \in [Hosts -> Stored \cup {None}]
  BY <1>3, <1>4, <1>5 DEF KeyInv, TypeOK
<1>7. Decryptable' /\ KeysKnown'
  <2>1. CASE new = row[x]
    <3>1. row' = row
      BY <1>3, <1>4, <2>1 DEF KeyInv, TypeOK
    <3> QED BY <1>4, <3>1
            DEF KeyInv, Decryptable, KeysKnown, Kept, PlanKeys, PlanKey, keys
  <2>2. CASE new = kept
    <3> HIDE DEF kept, x
    <3> QED BY <1>3, <1>4, <1>5, <2>2, RowWritten DEF keys, KeysKnown
  <2> QED BY <2>1, <2>2
<1> HIDE DEF x, kept, new
<1>8. CASE Len(r.hosts) = 1
  <2>1. Succeed(h)
    BY <1>8 DEF ShellCommit
  <2>2. TypeOK'
    BY <1>4, <1>6, <2>1, Succeeded, Ended DEF KeyInv, TypeOK, keys
  <2>3. RequestsKnow'
    BY <1>4, <2>1, Succeeded, Ended, IdleIsRequest
       DEF KeyInv, RequestsKnow, Fresh, Committed, EncryptionKey, PlanKey, keys
  <2> QED BY <1>7, <2>2, <2>3 DEF KeyInv, KeysKnown, RequestsKnow
<1>9. CASE Len(r.hosts) # 1
  <2> DEFINE next == [r EXCEPT !.at = "find", !.hosts = Tail(r.hosts), !.loaded = "none"]
  <2>1. /\ Tail(r.hosts) \in Seq(Hosts) /\ Tail(r.hosts) # <<>>
        /\ ToSet(Tail(r.hosts)) \subseteq ToSet(r.hosts)
    BY <1>2, <1>9, TailOfMany
  <2>2. /\ next \in Request /\ next.at = "find" /\ next.hosts = Tail(r.hosts)
        /\ next.all = r.all /\ next.loaded = "none"
    BY <1>1, <2>1, NextHost
  <2>3. RequestOK(next)
    BY <1>1, <2>1, <2>2 DEF RequestOK
  <2>4. request' = [request EXCEPT ![h] = next] /\ UNCHANGED history
    BY <1>9 DEF ShellCommit
  <2> HIDE DEF next
  <2>5. /\ request' \in [Handlers -> Request]
        /\ \A g \in Handlers : RequestOK(request'[g])
        /\ request'[h] = next /\ \A g \in Handlers \ {h} : request'[g] = request[g]
    BY <2>2, <2>3, <2>4, Continued DEF KeyInv
  <2>6. TypeOK'
    BY <1>4, <1>6, <2>4, <2>5 DEF KeyInv, TypeOK, keys, history
  <2>7. RequestsKnow'
    BY <1>4, <2>2, <2>5 DEF KeyInv, RequestsKnow, Fresh, Committed, EncryptionKey, PlanKey, keys
  <2> QED BY <1>7, <2>6, <2>7 DEF KeyInv, KeysKnown, RequestsKnow
<1> QED BY <1>8, <1>9

-----------------------------------------------------------------------------
(* A new key is in place only when every row is under one that stays.        *)
LEMMA RestartKeys == ASSUME KeyInv, Restart PROVE KeyInv'
<1>1. /\ request' = [h \in Handlers |-> Idle] /\ UNCHANGED <<row, secret, submits, history>>
      /\ unset' \in BOOLEAN
  BY DEF Restart
<1>2. request' \in [Handlers -> Request] /\ \A h \in Handlers : RequestOK(request'[h])
  BY <1>1, IdleIsRequest
<1>3. RequestsKnow'
  BY <1>1, IdleIsRequest DEF RequestsKnow, Fresh, Committed
<1>4. CASE UNCHANGED <<stage, torotate>>
  <2>1. TypeOK'
    BY <1>1, <1>2, <1>4 DEF KeyInv, TypeOK, history
  <2>2. Decryptable' /\ KeysKnown'
    BY <1>1, <1>4 DEF KeyInv, Decryptable, KeysKnown, Kept, PlanKeys, PlanKey
  <2> QED BY <1>3, <2>1, <2>2 DEF KeyInv, KeysKnown, RequestsKnow
<1>5. CASE /\ stage < Len(KeyPlan)
           /\ torotate = {} \/ PlanKeys \subseteq ToSet(KeyPlan[stage + 1])
           /\ stage' = stage + 1
           /\ torotate' = Kept
  <2>1. /\ stage \in 1 .. Len(KeyPlan) - 1 /\ stage' \in DOMAIN KeyPlan
        /\ PlanKeys' = ToSet(KeyPlan[stage + 1])
    BY <1>5, KeyPlanRotates DEF KeyInv, TypeOK, PlanKeys
  <2>2. Kept' = Kept /\ Kept \subseteq Hosts
    BY <1>1 DEF Kept
  <2>3. TypeOK'
    BY <1>1, <1>2, <1>5, <2>1, <2>2 DEF KeyInv, TypeOK, history
  <2>4. ASSUME NEW x \in Kept PROVE row[x].key \in ToSet(KeyPlan[stage + 1])
    <3>1. row[x].key \in PlanKeys
      BY <2>4 DEF KeyInv, Decryptable
    <3>2. CASE torotate = {}
      <4>1. row[x].key = PlanKey
        BY <3>2 DEF KeyInv
      <4> QED BY <2>1, <4>1, KeyPlanRotates DEF PlanKey
    <3> QED BY <1>5, <3>1, <3>2
  <2>5. Decryptable'
    BY <1>1, <2>1, <2>2, <2>4 DEF Decryptable
  <2>6. KeysKnown'
    BY <1>5, <2>2 DEF KeysKnown
  <2> QED BY <1>3, <2>3, <2>5, <2>6 DEF KeyInv, KeysKnown, RequestsKnow
<1> QED BY <1>4, <1>5 DEF Restart

LEMMA RotateRowKeys == ASSUME KeyInv, NEW x \in Hosts, RotateRow(x) PROVE KeyInv'
<1>1. /\ torotate' = torotate \ {x} /\ UNCHANGED <<secret, stage, unset, request, submits, history>>
  BY DEF RotateRow
<1>2. PlanKey \in AllKeys
  BY KeyTypes DEF KeyInv
<1>3. RequestsKnow'
  BY <1>1 DEF KeyInv, RequestsKnow, Fresh, Committed, EncryptionKey, PlanKey
<1>4. CASE x \in Kept
  <2> DEFINE new == [row[x] EXCEPT !.key = PlanKey]
  <2>1. row[x] \in Stored /\ row' = [row EXCEPT ![x] = new]
    BY <1>4 DEF RotateRow, KeyInv, TypeOK, Kept
  <2>2. new \in Stored /\ new.key = PlanKey
    BY <1>2, <2>1 DEF Stored
  <2> HIDE DEF new
  <2>5. TypeOK'
    BY <1>1, <2>1, <2>2 DEF KeyInv, TypeOK, history
  <2>6. Decryptable' /\ KeysKnown'
    BY <1>1, <2>1, <2>2, RowWritten DEF KeysKnown
  <2> QED BY <1>3, <2>5, <2>6 DEF KeyInv, KeysKnown, RequestsKnow
<1>5. CASE x \notin Kept
  <2>1. row' = row
    BY <1>5 DEF RotateRow
  <2>2. TypeOK'
    BY <1>1, <2>1 DEF KeyInv, TypeOK, history
  <2>3. Decryptable' /\ KeysKnown'
    BY <1>1, <1>5, <2>1 DEF KeyInv, Decryptable, KeysKnown, Kept, PlanKeys, PlanKey
  <2> QED BY <1>3, <2>2, <2>3 DEF KeyInv, KeysKnown, RequestsKnow
<1> QED BY <1>4, <1>5

LEMMA CreateAssetKeys == ASSUME KeyInv, NEW x \in Hosts, CreateAsset(x) PROVE KeyInv'
<1>1. /\ row' = [row EXCEPT ![x] = NoCredentials]
      /\ UNCHANGED <<secret, keys, request, submits, history>>
  BY DEF CreateAsset
<1>3. TypeOK'
  BY <1>1, NothingStored DEF KeyInv, TypeOK, keys, history
<1>4. Decryptable' /\ KeysKnown'
  BY <1>1, RowWritten DEF keys, KeysKnown
<1>5. RequestsKnow'
  BY <1>1 DEF KeyInv, RequestsKnow, Fresh, Committed, EncryptionKey, PlanKey, keys
<1> QED BY <1>3, <1>4, <1>5 DEF KeyInv, KeysKnown, RequestsKnow

LEMMA DeleteAssetKeys == ASSUME KeyInv, NEW x \in Hosts, DeleteAsset(x) PROVE KeyInv'
<1>1. row' = [row EXCEPT ![x] = None] /\ UNCHANGED <<secret, keys, submits, history>>
  BY DEF DeleteAsset
<1>2. ASSUME NEW h \in Handlers
      PROVE  /\ request'[h] \in Request /\ RequestOK(request'[h])
             /\ request'[h].at = request[h].at /\ request'[h].key = request[h].key
  <2> DEFINE r == request[h]
             gone == [r EXCEPT !.loaded = "gone"]
  <2>1. r \in Request /\ RequestOK(r)
    BY DEF KeyInv, TypeOK
  <2>2. /\ gone \in Request /\ gone.at = r.at /\ gone.key = r.key /\ gone.hosts = r.hosts
        /\ gone.all = r.all /\ gone.loaded = "gone"
    BY <2>1, RowGone
  <2>3. request'[h] = r \/ (request'[h] = gone /\ r.loaded = "row")
    BY DEF DeleteAsset
  <2> HIDE DEF gone
  <2>4. r.loaded = "row" => RequestOK(gone)
    BY <2>1, <2>2 DEF RequestOK
  <2> QED BY <2>1, <2>2, <2>3, <2>4
<1>3. request' \in [Handlers -> Request]
  <2>1. request' = [h \in Handlers |-> request'[h]]
    BY DEF DeleteAsset
  <2> QED BY <1>2, <2>1
<1>4. TypeOK'
  BY <1>1, <1>2, <1>3 DEF KeyInv, TypeOK, keys, history
<1>5. Decryptable' /\ KeysKnown'
  BY <1>1, RowWritten DEF keys, KeysKnown
<1>6. RequestsKnow'
  BY <1>1, <1>2 DEF KeyInv, RequestsKnow, Fresh, Committed, EncryptionKey, PlanKey, keys
<1> QED BY <1>4, <1>5, <1>6 DEF KeyInv, KeysKnown, RequestsKnow

LEMMA OthersKeys ==
  ASSUME KeyInv, (\E x \in Hosts : SecretLost(x)) \/ UNCHANGED vars PROVE KeyInv'
<1>1. UNCHANGED <<row, keys, request, submits, history>>
  BY DEF SecretLost, vars, keys, history
<1>2. secret' \in [Hosts -> 0 .. MaxSubmits]
  <2>1. secret \in [Hosts -> 0 .. MaxSubmits] /\ 0 \in 0 .. MaxSubmits
    BY KeyPlanRotates DEF KeyInv, TypeOK
  <2>2. secret' = secret \/ \E x \in Hosts : secret' = [secret EXCEPT ![x] = 0]
    BY DEF SecretLost, vars
  <2> QED BY <2>1, <2>2
<1>3. TypeOK'
  BY <1>1, <1>2 DEF KeyInv, TypeOK, keys, history
<1>4. Decryptable' /\ KeysKnown' /\ RequestsKnow'
  BY <1>1 DEF KeyInv, Decryptable, KeysKnown, RequestsKnow, Fresh, Committed, Kept,
              PlanKeys, PlanKey, EncryptionKey, keys
<1> QED BY <1>3, <1>4 DEF KeyInv, KeysKnown, RequestsKnow

-----------------------------------------------------------------------------
LEMMA InitKeys == Init => KeyInv
<1> SUFFICES ASSUME Init PROVE KeyInv
  OBVIOUS
<1>1. 0 \in 0 .. MaxSubmits /\ 1 \in DOMAIN KeyPlan
  BY KeyPlanRotates
<1>2. request \in [Handlers -> Request] /\ \A h \in Handlers : request[h] = Idle
  BY IdleIsRequest DEF Init
<1>3. TypeOK
  BY <1>1, <1>2, IdleIsRequest DEF Init, TypeOK
<1>4. Kept = {}
  BY DEF Init, Kept
<1>5. \A h \in Handlers : Fresh(request[h]) /\ Committed(request[h])
  BY <1>2, IdleIsRequest DEF Fresh, Committed
<1> QED BY <1>3, <1>4, <1>5 DEF KeyInv, Decryptable

LEMMA KeysStep == KeyInv /\ [Next]_vars => KeyInv'
  BY SetBeginKeys, ResyncBeginKeys, RegisterKeys, SetStoreKeys, ShellFindKeys, ResyncStoreKeys,
     AbortKeys, SetCommitKeys, ShellCommitKeys, RestartKeys, RotateRowKeys, CreateAssetKeys,
     DeleteAssetKeys, OthersKeys
     DEF Next

LEMMA KeysRotate == Spec => []KeyInv
  BY KeysStep, InitKeys, PTL DEF Spec

(* Every reachable state is well typed, for any hosts and requests.           *)
THEOREM TypeCorrect == Spec => []TypeOK
<1>1. KeyInv => TypeOK
  BY DEF KeyInv
<1> QED BY <1>1, KeysRotate, PTL

(* Whatever registrations, requests and restarts do while keys are rotated as *)
(* documented, the keys of the plan decrypt every password that is kept.      *)
THEOREM NoPasswordIsLost == Spec => []Decryptable
<1>1. KeyInv => Decryptable
  BY DEF KeyInv
<1> QED BY <1>1, KeysRotate, PTL

-----------------------------------------------------------------------------
(* The two copies of a password.  A host belongs to a request that nobody    *)
(* overlapped, or in whose time nobody overlapped about that host.           *)
Own(h, x) == x \in request[h].all /\ (request[h].alone \/ trust[x] # "raced")

Apart ==
  /\ \A g, h \in Handlers : g # h /\ request[g].alone => request[g].all \cap request[h].all = {}
  /\ \A x \in Hosts, g, h \in Handlers :
        trust[x] # "raced" /\ x \in request[g].all /\ x \in request[h].all => g = h
  /\ \A x \in Hosts, h \in Handlers : trust[x] = "settled" => x \notin request[h].all

RowDone(r, x) == r.at \in {"find", "upsert"} /\ x \notin ToSet(r.hosts) /\ EncryptionKey # None

(* What a request knows of a host of its own: its password is not older than *)
(* the confirmed one; what it wrote to the Secret, and to the rows of the     *)
(* hosts it is done with, is still there.                                    *)
Known(r, x) ==
  /\ (r.at # "resync" \/ ~ InDoubt(x)) => r.password >= acked[x]
  /\ r.at \in {"commit", "find", "upsert"} => secret[x] \in {r.password, 0}
  /\ (r.at = "resync" \/ RowDone(r, x)) /\ x \in Kept => row[x].password = r.password

Sound(x) ==
  /\ acked[x] <= submits
  /\ x \in Kept => row[x].password <= submits
  /\ x \in Kept /\ ~ InDoubt(x) => row[x].password >= acked[x]
  /\ x \in Kept /\ trust[x] = "settled" => secret[x] \in {row[x].password, 0}
  /\ ~ InDoubt(x) /\ secret[x] # 0 => secret[x] >= acked[x]

Single(r) ==
  /\ r.password <= submits
  /\ r.at \in {"set", "commit", "resync"} => r.all = {Head(r.hosts)}

PassInv ==
  /\ KeyInv
  /\ Apart
  /\ \A x \in Hosts : Sound(x)
  /\ \A h \in Handlers : Single(request[h])
  /\ \A h \in Handlers, x \in Hosts : Own(h, x) => Known(request[h], x)

Typed ==
  /\ submits \in Nat
  /\ \A x \in Hosts : acked[x] \in Nat /\ secret[x] \in Nat
  /\ \A x \in Kept : row[x] \in Stored /\ row[x].password \in Nat /\ x \in Hosts
  /\ \A h \in Handlers : /\ request[h] \in Request /\ RequestOK(request[h])
                         /\ request[h].password \in Nat /\ request[h].all \subseteq Hosts

LEMMA PassTypes == KeyInv => Typed
<1>1. 0 .. MaxSubmits \subseteq Nat
  BY KeyPlanRotates
<1> QED BY <1>1 DEF Typed, KeyInv, TypeOK, Kept, Stored, Request

LEMMA PassTypesNext == KeyInv' => Typed'
  BY PassTypes, PTL

(* What belongs to one request is none of another's business.                *)
LEMMA OneOwner ==
  ASSUME Apart, NEW h \in Handlers, NEW g \in Handlers, g # h, NEW x \in Hosts, Own(h, x)
  PROVE  x \notin request[g].all
<1>1. CASE request[h].alone
  BY <1>1 DEF Apart, Own
<1>2. CASE trust[x] # "raced"
  BY <1>2 DEF Apart, Own
<1> QED BY <1>1, <1>2 DEF Own

-----------------------------------------------------------------------------
(* Steps about nobody's request: rows and Secrets may go, requests may end.  *)
Alike(r, q) == /\ r.at = q.at /\ r.hosts = q.hosts /\ r.all = q.all
               /\ r.password = q.password /\ r.alone = q.alone

LEMMA Background ==
  ASSUME PassInv, KeyInv', UNCHANGED <<acked, trust, submits>>,
         \A x \in Kept' : x \in Kept /\ row'[x].password = row[x].password,
         \A x \in Hosts : secret'[x] \in {secret[x], 0},
         \A h \in Handlers : request'[h] = Idle \/ (Alike(request'[h], request[h])
                                                  /\ EncryptionKey' = EncryptionKey)
  PROVE  PassInv'
<1>0. Idle.all = {} /\ Idle.at = "idle" /\ Idle.password = 0
  BY DEF Idle
<1>1. Apart'
  <2>1. \A h \in Handlers : request'[h].all = {} \/ (request'[h].all = request[h].all
                                                  /\ request'[h].alone = request[h].alone)
    BY <1>0 DEF Alike
  <2> QED BY <2>1 DEF PassInv, Apart
<1>2. ASSUME NEW x \in Hosts PROVE Sound(x)'
  <2>1. Sound(x)
    BY DEF PassInv
  <2> QED BY <2>1, PassTypes DEF Typed, PassInv, Sound, InDoubt
<1>3. ASSUME NEW h \in Handlers PROVE Single(request[h])'
  <2>1. Single(request[h]) /\ 0 <= submits
    BY PassTypes DEF Typed, PassInv
  <2> QED BY <1>0, <2>1 DEF Single, Alike
<1>4. ASSUME NEW h \in Handlers, NEW x \in Hosts, Own(h, x)' PROVE Known(request[h], x)'
  <2>1. Alike(request'[h], request[h]) /\ EncryptionKey' = EncryptionKey
    BY <1>0, <1>4 DEF Own
  <2>2. Own(h, x)
    BY <1>4, <2>1 DEF Own, Alike
  <2>3. Known(request[h], x)
    BY <2>2 DEF PassInv
  <2> QED BY <2>1, <2>3 DEF Known, RowDone, InDoubt, Alike
<1> QED BY <1>1, <1>2, <1>3, <1>4 DEF PassInv

(* A request goes on: only its own hosts change.                             *)
LEMMA GoesOn ==
  ASSUME PassInv, KeyInv', UNCHANGED <<acked, trust, submits, keys>>, NEW h \in Handlers, NEW new,
         request' = [request EXCEPT ![h] = new],
         new.all = request[h].all, new.alone = request[h].alone, new.password = request[h].password,
         Single(new),
         \A x \in Hosts \ request[h].all : row'[x] = row[x] /\ secret'[x] = secret[x],
         \A x \in request[h].all : Sound(x)',
         \A x \in request[h].all : Own(h, x) => Known(request[h], x)'
  PROVE  PassInv'
<1>0. request'[h] = new /\ \A g \in Handlers \ {h} : request'[g] = request[g]
  BY DEF PassInv, KeyInv, TypeOK
<1>1. Apart'
  <2>1. \A g \in Handlers : request'[g].all = request[g].all /\ request'[g].alone = request[g].alone
    BY <1>0
  <2> QED BY <2>1 DEF PassInv, Apart
<1>2. ASSUME NEW x \in Hosts PROVE Sound(x)'
  BY DEF PassInv, Sound, InDoubt, Kept
<1>3. ASSUME NEW g \in Handlers PROVE Single(request[g])'
  BY <1>0 DEF PassInv, Single
<1>4. ASSUME NEW g \in Handlers, NEW x \in Hosts, Own(g, x)' PROVE Known(request[g], x)'
  <2>1. Own(g, x)
    BY <1>0, <1>4 DEF Own
  <2>2. CASE g = h
    BY <2>1, <2>2 DEF Own
  <2>3. CASE g # h
    <3>1. x \notin request[h].all
      BY <2>1, <2>3, OneOwner DEF PassInv
    <3>2. Known(request[g], x)
      BY <2>1 DEF PassInv
    <3>3. EncryptionKey' = EncryptionKey
      BY DEF keys, EncryptionKey, PlanKey
    <3> QED BY <1>0, <2>3, <3>1, <3>2, <3>3 DEF Known, RowDone, InDoubt, Kept
  <2> QED BY <2>2, <2>3
<1> QED BY <1>1, <1>2, <1>3, <1>4 DEF PassInv

(* It ends: its hosts are settled when nobody overlapped with it.            *)
LEMMA Settles ==
  ASSUME PassInv, KeyInv', UNCHANGED <<submits, keys>>, NEW h \in Handlers, Succeed(h),
         request[h].at \in {"commit", "resync", "upsert"},
         \A x \in Hosts \ request[h].all : row'[x] = row[x] /\ secret'[x] = secret[x],
         \A x \in request[h].all : x \in Kept' => row'[x].password <= submits,
         \A x \in request[h].all : Own(h, x) =>
            /\ x \in Kept' /\ ~ Unkept(request[h], x) => row'[x].password = request[h].password
            /\ secret'[x] \in {request[h].password, 0}
  PROVE  PassInv'
<1> DEFINE r == request[h]
<1>0. request'[h] = Idle /\ \A g \in Handlers \ {h} : request'[g] = request[g]
  BY DEF Succeed, PassInv, KeyInv, TypeOK
<1>i. Idle.all = {} /\ Idle.at = "idle" /\ Idle.password = 0
  BY DEF Idle
<1>a. /\ \A x \in Hosts : acked'[x] = IF x \in r.all /\ (r.at # "resync" \/ InDoubt(x))
                                    THEN r.password ELSE acked[x]
      /\ \A x \in Hosts : trust'[x] =
            IF ~ (x \in r.all /\ (r.alone \/ (Unkept(r, x) /\ trust[x] # "raced"))) THEN trust[x]
            ELSE IF Unkept(r, x) THEN "unkept" ELSE "settled"
  BY DEF Succeed
<1>1. Apart'
  <2>1. ASSUME NEW g \in Handlers, NEW x \in Hosts, x \in request'[g].all
        PROVE  g # h /\ request'[g] = request[g] /\ trust'[x] = trust[x]
    <3>1. g # h /\ request'[g] = request[g]
      BY <1>0, <1>i, <2>1
    <3>2. ~(x \in r.all /\ r.alone) /\ ~(x \in r.all /\ trust[x] # "raced")
      BY <2>1, <3>1 DEF PassInv, Apart
    <3> QED BY <1>a, <3>1, <3>2
  <2>2. \A g \in Handlers : request'[g].all \subseteq Hosts
    BY PassTypesNext DEF Typed
  <2>3. ASSUME NEW f \in Handlers, NEW g \in Handlers, f # g, request'[f].alone
        PROVE  request'[f].all \cap request'[g].all = {}
    <3> SUFFICES ASSUME NEW x \in request'[f].all, x \in request'[g].all PROVE FALSE
      OBVIOUS
    <3>1. x \in Hosts
      BY <2>2
    <3>2. request'[f] = request[f] /\ request'[g] = request[g]
      BY <2>1, <3>1
    <3> QED BY <2>3, <3>2 DEF PassInv, Apart
  <2> QED BY <2>1, <2>3 DEF PassInv, Apart
<1>2. ASSUME NEW x \in Hosts PROVE Sound(x)'
  <2>1. Sound(x) /\ r.password <= submits
    BY DEF PassInv, Single
  <2>2. CASE x \notin r.all
    BY <1>a, <2>1, <2>2 DEF Sound, InDoubt, Kept
  <2>3. CASE x \in r.all /\ Own(h, x)
    <3>1. Known(r, x)
      BY <2>3 DEF PassInv
    <3>2. acked'[x] <= r.password
      BY <1>a, <2>3, <3>1, PassTypes DEF Typed, PassInv, Known
    <3>3. acked'[x] <= submits'
      BY <1>a, <2>1 DEF Sound
    <3>4. r.password \in Nat /\ acked'[x] \in Nat /\ submits' \in Nat
      BY PassTypes, PassTypesNext DEF Typed, PassInv
    <3>5. Unkept(r, x) => trust'[x] = "unkept"
      BY <1>a, <2>3 DEF Own
    <3> QED BY <2>1, <2>3, <3>2, <3>3, <3>4, <3>5 DEF Sound, InDoubt
  <2>4. CASE x \in r.all /\ ~Own(h, x)
    <3>1. trust'[x] = "raced"
      BY <1>a, <2>4 DEF Own
    <3>2. acked'[x] <= submits'
      BY <1>a, <2>1 DEF Sound
    <3> QED BY <2>4, <3>1, <3>2 DEF Sound, InDoubt
  <2> QED BY <2>2, <2>3, <2>4
<1>3. ASSUME NEW g \in Handlers PROVE Single(request[g])'
  <2>1. Single(request[g]) /\ 0 <= submits
    BY PassTypes DEF Typed, PassInv
  <2> QED BY <1>0, <1>i, <2>1 DEF Single
<1>4. ASSUME NEW g \in Handlers, NEW x \in Hosts, Own(g, x)' PROVE Known(request[g], x)'
  <2>1. g # h /\ request'[g] = request[g] /\ x \in request[g].all
    BY <1>0, <1>i, <1>4 DEF Own
  <2>2. ~(x \in r.all /\ r.alone) /\ ~(x \in r.all /\ trust[x] # "raced")
    BY <2>1 DEF PassInv, Apart
  <2>3. Own(g, x)
    BY <1>a, <1>4, <2>1, <2>2 DEF Own
  <2>4. x \notin r.all /\ Known(request[g], x)
    BY <2>1, <2>3, OneOwner DEF PassInv
  <2>5. EncryptionKey' = EncryptionKey
    BY DEF keys, EncryptionKey, PlanKey
  <2> QED BY <1>a, <2>1, <2>4, <2>5 DEF Known, RowDone, InDoubt, Kept
<1> QED BY <1>1, <1>2, <1>3, <1>4 DEF PassInv

LEMMA AloneFields ==
  ASSUME NEW r \in Request, NEW alone \in BOOLEAN
  PROVE  LET n == [r EXCEPT !.alone = alone]
         IN  /\ n.at = r.at /\ n.hosts = r.hosts /\ n.all = r.all
             /\ n.password = r.password /\ n.alone = alone
  BY DEF Request

(* It begins: others that are about its hosts lose them.                     *)
LEMMA Arrives ==
  ASSUME PassInv, KeyInv', NEW h \in Handlers, NEW new \in Request, Arrive(h, new), UNCHANGED <<row, keys>>,
         submits <= submits', new.password <= submits',
         new.at \in {"set", "resync"} => new.all = {Head(new.hosts)}, new.at # "commit",
         \A x \in Hosts \ new.all : secret'[x] = secret[x],
         \A x \in new.all : ~ InDoubt(x)' /\ secret'[x] # 0 => secret'[x] >= acked[x],
         \A x \in new.all : Known(new, x)'
  PROVE  PassInv'
<1> DEFINE others == { i \in Handlers : request[i].all \cap new.all # {} }
           first == [new EXCEPT !.alone = others = {}]
           changed(g) == [request[g] EXCEPT !.alone = @ /\ g \notin others]
<1>0. /\ request'[h] = first /\ \A g \in Handlers \ {h} : request'[g] = changed(g)
      /\ acked' = acked
      /\ \A x \in Hosts : trust'[x] = IF x \notin new.all THEN trust[x]
                                    ELSE IF others # {} THEN "raced"
                                    ELSE IF InDoubt(x) THEN trust[x] ELSE "open"
      /\ EncryptionKey' = EncryptionKey
  BY DEF Arrive, keys, EncryptionKey, PlanKey
<1>1. /\ request'[h].at = new.at /\ request'[h].hosts = new.hosts /\ request'[h].all = new.all
      /\ request'[h].password = new.password /\ request'[h].alone = (others = {})
  <2>1. (others = {}) \in BOOLEAN
    OBVIOUS
  <2> HIDE DEF others
  <2> QED BY <1>0, <2>1, AloneFields
<1>2. ASSUME NEW g \in Handlers \ {h}
      PROVE  /\ request'[g].at = request[g].at /\ request'[g].hosts = request[g].hosts
             /\ request'[g].all = request[g].all /\ request'[g].password = request[g].password
             /\ request'[g].alone = (request[g].alone /\ g \notin others)
  <2> DEFINE r == request[g]
  <2>1. r \in Request
    BY PassTypes DEF Typed, PassInv
  <2>2. (r.alone /\ g \notin others) \in BOOLEAN
    OBVIOUS
  <2>3. request'[g] = [r EXCEPT !.alone = r.alone /\ g \notin others]
    BY <1>0
  <2> HIDE DEF others, r
  <2>4. /\ request'[g].at = r.at /\ request'[g].hosts = r.hosts /\ request'[g].all = r.all
        /\ request'[g].password = r.password /\ request'[g].alone = (r.alone /\ g \notin others)
    BY <2>1, <2>2, <2>3, AloneFields
  <2> QED BY <2>4 DEF r
<1>3. \A g \in Handlers : g \notin others => request[g].all \cap new.all = {}
  OBVIOUS
<1>4. ASSUME NEW x \in new.all, trust'[x] # "raced", x \in Hosts
      PROVE  trust[x] # "raced" /\ \A g \in Handlers : x \notin request[g].all
  BY <1>0, <1>4 DEF InDoubt
<1> HIDE DEF others, first, changed
<1>5. Apart'
  <2>1. ASSUME NEW f \in Handlers, NEW g \in Handlers, f # g, request'[f].alone
        PROVE  request'[f].all \cap request'[g].all = {}
    <3>1. CASE f = h
      <4>1. others = {}
        BY <1>1, <2>1, <3>1
      <4> QED BY <1>1, <1>2, <1>3, <2>1, <3>1, <4>1
    <3>2. CASE f # h
      <4>1. request[f].alone /\ f \notin others
        BY <1>2, <2>1, <3>2
      <4>2. CASE g = h
        BY <1>1, <1>2, <1>3, <3>2, <4>1, <4>2
      <4>3. CASE g # h
        <5>1. request[f].all \cap request[g].all = {}
          BY <2>1, <4>1 DEF PassInv, Apart
        <5> QED BY <1>2, <3>2, <4>3, <5>1
      <4> QED BY <4>2, <4>3
    <3> QED BY <3>1, <3>2
  <2>2. ASSUME NEW x \in Hosts, NEW f \in Handlers, NEW g \in Handlers, trust'[x] # "raced",
               x \in request'[f].all, x \in request'[g].all
        PROVE  f = g
    <3>1. CASE x \in new.all
      BY <1>2, <1>4, <2>2, <3>1
    <3>2. CASE x \notin new.all
      <4>1. f # h /\ g # h /\ trust[x] # "raced"
        BY <1>0, <1>1, <2>2, <3>2
      <4> QED BY <1>2, <2>2, <4>1 DEF PassInv, Apart
    <3> QED BY <3>1, <3>2
  <2>3. ASSUME NEW x \in Hosts, NEW g \in Handlers, trust'[x] = "settled"
        PROVE  x \notin request'[g].all
    <3>1. x \notin new.all /\ trust[x] = "settled"
      BY <1>0, <2>3 DEF InDoubt
    <3> QED BY <1>1, <1>2, <3>1 DEF PassInv, Apart
  <2> QED BY <2>1, <2>2, <2>3 DEF Apart
<1>6. ASSUME NEW x \in Hosts PROVE Sound(x)'
  <2>1. Sound(x) /\ acked[x] \in Nat /\ submits \in Nat /\ submits' \in Nat
    BY PassTypes, PassTypesNext DEF Typed, PassInv
  <2>2. Kept' = Kept /\ \A y \in Kept : row[y].password \in Nat
    BY PassTypes DEF Typed, PassInv, Kept
  <2>3. CASE x \in new.all
    <3>1. trust'[x] # "settled" /\ (InDoubt(x) => InDoubt(x)')
      BY <1>0, <2>3 DEF InDoubt
    <3> QED BY <1>0, <2>1, <2>2, <2>3, <3>1 DEF Sound
  <2>4. CASE x \notin new.all
    BY <1>0, <2>1, <2>2, <2>4 DEF Sound, InDoubt
  <2> QED BY <2>3, <2>4
<1>7. ASSUME NEW g \in Handlers PROVE Single(request[g])'
  <2>1. CASE g = h
    BY <1>1, <2>1 DEF Single
  <2>2. CASE g # h
    <3>1. Single(request[g]) /\ request[g].password \in Nat /\ submits \in Nat /\ submits' \in Nat
      BY PassTypes, PassTypesNext DEF Typed, PassInv
    <3> QED BY <1>2, <2>2, <3>1 DEF Single
  <2> QED BY <2>1, <2>2
<1>8. ASSUME NEW g \in Handlers, NEW x \in Hosts, Own(g, x)' PROVE Known(request[g], x)'
  <2>1. CASE g = h
    <3>1. Known(new, x)'
      BY <1>1, <1>8, <2>1 DEF Own
    <3> QED BY <1>1, <2>1, <3>1 DEF Known, RowDone
  <2>2. CASE g # h
    <3>1. x \in request[g].all
      BY <1>2, <1>8, <2>2 DEF Own
    <3>2. x \notin new.all
      <4>1. CASE trust'[x] # "raced"
        BY <1>4, <3>1, <4>1
      <4>2. CASE request'[g].alone
        BY <1>2, <1>3, <2>2, <3>1, <4>2
      <4> QED BY <1>8, <4>1, <4>2 DEF Own
    <3>3. Own(g, x)
      <4>1. request'[g].alone => request[g].alone
        BY <1>2, <2>2
      <4>2. trust'[x] = trust[x]
        BY <1>0, <3>2
      <4> QED BY <1>8, <3>1, <4>1, <4>2 DEF Own
    <3>4. Known(request[g], x)
      BY <3>3 DEF PassInv
    <3> QED BY <1>0, <1>2, <2>2, <3>2, <3>4 DEF Known, RowDone, InDoubt, Kept
  <2> QED BY <2>1, <2>2
<1> QED BY <1>5, <1>6, <1>7, <1>8 DEF PassInv

-----------------------------------------------------------------------------
LEMMA BackgroundPasswords ==
  ASSUME PassInv, KeyInv',
         \/ \E x \in Hosts : CreateAsset(x) \/ DeleteAsset(x) \/ RotateRow(x) \/ SecretLost(x)
         \/ \E h \in Handlers : Abort(h)
         \/ Restart \/ UNCHANGED vars
  PROVE  PassInv'
<1>0. /\ KeyInv /\ TypeOK /\ row \in [Hosts -> Stored \cup {None}] /\ request \in [Handlers -> Request]
      /\ secret \in [Hosts -> 0 .. MaxSubmits]
  BY DEF PassInv, KeyInv, TypeOK
<1>1. /\ \A h \in Handlers : Alike(request[h], request[h])
      /\ \A x \in Hosts : secret[x] \in {secret[x], 0}
      /\ UNCHANGED <<stage, unset>> => EncryptionKey' = EncryptionKey
  BY DEF Alike, EncryptionKey, PlanKey
<1>2. ASSUME NEW x \in Hosts, CreateAsset(x) PROVE PassInv'
  <2>1. \A y \in Kept' : y \in Kept /\ row'[y].password = row[y].password
    BY <1>0, <1>2 DEF CreateAsset, Kept
  <2> QED BY <1>1, <1>2, <2>1, Background DEF CreateAsset, keys, history
<1>3. ASSUME NEW x \in Hosts, DeleteAsset(x) PROVE PassInv'
  <2>1. \A y \in Kept' : y \in Kept /\ row'[y].password = row[y].password
    BY <1>0, <1>3 DEF DeleteAsset, Kept
  <2>2. ASSUME NEW h \in Handlers PROVE Alike(request'[h], request[h])
    <3> DEFINE r == request[h]
               gone == [r EXCEPT !.loaded = "gone"]
    <3>1. Alike(gone, r)
      BY <1>0 DEF Request, Alike
    <3>2. request'[h] \in {r, gone}
      BY <1>3 DEF DeleteAsset
    <3> QED BY <1>1, <3>1, <3>2
  <2> QED BY <1>1, <1>3, <2>1, <2>2, Background DEF DeleteAsset, keys, history
<1>4. ASSUME NEW x \in Hosts, RotateRow(x) PROVE PassInv'
  <2>1. \A y \in Kept' : y \in Kept /\ row'[y].password = row[y].password
    BY <1>0, <1>4 DEF RotateRow, Kept, Stored
  <2> QED BY <1>1, <1>4, <2>1, Background DEF RotateRow, history
<1>5. ASSUME NEW x \in Hosts, SecretLost(x) PROVE PassInv'
  <2>1. \A y \in Hosts : secret'[y] \in {secret[y], 0}
    BY <1>0, <1>5 DEF SecretLost
  <2>2. \A y \in Kept' : y \in Kept /\ row'[y].password = row[y].password
    BY <1>5 DEF SecretLost, Kept
  <2> QED BY <1>1, <1>5, <2>1, <2>2, Background DEF SecretLost, keys, history
<1>6. ASSUME UNCHANGED <<row, secret, submits, history>>,
             \A h \in Handlers : request'[h] = Idle \/ (request'[h] = request[h] /\ UNCHANGED keys)
      PROVE  PassInv'
  <2>1. \A y \in Kept' : y \in Kept /\ row'[y].password = row[y].password
    BY <1>6 DEF Kept
  <2> QED BY <1>1, <1>6, <2>1, Background DEF history, keys
<1>7. ASSUME NEW h \in Handlers, Abort(h) PROVE PassInv'
  BY <1>0, <1>6, <1>7 DEF Abort, history
<1>8. CASE Restart
  BY <1>6, <1>8 DEF Restart
<1>9. CASE UNCHANGED vars
  BY <1>6, <1>9 DEF vars, history, keys
<1> QED BY <1>2, <1>3, <1>4, <1>5, <1>7, <1>8, <1>9

-----------------------------------------------------------------------------
LEMMA SetBeginPasswords ==
  ASSUME PassInv, KeyInv', NEW h \in Handlers, NEW x \in Hosts, SetBegin(h, x)
  PROVE  PassInv'
<1>0. Typed /\ Typed' /\ Sound(x) /\ submits' = submits + 1 /\ submits' \in 0 .. MaxSubmits
  BY PassTypes, PassTypesNext, KeyPlanRotates DEF PassInv, KeyInv, TypeOK, SetBegin, NewPassword
<1>1. PICK new \in Request : /\ new.at = "set" /\ new.hosts = <<x>> /\ new.all = {x}
                            /\ new.password = submits' /\ Arrive(h, new)
  <2> DEFINE begun == [Idle EXCEPT !.at = "set", !.hosts = <<x>>, !.all = {x},
                                   !.password = submits', !.loaded = "row"]
  <2>1. begun \in Request
    BY <1>0, SetIsRequest
  <2>2. begun.at = "set" /\ begun.hosts = <<x>> /\ begun.all = {x} /\ begun.password = submits'
    BY DEF Idle
  <2>3. Arrive(h, begun)
    BY DEF SetBegin
  <2> HIDE DEF begun
  <2> QED BY <2>1, <2>2, <2>3
<1>2. new.all = {Head(new.hosts)} /\ UNCHANGED <<row, secret, keys>>
  BY <1>1 DEF SetBegin
<1>3. acked' = acked /\ (InDoubt(x) => InDoubt(x)')
  BY <1>1, <1>2 DEF Arrive, InDoubt
<1>4. acked[x] <= submits' /\ submits <= submits'
  BY <1>0 DEF Typed, Sound
<1>5. Known(new, x)'
  BY <1>1, <1>3, <1>4 DEF Known, RowDone
<1>6. ~ InDoubt(x)' /\ secret'[x] # 0 => secret'[x] >= acked[x]
  BY <1>0, <1>2, <1>3 DEF Sound
<1>7. new.password <= submits'
  BY <1>0, <1>1 DEF Typed
<1> QED BY <1>1, <1>2, <1>4, <1>5, <1>6, <1>7, Arrives

LEMMA ResyncBeginPasswords ==
  ASSUME PassInv, KeyInv', NEW h \in Handlers, NEW x \in Hosts, ResyncBegin(h, x)
  PROVE  PassInv'
<1>0. Typed /\ Sound(x) /\ x \in Kept /\ row[x] \in Stored
  BY PassTypes DEF PassInv, ResyncBegin, Typed
<1>1. PICK new \in Request : /\ new.at = "resync" /\ new.hosts = <<x>> /\ new.all = {x}
                            /\ new.password = row[x].password /\ Arrive(h, new)
  <2> DEFINE begun == [Idle EXCEPT !.at = "resync", !.hosts = <<x>>, !.all = {x},
                                   !.password = row[x].password, !.key = row[x].key]
  <2>1. begun \in Request
    BY <1>0, ResyncIsRequest
  <2>2. /\ begun.at = "resync" /\ begun.hosts = <<x>> /\ begun.all = {x}
        /\ begun.password = row[x].password
    BY DEF Idle
  <2>3. Arrive(h, begun)
    BY DEF ResyncBegin
  <2> HIDE DEF begun
  <2> QED BY <2>1, <2>2, <2>3
<1>2. new.all = {Head(new.hosts)} /\ UNCHANGED <<row, secret, keys, submits>>
  BY <1>1 DEF ResyncBegin
<1>3. acked' = acked /\ (InDoubt(x) => InDoubt(x)')
  BY <1>1, <1>2 DEF Arrive, InDoubt
<1>4. Known(new, x)'
  BY <1>0, <1>1, <1>2, <1>3 DEF Known, RowDone, Sound
<1>5. ~ InDoubt(x)' /\ secret'[x] # 0 => secret'[x] >= acked[x]
  BY <1>0, <1>2, <1>3 DEF Sound
<1>6. new.password <= submits' /\ submits <= submits'
  BY <1>0, <1>1, <1>2 DEF Typed, Sound
<1> QED BY <1>1, <1>2, <1>4, <1>5, <1>6, Arrives

LEMMA RegisterPasswords ==
  ASSUME PassInv, KeyInv', NEW h \in Handlers, NEW hosts \in Selections, Register(h, hosts)
  PROVE  PassInv'
<1>0. Typed /\ Typed' /\ submits' = submits + 1 /\ submits' \in 0 .. MaxSubmits
  BY PassTypes, PassTypesNext, KeyPlanRotates DEF PassInv, KeyInv, TypeOK, Register, NewPassword
<1>1. PICK n \in 0 .. Len(hosts), at \in {"find", "refused"}, new \in Request :
          /\ at = "find" => n = Len(hosts)
          /\ RegisterHosts(hosts, submits', n)
          /\ new.at = at /\ new.all = ToSet(hosts) /\ new.password = submits' /\ new.hosts = hosts
          /\ Arrive(h, new)
  <2> DEFINE r == [Idle EXCEPT !.hosts = hosts, !.all = ToSet(hosts), !.password = submits']
             begun(at) == [r EXCEPT !.at = at]
  <2>1. PICK n \in 0 .. Len(hosts), at \in {"find", "refused"} :
            /\ at = "find" => n = Len(hosts)
            /\ RegisterHosts(hosts, submits', n)
            /\ Arrive(h, begun(at))
    BY DEF Register
  <2>2. begun(at) \in Request /\ begun(at).at = at
    BY <1>0, RegisterIsRequest
  <2>3. begun(at).all = ToSet(hosts) /\ begun(at).hosts = hosts /\ begun(at).password = submits'
    BY DEF Idle
  <2> HIDE DEF begun
  <2> QED BY <2>1, <2>2, <2>3
<1>2. UNCHANGED <<row, keys>>
  BY DEF Register
<1>4. PICK m \in 1 .. Cardinality(Hosts) : hosts \in [1 .. m -> Hosts]
  BY DEF Selections
<1>5. hosts \in Seq(Hosts) /\ ToSet(hosts) \subseteq Hosts
  BY <1>4 DEF ToSet
<1>6. ToSet(SubSeq(hosts, 1, n)) \subseteq ToSet(hosts)
  BY <1>5 DEF ToSet
<1>7. at = "find" => ToSet(SubSeq(hosts, 1, n)) = ToSet(hosts)
  <2> SUFFICES ASSUME at = "find" PROVE ToSet(SubSeq(hosts, 1, n)) = ToSet(hosts)
    OBVIOUS
  <2>1. Len(hosts) \in Nat /\ DOMAIN hosts = 1 .. Len(hosts) /\ n = Len(hosts)
    BY <1>1, <1>5
  <2>2. SubSeq(hosts, 1, Len(hosts)) = hosts
    BY <1>5, <2>1
  <2> QED BY <2>1, <2>2
<1>8. \A x \in Hosts : secret'[x] = IF x \in ToSet(SubSeq(hosts, 1, n)) THEN submits' ELSE secret[x]
  BY <1>1 DEF RegisterHosts
<1>9. acked' = acked /\ \A x \in ToSet(hosts) : InDoubt(x) => InDoubt(x)'
  BY <1>1, <1>5 DEF Arrive, InDoubt
<1>10. \A x \in Hosts : acked[x] <= submits' /\ acked[x] \in Nat
  BY <1>0 DEF Typed, PassInv, Sound
<1>11. ASSUME NEW x \in new.all PROVE Known(new, x)'
  <2>1. x \in Hosts /\ x \in ToSet(hosts)
    BY <1>1, <1>5, <1>11
  <2>2. at = "find" => secret'[x] = submits'
    BY <1>7, <1>8, <2>1
  <2>3. at = "find" \/ at = "refused"
    OBVIOUS
  <2> QED BY <1>1, <1>9, <1>10, <2>1, <2>2, <2>3 DEF Known, RowDone
<1>12. ASSUME NEW x \in new.all, ~ InDoubt(x)', secret'[x] # 0 PROVE secret'[x] >= acked[x]
  <2>1. x \in Hosts /\ Sound(x) /\ ~ InDoubt(x)
    BY <1>1, <1>5, <1>9, <1>12 DEF PassInv
  <2> QED BY <1>8, <1>10, <1>12, <2>1 DEF Sound
<1>13. new.password <= submits' /\ submits <= submits'
  BY <1>0, <1>1 DEF Typed
<1>14. \A x \in Hosts \ new.all : secret'[x] = secret[x]
  BY <1>1, <1>6, <1>8
<1>15. new.at # "commit" /\ new.at \notin {"set", "resync"}
  BY <1>1
<1> QED BY <1>1, <1>2, <1>11, <1>12, <1>13, <1>14, <1>15, Arrives

-----------------------------------------------------------------------------
LEMMA SetStorePasswords ==
  ASSUME PassInv, KeyInv', NEW h \in Handlers, SetStore(h)
  PROVE  PassInv'
<1> DEFINE r == request[h]
           new == [r EXCEPT !.at = "commit", !.key = EncryptionKey]
<1>x. PICK x \in Hosts : x = Head(r.hosts) /\ r.all = {x}
  BY PassTypes DEF PassInv, SetStore, Single, Typed
<1>0. /\ Typed /\ r \in Request /\ r.at = "set" /\ r.all = {x} /\ x \in Hosts /\ r.password <= submits
      /\ secret \in [Hosts -> 0 .. MaxSubmits] /\ Sound(x)
  BY <1>x, PassTypes DEF PassInv, KeyInv, TypeOK, SetStore, Single, Typed
<1>1. /\ new.at = "commit" /\ new.hosts = r.hosts /\ new.all = r.all
      /\ new.password = r.password /\ new.alone = r.alone
  BY <1>0 DEF Request
<1>2. /\ request' = [request EXCEPT ![h] = new] /\ UNCHANGED <<row, keys, submits, history>>
      /\ secret' = [secret EXCEPT ![x] = r.password]
  BY <1>x DEF SetStore
<1> HIDE DEF new
<1>3. request'[h] = new
  BY <1>2 DEF PassInv, KeyInv, TypeOK
<1>4. trust[x] # "raced" => Own(h, x)
  BY <1>0 DEF Own
<1>5. Own(h, x) => r.password >= acked[x]
  BY <1>0 DEF PassInv, Known
<1>6. Sound(x)'
  <2>1. trust[x] # "settled"
    BY <1>0 DEF PassInv, Apart
  <2> QED BY <1>0, <1>2, <1>4, <1>5, <2>1 DEF Sound, InDoubt, Kept, history
<1>7. Own(h, x) => Known(request[h], x)'
  BY <1>0, <1>1, <1>2, <1>3, <1>5 DEF Known, RowDone, history
<1>8. Single(new)
  BY <1>x, <1>0, <1>1 DEF Single
<1>9. \A y \in Hosts \ r.all : row'[y] = row[y] /\ secret'[y] = secret[y]
  BY <1>0, <1>2
<1> QED BY <1>0, <1>1, <1>2, <1>6, <1>7, <1>8, <1>9, GoesOn DEF history

LEMMA ShellFindPasswords ==
  ASSUME PassInv, KeyInv', NEW h \in Handlers, ShellFind(h)
  PROVE  PassInv'
<1> DEFINE r == request[h]
           found == IF row[Head(r.hosts)] = None THEN "none" ELSE "row"
           new == [r EXCEPT !.at = "upsert", !.key = EncryptionKey, !.loaded = found]
<1>0. Typed /\ r \in Request /\ r.at = "find" /\ r.all \subseteq Hosts /\ r.password <= submits
  BY PassTypes DEF PassInv, ShellFind, Single, Typed
<1>1. /\ new.at = "upsert" /\ new.hosts = r.hosts /\ new.all = r.all
      /\ new.password = r.password /\ new.alone = r.alone
  <2> HIDE DEF found, r
  <2> QED BY <1>0 DEF Request
<1>2. request' = [request EXCEPT ![h] = new] /\ UNCHANGED <<row, secret, keys, submits, history>>
  BY DEF ShellFind
<1> HIDE DEF new
<1>3. request'[h] = new
  BY <1>2 DEF PassInv, KeyInv, TypeOK
<1>4. ASSUME NEW x \in r.all PROVE Sound(x)' /\ (Own(h, x) => Known(request[h], x)')
  <2>1. Sound(x) /\ (Own(h, x) => Known(r, x))
    BY <1>0 DEF PassInv
  <2>2. Sound(x)'
    BY <1>2, <2>1 DEF Sound, InDoubt, Kept, history
  <2>3. EncryptionKey' = EncryptionKey
    BY <1>2 DEF keys, EncryptionKey, PlanKey
  <2> QED BY <1>0, <1>1, <1>2, <1>3, <2>1, <2>2, <2>3 DEF Known, RowDone, InDoubt, Kept, history
<1>5. Single(new)
  BY <1>0, <1>1 DEF Single
<1> QED BY <1>0, <1>1, <1>2, <1>4, <1>5, GoesOn DEF history

-----------------------------------------------------------------------------
LEMMA ResyncStorePasswords ==
  ASSUME PassInv, KeyInv', NEW h \in Handlers, ResyncStore(h)
  PROVE  PassInv'
<1> DEFINE r == request[h]
           x == Head(r.hosts)
<1>0. /\ r.at = "resync" /\ r.all = {x} /\ x \in Hosts /\ Sound(x) /\ secret \in [Hosts -> 0 .. MaxSubmits]
      /\ Succeed(h) /\ UNCHANGED <<row, keys, submits>> /\ secret' = [secret EXCEPT ![x] = r.password]
  BY PassTypes DEF PassInv, KeyInv, TypeOK, ResyncStore, Single, Typed
<1>1. x \in Kept' => row'[x].password <= submits
  BY <1>0 DEF Sound, Kept
<1>2. Own(h, x) => /\ x \in Kept' => row'[x].password = r.password
                   /\ secret'[x] \in {r.password, 0}
  BY <1>0 DEF PassInv, Known, Kept
<1>3. \A y \in Hosts \ r.all : row'[y] = row[y] /\ secret'[y] = secret[y]
  BY <1>0
<1> QED BY <1>0, <1>1, <1>2, <1>3, Settles

LEMMA SetCommitPasswords ==
  ASSUME PassInv, KeyInv', NEW h \in Handlers, SetCommit(h)
  PROVE  PassInv'
<1> DEFINE r == request[h]
           x == Head(r.hosts)
           new == [password |-> r.password, key |-> r.key]
<1>0. /\ r.at = "commit" /\ r.all = {x} /\ x \in Hosts /\ r.password <= submits
      /\ row \in [Hosts -> Stored \cup {None}]
      /\ Succeed(h) /\ UNCHANGED <<secret, keys, submits>> /\ row' = [row EXCEPT ![x] = new]
  BY PassTypes DEF PassInv, KeyInv, TypeOK, SetCommit, Single, Typed
<1>1. row'[x].password = r.password
  BY <1>0
<1>2. Own(h, x) => secret'[x] \in {r.password, 0}
  BY <1>0 DEF PassInv, Known
<1>3. \A y \in Hosts \ r.all : row'[y] = row[y] /\ secret'[y] = secret[y]
  BY <1>0
<1> QED BY <1>0, <1>1, <1>2, <1>3, Settles

LEMMA ShellCommitPasswords ==
  ASSUME PassInv, KeyInv', NEW h \in Handlers, ShellCommit(h)
  PROVE  PassInv'
<1> DEFINE r == request[h]
           x == Head(r.hosts)
           kept == IF r.key = None THEN NoCredentials ELSE [password |-> r.password, key |-> r.key]
           written == IF r.loaded = "row" /\ r.key = None THEN row[x] ELSE kept
<1>0. /\ Typed /\ TypeOK /\ r \in Request /\ r.at = "upsert" /\ r.all \subseteq Hosts /\ r.password <= submits
      /\ r.hosts \in Seq(Hosts) /\ r.hosts # <<>> /\ ToSet(r.hosts) \subseteq r.all
      /\ row \in [Hosts -> Stored \cup {None}] /\ r.key = EncryptionKey /\ Decryptable
  BY PassTypes DEF PassInv, KeyInv, TypeOK, Fresh, ShellCommit, Single, Typed, Request, RequestOK
<1>1. /\ row' = [row EXCEPT ![x] = written] /\ UNCHANGED <<secret, keys, submits>>
  BY DEF ShellCommit, Shell
<1>2. x \in Hosts /\ x \in r.all /\ ToSet(r.hosts) = {x} \cup ToSet(Tail(r.hosts))
  <2>1. /\ Len(r.hosts) \in Nat \ {0} /\ x = r.hosts[1] /\ DOMAIN r.hosts = 1 .. Len(r.hosts)
        /\ Len(Tail(r.hosts)) = Len(r.hosts) - 1
        /\ \A i \in 1 .. Len(r.hosts) - 1 : Tail(r.hosts)[i] = r.hosts[i + 1]
    BY <1>0
  <2>2. ToSet(r.hosts) \subseteq {x} \cup ToSet(Tail(r.hosts))
    <3> SUFFICES ASSUME NEW i \in 1 .. Len(r.hosts), i # 1
                 PROVE  r.hosts[i] \in ToSet(Tail(r.hosts))
      BY <1>0, <2>1 DEF ToSet
    <3>1. i - 1 \in 1 .. Len(r.hosts) - 1 /\ Tail(r.hosts)[i - 1] = r.hosts[i]
      BY <2>1
    <3>2. DOMAIN Tail(r.hosts) = 1 .. Len(r.hosts) - 1
      BY <1>0, <2>1
    <3> QED BY <3>1, <3>2 DEF ToSet
  <2>3. {x} \cup ToSet(Tail(r.hosts)) \subseteq ToSet(r.hosts)
    BY <1>0, <2>1 DEF ToSet
  <2> QED BY <1>0, <2>1, <2>2, <2>3
<1>3. EncryptionKey' = EncryptionKey
  BY <1>1 DEF keys, EncryptionKey, PlanKey
<1>4. /\ r.key # None /\ x \in Kept' => row'[x].password = r.password
      /\ r.key = None /\ x \in Kept' => x \in Kept /\ row'[x] = row[x]
  <2>1. row'[x] = written
    BY <1>0, <1>1, <1>2
  <2> QED BY <1>2, <2>1 DEF Kept
<1> HIDE DEF written, kept
<1>5. \A y \in Hosts : y # x => row'[y] = row[y] /\ (y \in Kept' <=> y \in Kept)
  BY <1>0, <1>1 DEF Kept
<1>6. \A y \in Hosts \ r.all : row'[y] = row[y] /\ secret'[y] = secret[y]
  BY <1>1, <1>2, <1>5
<1>7. ASSUME NEW y \in r.all, y \in Kept' PROVE row'[y].password <= submits
  <2>1. y \in Hosts /\ Sound(y)
    BY <1>0 DEF PassInv
  <2> QED BY <1>0, <1>4, <1>5, <1>7, <2>1 DEF Sound
<1>8. ASSUME NEW y \in r.all, Own(h, y)
      PROVE  /\ (r.key # None /\ y \notin ToSet(Tail(r.hosts)) /\ y \in Kept')
                   => row'[y].password = r.password
             /\ secret'[y] \in {r.password, 0} /\ r.password >= acked[y]
  <2>1. y \in Hosts /\ Known(r, y)
    BY <1>0, <1>8 DEF PassInv
  <2> QED BY <1>0, <1>1, <1>2, <1>4, <1>5, <2>1 DEF Known, RowDone
<1>9. CASE Len(r.hosts) = 1
  <2>1. Succeed(h)
    BY <1>9 DEF ShellCommit
  <2>2. ToSet(Tail(r.hosts)) = {}
    BY <1>0, <1>9 DEF ToSet
  <2>3. ASSUME NEW y \in r.all, y \in Kept', ~ Unkept(r, y) PROVE r.key # None
    BY <1>0, <1>4, <1>5, <2>3 DEF Unkept
  <2> QED BY <1>0, <1>1, <1>6, <1>7, <1>8, <2>1, <2>2, <2>3, Settles
<1>10. CASE Len(r.hosts) # 1
  <2> DEFINE next == [r EXCEPT !.at = "find", !.hosts = Tail(r.hosts), !.loaded = "none"]
  <2>1. request' = [request EXCEPT ![h] = next] /\ UNCHANGED <<acked, trust, submits, keys>>
    BY <1>1, <1>10 DEF ShellCommit, history
  <2>2. /\ next.at = "find" /\ next.hosts = Tail(r.hosts) /\ next.all = r.all
        /\ next.password = r.password /\ next.alone = r.alone
    BY <1>0 DEF Request
  <2> HIDE DEF next
  <2>3. request'[h] = next
    BY <2>1 DEF PassInv, KeyInv, TypeOK
  <2>4. ASSUME NEW y \in r.all PROVE Sound(y)' /\ (Own(h, y) => Known(request[h], y)')
    <3>1. y \in Hosts /\ Sound(y) /\ trust[y] # "settled"
      BY <1>0 DEF PassInv, Apart
    <3>2. Own(h, y) => Known(request[h], y)'
      BY <1>0, <1>3, <1>8, <2>1, <2>2, <2>3 DEF Known, RowDone
    <3>3. ~ InDoubt(y) => Own(h, y)
      BY DEF Own, InDoubt
    <3>4. y \in Kept' /\ ~ InDoubt(y) => row'[y].password >= acked[y]
      <4>1. CASE y = x /\ r.key # None
        BY <1>4, <1>8, <3>3, <4>1
      <4>2. CASE y # x \/ r.key = None
        BY <1>4, <1>5, <3>1, <4>2 DEF Sound
      <4> QED BY <4>1, <4>2
    <3>5. InDoubt(y)' <=> InDoubt(y)
      BY <2>1 DEF InDoubt
    <3> QED BY <1>1, <1>7, <2>1, <3>1, <3>2, <3>4, <3>5 DEF Sound
  <2>5. Single(next)
    BY <1>0, <2>2 DEF Single
  <2> QED BY <1>6, <2>1, <2>2, <2>4, <2>5, GoesOn
<1> QED BY <1>9, <1>10

-----------------------------------------------------------------------------
LEMMA InitPasswords == Init => PassInv
<1> SUFFICES ASSUME Init PROVE PassInv
  OBVIOUS
<1>1. KeyInv
  BY InitKeys
<1>2. Idle.all = {} /\ Idle.at = "idle" /\ Idle.password = 0
  BY DEF Idle
<1>3. \A h \in Handlers : request[h] = Idle
  BY DEF Init
<1>4. Kept = {}
  BY DEF Init, Kept
<1>5. \A x \in Hosts : acked[x] = 0 /\ secret[x] = 0 /\ submits = 0
  BY DEF Init
<1>6. submits = 0
  BY DEF Init
<1> QED BY <1>1, <1>2, <1>3, <1>4, <1>5, <1>6 DEF PassInv, Apart, Sound, Single, Own

LEMMA PasswordsStep == PassInv /\ [Next]_vars => PassInv'
<1> SUFFICES ASSUME PassInv, [Next]_vars PROVE PassInv'
  OBVIOUS
<1>1. KeyInv'
  BY KeysStep DEF PassInv
<1> QED BY <1>1, BackgroundPasswords, SetBeginPasswords, ResyncBeginPasswords, RegisterPasswords,
           SetStorePasswords, ShellFindPasswords, ResyncStorePasswords, SetCommitPasswords,
           ShellCommitPasswords
        DEF Next

LEMMA PasswordsAgree == Spec => []PassInv
  BY InitPasswords, PasswordsStep, PTL DEF Spec

(* Once a request about a host ran alone and succeeded, Secret and row hold   *)
(* the same password, whatever failed or overlapped before, and whether or   *)
(* not the process has a key; unless that request was a registration without *)
(* a key of a host whose password is kept (hardware_assets.py:143-171,        *)
(* baremetalhosts.py:39-69).                                                 *)
THEOREM StoresHeal == Spec => []StoresAgree
<1>1. PassInv => StoresAgree
  BY DEF PassInv, Sound, StoresAgree, Kept
<1> QED BY <1>1, PasswordsAgree, PTL

(* A confirmed password gives way only to a newer one, except to requests     *)
(* that overlap and after a registration without a key that left an older    *)
(* one in the row (hardware_assets.py:174-198, baremetalhosts.py:47-53).      *)
THEOREM ConfirmedPasswordsStay == Spec => []AcknowledgedKept
<1>1. PassInv => AcknowledgedKept
  BY DEF PassInv, Sound, AcknowledgedKept
<1> QED BY <1>1, PasswordsAgree, PTL
=============================================================================
