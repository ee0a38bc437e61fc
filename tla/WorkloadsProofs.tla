--------------------------- MODULE WorkloadsProofs ---------------------------
(* The status of a workload is true and nothing of it is left behind, for any *)
(* number of names and requests.                                            *)
EXTENDS Workloads, Naturals, TLAPS

(* No request about w has met another one.                                   *)
Alone(w) == \A g, h \in Handlers : request[g].name = w /\ request[h].name = w => g = h

(* What a request about w that runs alone knows: the row it loaded is there,  *)
(* with the status it read or wrote.                                         *)
Holds(h, w) ==
    LET r == request[h]
    IN  /\ r.at = "insert" => row[w] = None
        /\ r.at \in {"mark", "clean"} => r.present /\ row[w] = r.status
        /\ r.at \in {"apply", "record"} => r.present /\ row[w] = "deploying"
        /\ r.at = "record" /\ r.status = "running" => objects[w] = Objects
        /\ r.at = "remove" => r.present

(* As long as no call failed, a request has both objects or none in its wake. *)
Tidy(h, w) ==
    LET r == request[h]
    IN  /\ r.at = "insert" => objects[w] = {}
        /\ r.at \in {"record", "clean"} => r.status = "running"
        /\ r.at = "remove" => objects[w] = {}

Rests(w) == row[w] = "running" \/ (row[w] = None /\ objects[w] = {})
Removing(w) == \E h \in Handlers : request[h].name = w /\ request[h].at = "remove"

Followed(w) ==
    /\ \A h \in Handlers : request[h].name = w => Holds(h, w)
    /\ row[w] = "running" /\ ~Removing(w) => objects[w] = Objects

Clean(w) ==
    /\ \A h \in Handlers : request[h].name = w => Tidy(h, w)
    /\ About(w) = {} => Rests(w)

Course(w) ==
    "overlap" \notin trouble[w]
    => /\ Alone(w)
       /\ "cut" \notin trouble[w] => Followed(w)
       /\ trouble[w] = {} => Clean(w)

Courses == \A w \in Names : Course(w)
IInv == TypeOK /\ Courses

-----------------------------------------------------------------------------
LEMMA IdleIsRequest == Idle \in Request /\ Idle.at = "idle" /\ Idle.name = None
  BY DEF Idle, Request, AIWorkloadStatus

(* A request that goes on stays a request; the others do not notice.         *)
LEMMA Continued ==
  ASSUME TypeOK, NEW h \in Handlers, request[h].at # "idle",
         NEW point \in {"apply", "record", "remove"}, NEW status \in AIWorkloadStatus \cup {None},
         Continue(h, point, status)
  PROVE  /\ request' \in [Handlers -> Request]
         /\ request'[h].at = point /\ request'[h].status = status
         /\ request'[h].name = request[h].name /\ request'[h].present = request[h].present
         /\ \A g \in Handlers \ {h} : request'[g] = request[g]
  BY SMT DEF TypeOK, Continue, Request

LEMMA Answered ==
  ASSUME TypeOK, NEW h \in Handlers, Answer(h)
  PROVE  /\ request' \in [Handlers -> Request]
         /\ request'[h] = Idle
         /\ \A g \in Handlers \ {h} : request'[g] = request[g]
  BY IdleIsRequest DEF TypeOK, Answer

LEMMA Arrived ==
  ASSUME TypeOK, NEW h \in Handlers, NEW w \in Names,
         NEW point \in {"insert", "mark", "clean"}, NEW status \in AIWorkloadStatus \cup {None},
         Arrive(h, w, point, status)
  PROVE  /\ request' \in [Handlers -> Request]
         /\ request'[h] = [at |-> point, name |-> w, status |-> status, present |-> status # None]
         /\ \A g \in Handlers \ {h} : request'[g] = request[g]
         /\ UNCHANGED <<row, objects, kubeconfig>>
         /\ trouble' \in [Names -> SUBSET Troubles]
         /\ \A v \in Names \ {w} : trouble'[v] = trouble[v]
         /\ request[h] = Idle
<1>1. request' \in [Handlers -> Request]
  BY DEF TypeOK, Arrive, Request
<1>2. trouble' \in [Names -> SUBSET Troubles] /\ \A v \in Names \ {w} : trouble'[v] = trouble[v]
  BY DEF TypeOK, Arrive, Note, Troubles
<1> QED BY <1>1, <1>2 DEF TypeOK, Arrive

LEMMA ArrivalFields ==
  ASSUME NEW r, NEW point, NEW w, NEW status,
         r = [at |-> point, name |-> w, status |-> status, present |-> status # None]
  PROVE  r.at = point /\ r.name = w /\ r.status = status /\ (r.present <=> status # None)
<1>1. r.at = point /\ r.name = w /\ r.status = status
  BY SMT
<1>2. r.present = (status # None)
  BY Zenon
<1> QED BY <1>1, <1>2

LEMMA Noted ==
  ASSUME TypeOK, NEW w \in Names, NEW what \in SUBSET Troubles, Note(w, what)
  PROVE  /\ trouble' \in [Names -> SUBSET Troubles]
         /\ trouble'[w] = trouble[w] \cup what
         /\ \A v \in Names \ {w} : trouble'[v] = trouble[v]
  BY DEF TypeOK, Note

-----------------------------------------------------------------------------
(* What an action has to show for TypeOK: its own request is consistent, and  *)
(* no row that another request may hold goes away.                           *)
LEMMA OwnRequestOK ==
  ASSUME TypeOK, NEW h \in Handlers,
         row' \in [Names -> AIWorkloadStatus \cup {None}], objects' \in [Names -> SUBSET Objects],
         kubeconfig' = kubeconfig, trouble' \in [Names -> SUBSET Troubles],
         request' \in [Handlers -> Request],
         \A g \in Handlers \ {h} : request'[g] = request[g],
         \A v \in Names : row[v] # None => row'[v] # None,
         RequestOK(request[h])'
  PROVE  TypeOK'
<1>1. ASSUME NEW g \in Handlers \ {h} PROVE RequestOK(request[g])'
  <2>1. request'[g] = request[g] /\ RequestOK(request[g])
    BY DEF TypeOK
  <2>2. request[g].present => request[g].name \in Names
    BY IdleIsRequest DEF TypeOK, RequestOK, Idle
  <2> QED BY <2>1, <2>2 DEF RequestOK
<1> QED BY <1>1 DEF TypeOK

LEMMA IdleOK == ASSUME NEW r, r = Idle PROVE RequestOK(r)'
  BY DEF Idle, RequestOK

LEMMA InitTypeOK == Init => TypeOK
<1> SUFFICES ASSUME Init PROVE TypeOK
  OBVIOUS
<1>1. request \in [Handlers -> Request]
  BY IdleIsRequest DEF Init
<1>2. \A h \in Handlers : RequestOK(request[h])
  BY DEF Init, Idle, RequestOK
<1>3. /\ objects \in [Names -> SUBSET Objects] /\ trouble \in [Names -> SUBSET Troubles]
      /\ row \in [Names -> AIWorkloadStatus \cup {None}] /\ kubeconfig \in BOOLEAN
  BY DEF Init
<1> QED BY <1>1, <1>2, <1>3 DEF TypeOK

LEMMA NextTypeOK == ASSUME TypeOK, [Next]_vars PROVE TypeOK'
<1> USE NoneIsNothing
<1>1. ASSUME NEW h \in Handlers, NEW w \in Names, NEW point \in {"insert", "mark", "clean"},
             NEW status \in AIWorkloadStatus \cup {None}, status # None => row[w] # None,
             Arrive(h, w, point, status)
      PROVE  TypeOK'
  <2>1. /\ request' \in [Handlers -> Request]
        /\ request'[h] = [at |-> point, name |-> w, status |-> status, present |-> status # None]
        /\ \A g \in Handlers \ {h} : request'[g] = request[g]
        /\ UNCHANGED <<row, objects, kubeconfig>>
        /\ trouble' \in [Names -> SUBSET Troubles]
    BY <1>1, Arrived
  <2>2. /\ request'[h].at = point /\ request'[h].name = w
        /\ request'[h].present <=> status # None
    BY <2>1, ArrivalFields
  <2>3. RequestOK(request[h])'
    BY <1>1, <2>1, <2>2 DEF RequestOK
  <2> QED BY <2>1, <2>3, OwnRequestOK DEF TypeOK
<1>2. ASSUME NEW h \in Handlers, CreateInsert(h) PROVE TypeOK'
  <2>1. request[h].name \in Names
    BY <1>2 DEF CreateInsert, TypeOK, RequestOK
  <2>2. request'[h] = [at |-> "mark", name |-> request[h].name, status |-> "pending",
                       present |-> TRUE]
    BY <1>2 DEF CreateInsert, TypeOK
  <2>3. request' \in [Handlers -> Request] /\ \A g \in Handlers \ {h} : request'[g] = request[g]
    BY <1>2, <2>1 DEF CreateInsert, TypeOK, Request, AIWorkloadStatus
  <2>4. /\ row' \in [Names -> AIWorkloadStatus \cup {None}]
        /\ row'[request[h].name] = "pending"
        /\ \A v \in Names : row[v] # None => row'[v] # None
    BY <1>2, <2>1 DEF CreateInsert, TypeOK, AIWorkloadStatus
  <2>5. RequestOK(request[h])'
    BY <2>1, <2>2, <2>4 DEF RequestOK, AIWorkloadStatus
  <2> QED BY <1>2, <2>3, <2>4, <2>5, OwnRequestOK DEF CreateInsert, TypeOK
<1>3. ASSUME NEW h \in Handlers, request[h].at \in {"mark", "record"},
             NEW status \in AIWorkloadStatus,
             \/ row' = row
             \/ Store(h, status)
      PROVE  /\ request[h].name \in Names
             /\ row' \in [Names -> AIWorkloadStatus \cup {None}]
             /\ \A v \in Names : row[v] # None => row'[v] # None
  BY <1>3 DEF Store, TypeOK, RequestOK
<1>4. ASSUME NEW h \in Handlers, MarkDeploying(h) PROVE TypeOK'
  <2>1. /\ request[h].at = "mark" /\ request[h].name \in Names
        /\ Continue(h, "apply", "deploying")
        /\ row' \in [Names -> AIWorkloadStatus \cup {None}]
        /\ \A v \in Names : row[v] # None => row'[v] # None
    BY <1>3, <1>4 DEF MarkDeploying, AIWorkloadStatus
  <2>2. /\ request' \in [Handlers -> Request]
        /\ request'[h].at = "apply" /\ request'[h].status = "deploying"
        /\ request'[h].name = request[h].name /\ request'[h].present = request[h].present
        /\ \A g \in Handlers \ {h} : request'[g] = request[g]
    BY <2>1, Continued DEF AIWorkloadStatus
  <2>3. RequestOK(request[h])'
    BY <2>1, <2>2 DEF TypeOK, RequestOK
  <2> QED BY <1>4, <2>1, <2>2, <2>3, OwnRequestOK DEF MarkDeploying, TypeOK
<1>5. ASSUME NEW h \in Handlers, Apply(h) PROVE TypeOK'
  <2>1. /\ request[h].at = "apply" /\ request[h].name \in Names
        /\ UNCHANGED <<row, kubeconfig>>
    BY <1>5 DEF Apply, TypeOK, RequestOK
  <2>2. PICK status \in {"running", "failed"}, what \in SUBSET Troubles :
           Outcome(h, status, what)
    BY <1>5 DEF Apply, Troubles
  <2>3. objects' \in [Names -> SUBSET Objects]
    BY <1>5, <2>1 DEF Apply, TypeOK, Objects
  <2>4. /\ request' \in [Handlers -> Request]
        /\ request'[h].at = "record" /\ request'[h].status = status
        /\ request'[h].name = request[h].name /\ request'[h].present = request[h].present
        /\ \A g \in Handlers \ {h} : request'[g] = request[g]
    BY <2>1, <2>2, Continued DEF Outcome, AIWorkloadStatus
  <2>5. trouble' \in [Names -> SUBSET Troubles]
    BY <2>1, <2>2, Noted DEF Outcome
  <2>6. RequestOK(request[h])'
    BY <2>1, <2>4 DEF TypeOK, RequestOK
  <2> QED BY <2>1, <2>3, <2>4, <2>5, <2>6, OwnRequestOK DEF TypeOK
<1>6. ASSUME NEW h \in Handlers, Record(h) PROVE TypeOK'
  <2>1. request[h].at = "record" /\ request[h].status \in AIWorkloadStatus
    BY <1>6 DEF Record, TypeOK, RequestOK, AIWorkloadStatus
  <2>2. /\ row' \in [Names -> AIWorkloadStatus \cup {None}]
        /\ \A v \in Names : row[v] # None => row'[v] # None
    BY <1>3, <1>6, <2>1 DEF Record
  <2> QED BY <1>6, <2>1, <2>2, Answered, IdleOK, OwnRequestOK DEF Record, TypeOK
<1>8. ASSUME NEW h \in Handlers, DeleteClean(h) PROVE TypeOK'
  <2>1. /\ request[h].at = "clean" /\ request[h].name \in Names
        /\ UNCHANGED <<row, kubeconfig>> /\ Continue(h, "remove", request[h].status)
    BY <1>8 DEF DeleteClean, TypeOK, RequestOK
  <2>2. objects' \in [Names -> SUBSET Objects]
    BY <1>8, <2>1 DEF DeleteClean, TypeOK
  <2>3. trouble' = trouble \/ \E what \in SUBSET Troubles : Note(request[h].name, what)
    BY <1>8 DEF DeleteClean, Troubles
  <2>4. trouble' \in [Names -> SUBSET Troubles]
    BY <2>1, <2>3, Noted DEF TypeOK
  <2>5. request[h].status \in AIWorkloadStatus \cup {None}
    BY DEF TypeOK, Request
  <2>6. /\ request' \in [Handlers -> Request]
        /\ request'[h].at = "remove"
        /\ request'[h].name = request[h].name /\ request'[h].present = request[h].present
        /\ \A g \in Handlers \ {h} : request'[g] = request[g]
    BY <2>1, <2>5, Continued
  <2>7. RequestOK(request[h])'
    BY <2>1, <2>6 DEF TypeOK, RequestOK
  <2> QED BY <2>1, <2>2, <2>4, <2>6, <2>7, OwnRequestOK DEF TypeOK
<1>9. ASSUME NEW h \in Handlers, DeleteCommit(h) PROVE TypeOK'
  <2> DEFINE w == request[h].name
  <2>1. w \in Names /\ UNCHANGED <<objects, kubeconfig, trouble>>
    BY <1>9 DEF DeleteCommit, TypeOK, RequestOK
  <2>2. row' \in [Names -> AIWorkloadStatus \cup {None}]
    BY <1>9, <2>1 DEF DeleteCommit, TypeOK
  <2>3. request' \in [Handlers -> Request]
    <3>1. ASSUME NEW g \in Handlers PROVE [request[g] EXCEPT !.present = FALSE] \in Request
      BY DEF TypeOK, Request
    <3>2. \A g \in Handlers : request[g] \in Request
      BY DEF TypeOK
    <3> QED BY <1>9, <3>1, <3>2, IdleIsRequest DEF DeleteCommit
  <2>4. ASSUME NEW g \in Handlers PROVE RequestOK(request[g])'
    <3>1. CASE g = h
      BY <1>9, <3>1, IdleOK DEF DeleteCommit
    <3>2. CASE g # h /\ request[h].present /\ request[g].name = w
      <4>1. request'[g] = [request[g] EXCEPT !.present = FALSE]
        BY <1>9, <3>2 DEF DeleteCommit
      <4>2. request[g] \in Request /\ RequestOK(request[g])
        BY DEF TypeOK
      <4>3. request'[g] \in Request /\ request'[g].at = request[g].at
            /\ request'[g].name = request[g].name /\ request'[g].status = request[g].status
            /\ request'[g].present = FALSE
        BY <4>1, <4>2 DEF Request
      <4>4. request[g].at # "idle"
        BY <2>1, <3>2, <4>2, NoneIsNothing DEF RequestOK, Idle
      <4> QED BY <4>2, <4>3, <4>4 DEF RequestOK
    <3>3. CASE g # h /\ ~(request[h].present /\ request[g].name = w)
      <4>1. request'[g] = request[g] /\ RequestOK(request[g])
        BY <1>9, <3>3 DEF DeleteCommit, TypeOK
      <4>2. request[g].present => request[g].name \in Names /\ row'[request[g].name] # None
        BY <1>9, <2>1, <3>3, <4>1 DEF DeleteCommit, RequestOK, TypeOK, Idle
      <4> QED BY <4>1, <4>2 DEF RequestOK
    <3> QED BY <3>1, <3>2, <3>3
  <2> QED BY <2>1, <2>2, <2>3, <2>4 DEF TypeOK
<1>10. ASSUME NEW h \in Handlers, Abort(h) PROVE TypeOK'
  <2>1. request[h].name \in Names /\ {"cut"} \in SUBSET Troubles
    BY <1>10 DEF Abort, TypeOK, RequestOK, Troubles
  <2>2. trouble' \in [Names -> SUBSET Troubles]
    BY <1>10, <2>1, Noted DEF Abort
  <2> QED BY <1>10, <2>2, Answered, IdleOK, OwnRequestOK DEF Abort, TypeOK
<1>11. CASE KubeconfigChanges
  BY <1>11 DEF KubeconfigChanges, TypeOK, RequestOK
<1>12. CASE UNCHANGED vars
  BY <1>12 DEF vars, TypeOK, RequestOK
<1>13. ASSUME NEW h \in Handlers, NEW w \in Names,
              CreateBegin(h, w) \/ RedeployBegin(h, w) \/ DeleteBegin(h, w)
       PROVE  TypeOK'
  <2>1. row[w] \in AIWorkloadStatus \cup {None}
    BY DEF TypeOK
  <2> QED BY <1>1, <1>13, <2>1 DEF CreateBegin, RedeployBegin, DeleteBegin
<1> QED BY <1>2, <1>4, <1>5, <1>6, <1>8, <1>9, <1>10, <1>11, <1>12, <1>13 DEF Next, Resume

(* Every reachable state is well typed: a request that still holds its row    *)
(* finds it in the table, and one that records has an outcome.               *)
THEOREM TypeCorrect == Spec => []TypeOK
<1>1. Init => TypeOK
  BY InitTypeOK
<1>2. TypeOK /\ [Next]_vars => TypeOK'
  BY NextTypeOK
<1> QED BY <1>1, <1>2, PTL DEF Spec

-----------------------------------------------------------------------------
(* A name whose row, objects, history and requests do not change keeps its    *)
(* course.                                                                   *)
LEMMA Elsewhere ==
  ASSUME NEW v \in Names, Course(v),
         row'[v] = row[v], objects'[v] = objects[v], trouble'[v] = trouble[v],
         \A g \in Handlers : request[g].name = v \/ request'[g].name = v
                             => request'[g] = request[g]
  PROVE  Course(v)'
<1>1. \A g \in Handlers : request'[g].name = v <=> request[g].name = v
  OBVIOUS
<1>2. Alone(v) => Alone(v)'
  BY <1>1 DEF Alone
<1>3. \A g \in Handlers : request'[g].name = v => (Holds(g, v) => Holds(g, v)')
                                                   /\ (Tidy(g, v) => Tidy(g, v)')
  BY <1>1 DEF Holds, Tidy
<1>4. Removing(v)' <=> Removing(v)
  BY <1>1 DEF Removing
<1>5. Followed(v) => Followed(v)'
  BY <1>1, <1>3, <1>4 DEF Followed
<1>6. About(v)' = About(v)
  BY <1>1 DEF About
<1>7. Clean(v) => Clean(v)'
  BY <1>1, <1>3, <1>6 DEF Clean, Rests
<1> QED BY <1>2, <1>5, <1>7 DEF Course

(* What a request knows as long as no other is about its name.               *)
LEMMA OwnFacts ==
  ASSUME NEW w \in Names, Course(w), NEW h \in Handlers, request[h].name = w,
         "overlap" \notin trouble[w]
  PROVE  /\ \A g \in Handlers \ {h} : request[g].name # w
         /\ "cut" \notin trouble[w]
            => /\ Holds(h, w)
               /\ row[w] = "running" /\ request[h].at # "remove" => objects[w] = Objects
         /\ trouble[w] = {} => Tidy(h, w)
<1>1. \A g \in Handlers \ {h} : request[g].name # w
  BY DEF Course, Alone
<1>2. Removing(w) => request[h].at = "remove"
  BY <1>1 DEF Removing
<1> QED BY <1>1, <1>2 DEF Course, Followed, Clean

(* What it has to show when it goes on,                                      *)
LEMMA OwnCourse ==
  ASSUME NEW w \in Names, NEW h \in Handlers, request'[h].name = w,
         \A g \in Handlers \ {h} : request'[g].name # w,
         "cut" \notin trouble'[w]
            => /\ Holds(h, w)'
               /\ row'[w] = "running" /\ request'[h].at # "remove" => objects'[w] = Objects,
         trouble'[w] = {} => Tidy(h, w)'
  PROVE  Course(w)'
<1>1. Alone(w)' /\ h \in About(w)'
  BY DEF Alone, About
<1>2. request'[h].at = "remove" => Removing(w)'
  BY DEF Removing
<1>3. "cut" \notin trouble'[w] => Followed(w)'
  BY <1>2 DEF Followed
<1>4. trouble'[w] = {} => Clean(w)'
  BY <1>1 DEF Clean
<1> QED BY <1>1, <1>3, <1>4 DEF Course

(* and when it ends.                                                         *)
LEMMA LastCourse ==
  ASSUME NEW w \in Names, \A g \in Handlers : request'[g].name # w,
         "cut" \notin trouble'[w] => (row'[w] = "running" => objects'[w] = Objects),
         trouble'[w] = {} => Rests(w)'
  PROVE  Course(w)'
<1>1. Alone(w)'
  BY DEF Alone
<1>2. "cut" \notin trouble'[w] => Followed(w)'
  BY DEF Followed
<1>3. trouble'[w] = {} => Clean(w)'
  BY DEF Clean
<1> QED BY <1>1, <1>2, <1>3 DEF Course

-----------------------------------------------------------------------------
LEMMA ArriveCourse ==
  ASSUME TypeOK, Courses, NEW h \in Handlers, NEW w \in Names,
         NEW point \in {"insert", "mark", "clean"}, NEW status \in AIWorkloadStatus \cup {None},
         status = row[w], point = "insert" <=> status = None,
         Arrive(h, w, point, status)
  PROVE  Courses'
<1>1. /\ request'[h] = [at |-> point, name |-> w, status |-> status, present |-> status # None]
      /\ \A g \in Handlers \ {h} : request'[g] = request[g]
      /\ UNCHANGED <<row, objects, kubeconfig>>
      /\ \A v \in Names \ {w} : trouble'[v] = trouble[v]
      /\ request[h] = Idle
  BY Arrived
<1>2. /\ request'[h].at = point /\ request'[h].name = w /\ request'[h].status = status
      /\ request'[h].present <=> status # None
  BY <1>1, ArrivalFields
<1>3. ASSUME NEW v \in Names \ {w} PROVE Course(v)'
  BY <1>1, <1>2, <1>3, Elsewhere, IdleIsRequest, NoneIsNothing DEF Courses
<1>4. CASE About(w) # {}
  <2>1. "overlap" \in trouble'[w]
    BY <1>4 DEF Arrive, Note, TypeOK
  <2> QED BY <1>3, <2>1 DEF Courses, Course
<1>5. CASE About(w) = {}
  <2>1. \A g \in Handlers : request[g].name # w
    BY <1>5 DEF About
  <2>2. \A g \in Handlers \ {h} : request'[g].name # w
    BY <1>1, <2>1
  <2>3. "overlap" \in trouble'[w] => "overlap" \in trouble[w]
    BY <1>5 DEF Arrive, TypeOK
  <2>4. \/ trouble'[w] = {} /\ row[w] = None /\ objects[w] = {}
        \/ trouble'[w] = trouble[w]
    BY <1>5 DEF Arrive, TypeOK
  <2>5. CASE "overlap" \in trouble'[w]
    BY <1>3, <2>5 DEF Courses, Course
  <2>6. CASE "overlap" \notin trouble'[w]
    <3>1. "cut" \notin trouble'[w] => (row[w] = "running" => objects[w] = Objects)
      <4>1. ~Removing(w)
        BY <2>1 DEF Removing
      <4> QED BY <2>4, <2>6, <4>1, NoneIsNothing DEF Courses, Course, Followed, AIWorkloadStatus
    <3>2. trouble'[w] = {} => Rests(w)
      BY <1>5, <2>4, <2>6 DEF Courses, Course, Clean, Rests
    <3>3. Holds(h, w)'
      BY <1>1, <1>2 DEF Holds
    <3>4. trouble'[w] = {} => Tidy(h, w)'
      BY <1>1, <1>2, <3>2, NoneIsNothing DEF Tidy, Rests, AIWorkloadStatus
    <3>5. Course(w)'
      BY <1>1, <1>2, <2>2, <3>1, <3>3, <3>4, OwnCourse
    <3> QED BY <1>3, <3>5 DEF Courses
  <2> QED BY <2>5, <2>6
<1> QED BY <1>4, <1>5

(* The later steps of a request, under the name it is about.                  *)
LEMMA ResumeCourse ==
  ASSUME TypeOK, Courses, NEW h \in Handlers, NEW w \in Names, request[h].name = w,
         Resume(h) \/ Abort(h)
  PROVE  Course(w)'
<1> SUFFICES ASSUME "overlap" \notin trouble'[w] PROVE Course(w)'
  BY DEF Course
<1> USE NoneIsNothing
<1>1. "overlap" \notin trouble[w]
  <2>1. trouble[w] \subseteq trouble'[w]
    BY DEF Resume, Abort, CreateInsert, MarkDeploying, Apply, Outcome, Record, DeleteClean,
           DeleteCommit, Note, TypeOK
  <2> QED BY <2>1
<1>2. /\ \A g \in Handlers \ {h} : request[g].name # w
      /\ "cut" \notin trouble[w]
            => /\ Holds(h, w)
               /\ row[w] = "running" /\ request[h].at # "remove" => objects[w] = Objects
      /\ trouble[w] = {} => Tidy(h, w)
  BY <1>1, OwnFacts DEF Courses
<1>3. CASE CreateInsert(h)
  <2>1. /\ request'[h] = [at |-> "mark", name |-> w, status |-> "pending", present |-> TRUE]
        /\ \A g \in Handlers \ {h} : request'[g] = request[g]
        /\ row'[w] = "pending" /\ UNCHANGED <<objects, trouble>>
    BY <1>3 DEF CreateInsert, TypeOK
  <2>2. Holds(h, w)' /\ Tidy(h, w)'
    BY <2>1 DEF Holds, Tidy
  <2> QED BY <1>2, <2>1, <2>2, OwnCourse
<1>4. CASE MarkDeploying(h)
  <2>1. /\ request[h].at = "mark" /\ Continue(h, "apply", "deploying")
        /\ UNCHANGED <<objects, trouble>>
    BY <1>4 DEF MarkDeploying
  <2>2. /\ request'[h].at = "apply" /\ request'[h].name = w
        /\ request'[h].present = request[h].present
        /\ \A g \in Handlers \ {h} : request'[g] = request[g]
    BY <2>1, Continued DEF AIWorkloadStatus
  <2>3. "cut" \notin trouble[w] => row'[w] = "deploying" /\ request[h].present
    BY <1>2, <1>4, <2>1 DEF MarkDeploying, Store, Holds, TypeOK
  <2>4. "cut" \notin trouble'[w] => Holds(h, w)'
    BY <2>1, <2>2, <2>3 DEF Holds
  <2>5. Tidy(h, w)'
    BY <2>2 DEF Tidy
  <2> QED BY <1>2, <2>1, <2>2, <2>3, <2>4, <2>5, OwnCourse
<1>5. CASE Apply(h)
  <2>1. request[h].at = "apply" /\ UNCHANGED row
    BY <1>5 DEF Apply
  <2>2. PICK status \in {"running", "failed"}, what \in SUBSET Troubles :
           /\ Outcome(h, status, what)
           /\ status = "failed" => what # {}
           /\ status = "running" => objects'[w] = Objects
    BY <1>5 DEF Apply, Troubles, TypeOK
  <2>3. /\ request'[h].at = "record" /\ request'[h].name = w /\ request'[h].status = status
        /\ request'[h].present = request[h].present
        /\ \A g \in Handlers \ {h} : request'[g] = request[g]
    BY <2>1, <2>2, Continued DEF Outcome, AIWorkloadStatus
  <2>4. trouble'[w] = trouble[w] \cup what
    BY <2>2, Noted DEF Outcome
  <2>5. "cut" \notin trouble'[w] => row[w] = "deploying" /\ Holds(h, w)'
    BY <1>2, <2>1, <2>2, <2>3, <2>4 DEF Holds
  <2>6. trouble'[w] = {} => Tidy(h, w)'
    BY <2>2, <2>3, <2>4 DEF Tidy
  <2> QED BY <1>2, <2>1, <2>3, <2>5, <2>6, OwnCourse
<1>6. CASE Record(h)
  <2>1. /\ request[h].at = "record" /\ row'[w] = request[h].status
        /\ UNCHANGED <<objects, trouble>>
    BY <1>6 DEF Record, Store, TypeOK
  <2>2. \A g \in Handlers : request'[g].name # w
    BY <1>2, <1>6, Answered, IdleIsRequest DEF Record
  <2>3. "cut" \notin trouble'[w] => (row'[w] = "running" => objects'[w] = Objects)
    BY <1>2, <2>1 DEF Holds
  <2>4. trouble'[w] = {} => Rests(w)'
    BY <1>2, <2>1 DEF Tidy, Rests
  <2> QED BY <2>2, <2>3, <2>4, LastCourse
<1>7. CASE DeleteClean(h)
  <2>1. /\ request[h].at = "clean" /\ Continue(h, "remove", request[h].status) /\ UNCHANGED row
        /\ request[h].status \in AIWorkloadStatus \cup {None}
    BY <1>7 DEF DeleteClean, TypeOK, Request
  <2>2. /\ request'[h].at = "remove" /\ request'[h].name = w
        /\ request'[h].present = request[h].present
        /\ \A g \in Handlers \ {h} : request'[g] = request[g]
    BY <2>1, Continued
  <2>3. trouble[w] \subseteq trouble'[w]
    BY <1>7 DEF DeleteClean, Note, TypeOK
  <2>4. "cut" \notin trouble'[w] => Holds(h, w)'
    BY <1>2, <2>1, <2>2, <2>3 DEF Holds
  <2>5. request[h].status = "running" /\ trouble'[w] = {} => objects'[w] = {}
    BY <1>7 DEF DeleteClean, Note, TypeOK
  <2>6. trouble'[w] = {} => Tidy(h, w)'
    BY <1>2, <2>1, <2>2, <2>3, <2>5 DEF Tidy
  <2> QED BY <1>2, <2>2, <2>4, <2>6, OwnCourse
<1>8. CASE DeleteCommit(h)
  <2>1. /\ request[h].at = "remove" /\ UNCHANGED <<objects, trouble>>
        /\ request[h].present => row'[w] = None
    BY <1>8 DEF DeleteCommit, TypeOK
  <2>2. \A g \in Handlers : request'[g].name # w
    BY <1>2, <1>8, IdleIsRequest DEF DeleteCommit
  <2>3. "cut" \notin trouble'[w] => row'[w] = None
    BY <1>2, <2>1 DEF Holds
  <2>4. trouble'[w] = {} => Rests(w)'
    BY <1>2, <2>1, <2>3 DEF Tidy, Rests
  <2> QED BY <2>2, <2>3, <2>4, LastCourse DEF AIWorkloadStatus
<1>9. CASE Abort(h)
  <2>1. "cut" \in trouble'[w]
    BY <1>9, Noted DEF Abort, Troubles
  <2>2. \A g \in Handlers : request'[g].name # w
    BY <1>2, <1>9, Answered, IdleIsRequest DEF Abort
  <2> QED BY <2>1, <2>2, LastCourse
<1> QED BY <1>3, <1>4, <1>5, <1>6, <1>7, <1>8, <1>9 DEF Resume

(* Other names do not notice.                                                *)
LEMMA ResumeElsewhere ==
  ASSUME TypeOK, Courses, NEW h \in Handlers, NEW w \in Names, request[h].name = w,
         Resume(h) \/ Abort(h), NEW v \in Names \ {w}
  PROVE  Course(v)'
<1>1. row'[v] = row[v] /\ objects'[v] = objects[v] /\ trouble'[v] = trouble[v]
  BY DEF Resume, Abort, CreateInsert, MarkDeploying, Apply, Outcome, Record, DeleteClean,
         DeleteCommit, Store, Note, TypeOK
<1>2. request'[h].name # v
  BY IdleIsRequest, NoneIsNothing
     DEF Resume, Abort, CreateInsert, MarkDeploying, Apply, Outcome, Record, DeleteClean,
         DeleteCommit, Continue, Answer, TypeOK
<1>3. \A g \in Handlers \ {h} : request[g].name = v \/ request'[g].name = v
                                => request'[g] = request[g]
  <2>1. CASE DeleteCommit(h)
    <3> SUFFICES ASSUME NEW g \in Handlers \ {h}, request[g].name = v \/ request'[g].name = v
                 PROVE  request'[g] = request[g]
      OBVIOUS
    <3>1. CASE request[g].name = w
      <4>1. request[g] \in Request
        BY DEF TypeOK
      <4>2. request'[g] = request[g] \/ request'[g] = [request[g] EXCEPT !.present = FALSE]
        BY <2>1 DEF DeleteCommit
      <4>3. request'[g].name = w
        BY <3>1, <4>1, <4>2 DEF Request
      <4> QED BY <3>1, <4>3
    <3>2. CASE request[g].name # w
      BY <2>1, <3>2 DEF DeleteCommit
    <3> QED BY <3>1, <3>2
  <2>2. CASE ~DeleteCommit(h)
    BY <2>2 DEF Resume, Abort, CreateInsert, MarkDeploying, Apply, Outcome, Record, DeleteClean,
                Continue, Answer, TypeOK
  <2> QED BY <2>1, <2>2
<1> QED BY <1>1, <1>2, <1>3, Elsewhere DEF Courses

LEMMA NextCourses == ASSUME IInv, [Next]_vars PROVE Courses'
<1> USE DEF IInv
<1>1. ASSUME NEW h \in Handlers, NEW w \in Names,
             CreateBegin(h, w) \/ RedeployBegin(h, w) \/ DeleteBegin(h, w)
      PROVE  Courses'
  <2>1. row[w] \in AIWorkloadStatus \cup {None}
    BY DEF TypeOK
  <2> QED BY <1>1, <2>1, ArriveCourse DEF CreateBegin, RedeployBegin, DeleteBegin
<1>2. ASSUME NEW h \in Handlers, Resume(h) \/ Abort(h) PROVE Courses'
  <2>1. request[h].at # "idle"
    BY <1>2, IdleIsRequest
       DEF Resume, Abort, CreateInsert, MarkDeploying, Apply, Record, DeleteClean, DeleteCommit,
           TypeOK, RequestOK
  <2>2. request[h].name \in Names
    BY <2>1 DEF TypeOK, RequestOK
  <2> QED BY <1>2, <2>2, ResumeCourse, ResumeElsewhere DEF Courses
<1>3. CASE KubeconfigChanges \/ UNCHANGED vars
  BY <1>3, Elsewhere DEF KubeconfigChanges, vars, Courses
<1> QED BY <1>1, <1>2, <1>3 DEF Next

LEMMA InitCourses == Init => Courses
<1> SUFFICES ASSUME Init, NEW w \in Names PROVE Course(w)
  BY DEF Courses
<1>1. \A h \in Handlers : request[h].name # w
  BY NoneIsNothing DEF Init, Idle
<1>2. row[w] = None /\ objects[w] = {} /\ trouble[w] = {}
  BY DEF Init
<1> QED BY <1>1, <1>2, NoneIsNothing
        DEF Course, Alone, Followed, Clean, Rests, AIWorkloadStatus

LEMMA CoursesHold == Spec => []IInv
<1>1. Init => IInv
  BY InitTypeOK, InitCourses DEF IInv
<1>2. IInv /\ [Next]_vars => IInv'
  BY NextTypeOK, NextCourses DEF IInv
<1> QED BY <1>1, <1>2, PTL DEF Spec

(* Whatever requests about other names do, a workload shown as running runs:  *)
(* unless requests about it overlapped or were cut off, both objects exist.   *)
THEOREM RunningStaysReal == Spec => []RunningIsReal
<1>1. IInv => RunningIsReal
  <2> SUFFICES ASSUME IInv, NEW w \in Names, row[w] = "running",
                      trouble[w] \cap {"overlap", "cut"} = {},
                      \A h \in About(w) : request[h].at # "remove"
               PROVE  objects[w] = Objects
    BY DEF RunningIsReal
  <2>1. ~Removing(w)
    BY DEF Removing, About
  <2> QED BY <2>1 DEF IInv, Courses, Course, Followed
<1> QED BY <1>1, CoursesHold, PTL

(* Without a row nothing is left on the cluster, unless a call was refused or  *)
(* passed over, or requests overlapped or were cut off.                       *)
THEOREM OrphansAreExplained == Spec => []OrphansExplained
<1>1. IInv => OrphansExplained
  <2> SUFFICES ASSUME IInv, NEW w \in Names, row[w] = None, trouble[w] = {}
               PROVE  objects[w] = {}
    BY DEF OrphansExplained
  <2>1. Alone(w) /\ Followed(w) /\ Clean(w)
    BY DEF IInv, Courses, Course
  <2>2. CASE About(w) = {}
    BY <2>1, <2>2, NoneIsNothing DEF Clean, Rests, AIWorkloadStatus
  <2>3. CASE About(w) # {}
    <3>1. PICK h \in Handlers : request[h].name = w
      BY <2>3 DEF About
    <3>2. Holds(h, w) /\ Tidy(h, w) /\ request[h] \in Request /\ RequestOK(request[h])
      BY <2>1, <3>1 DEF Followed, Clean, IInv, TypeOK
    <3>3. request[h].at = "insert" \/ request[h].at = "mark" \/ request[h].at = "clean"
          \/ request[h].at = "remove" \/ request[h].at \in {"apply", "record"}
      BY <3>1, <3>2, NoneIsNothing DEF Request, RequestOK, Idle
    <3>4. request[h].present => row[w] # None
      BY <3>1, <3>2 DEF RequestOK
    <3> QED BY <3>2, <3>3, <3>4 DEF Holds, Tidy
  <2> QED BY <2>2, <2>3
<1> QED BY <1>1, CoursesHold, PTL
-----------------------------------------------------------------------------
(* What Settles rests on: a row that is pending or deploying has a request    *)
(* that still holds it and has the outcome ahead,                            *)

Unsettled == {"pending", "deploying"}

Pursues(h, w) ==
    LET r == request[h]
    IN  r.name = w /\ r.present /\ r.at \in {"mark", "apply", "record"}

Pursued ==
    \A w \in Names : row[w] \in Unsettled /\ "cut" \notin trouble[w]
                     => \E h \in Handlers : Pursues(h, w)

LEMMA PursuitGoesOn ==
  ASSUME Pursued, NEW h \in Handlers,
         \A g \in Handlers \ {h} : request'[g] = request[g],
         \A v \in Names : row'[v] \in Unsettled /\ "cut" \notin trouble'[v]
            => \/ Pursues(h, v)'
               \/ row[v] \in Unsettled /\ "cut" \notin trouble[v] /\ ~Pursues(h, v)
  PROVE  Pursued'
<1> SUFFICES ASSUME NEW v \in Names, row'[v] \in Unsettled, "cut" \notin trouble'[v],
                    ~Pursues(h, v)'
             PROVE  \E g \in Handlers : Pursues(g, v)'
  BY DEF Pursued
<1>1. PICK g \in Handlers : Pursues(g, v)
  BY DEF Pursued
<1>2. g # h
  BY <1>1
<1> QED BY <1>1, <1>2 DEF Pursues

LEMMA ArrivePursued ==
  ASSUME TypeOK, Pursued, NEW h \in Handlers, NEW w \in Names,
         NEW point \in {"insert", "mark", "clean"}, NEW status \in AIWorkloadStatus \cup {None},
         Arrive(h, w, point, status)
  PROVE  Pursued'
<1>1. /\ \A g \in Handlers \ {h} : request'[g] = request[g]
      /\ row' = row /\ request[h] = Idle
  BY Arrived
<1>2. \A v \in Names : ~Pursues(h, v)
  BY <1>1, IdleIsRequest DEF Pursues
<1>3. None \notin Unsettled
  BY NoneIsNothing DEF Unsettled, AIWorkloadStatus
<1>4. \A v \in Names : row[v] \in Unsettled /\ "cut" \notin trouble'[v] => "cut" \notin trouble[v]
  BY <1>3 DEF Arrive, Note, TypeOK
<1> QED BY <1>1, <1>2, <1>4, PursuitGoesOn

LEMMA ResumePursued ==
  ASSUME TypeOK, Pursued, NEW h \in Handlers, Resume(h) \/ Abort(h)
  PROVE  Pursued'
<1>1. PICK w \in Names : request[h].at # "idle" /\ w = request[h].name
  <2>1. request[h].at # "idle"
    BY IdleIsRequest
       DEF Resume, Abort, CreateInsert, MarkDeploying, Apply, Record, DeleteClean, DeleteCommit,
           TypeOK, RequestOK
  <2> QED BY <2>1 DEF TypeOK, RequestOK
<1>2. \A v \in Names \ {w} : /\ ~Pursues(h, v)
                             /\ row'[v] = row[v] /\ trouble'[v] = trouble[v]
  BY <1>1 DEF Pursues, Resume, Abort, CreateInsert, MarkDeploying, Apply, Outcome, Record, DeleteClean,
         DeleteCommit, Store, Note, TypeOK
<1>3. ASSUME \A g \in Handlers \ {h} : request'[g] = request[g],
             row'[w] \in Unsettled /\ "cut" \notin trouble'[w]
             => \/ Pursues(h, w)'
                \/ row[w] \in Unsettled /\ "cut" \notin trouble[w] /\ ~Pursues(h, w)
      PROVE  Pursued'
  BY <1>2, <1>3, PursuitGoesOn
<1>4. CASE CreateInsert(h)
  <2>1. /\ \A g \in Handlers \ {h} : request'[g] = request[g]
        /\ request'[h] = [at |-> "mark", name |-> w, status |-> "pending", present |-> TRUE]
    BY <1>1, <1>4 DEF CreateInsert, TypeOK
  <2>2. Pursues(h, w)'
    BY <1>1, <2>1 DEF Pursues
  <2> QED BY <1>3, <2>1, <2>2
<1>5. CASE MarkDeploying(h)
  <2>1. /\ request'[h].at = "apply" /\ request'[h].name = w
        /\ request'[h].present = request[h].present
        /\ \A g \in Handlers \ {h} : request'[g] = request[g]
    BY <1>1, <1>5, Continued DEF MarkDeploying, AIWorkloadStatus
  <2>2. CASE request[h].present
    BY <1>1, <1>3, <2>1, <2>2 DEF Pursues
  <2>3. CASE ~request[h].present
    BY <1>1, <1>3, <1>5, <2>1, <2>3 DEF MarkDeploying, Store, Pursues
  <2> QED BY <2>2, <2>3
<1>6. CASE Apply(h)
  <2>1. PICK status \in {"running", "failed"}, what \in SUBSET Troubles :
           Outcome(h, status, what)
    BY <1>6 DEF Apply, Troubles
  <2>2. /\ request'[h].at = "record" /\ request'[h].name = w
        /\ request'[h].present = request[h].present
        /\ \A g \in Handlers \ {h} : request'[g] = request[g]
    BY <1>1, <1>6, <2>1, Continued DEF Apply, Outcome, AIWorkloadStatus
  <2>3. row' = row /\ trouble[w] \subseteq trouble'[w]
    BY <1>1, <1>6, <2>1, Noted DEF Apply, Outcome
  <2>4. Pursues(h, w) => Pursues(h, w)'
    BY <1>1, <2>2 DEF Pursues
  <2> QED BY <1>3, <2>2, <2>3, <2>4
<1>7. CASE Record(h)
  <2>1. \A g \in Handlers \ {h} : request'[g] = request[g]
    BY <1>7, Answered DEF Record
  <2>2. row'[w] \in {"running", "failed"}
    BY <1>1, <1>7 DEF Record, Store, TypeOK, RequestOK
  <2> QED BY <1>3, <2>1, <2>2 DEF Unsettled
<1>8. CASE DeleteClean(h)
  <2>1. \A g \in Handlers \ {h} : request'[g] = request[g]
    BY <1>8, Continued DEF DeleteClean, TypeOK, Request
  <2>2. row' = row /\ trouble[w] \subseteq trouble'[w]
    BY <1>1, <1>8 DEF DeleteClean, Note, TypeOK
  <2>3. ~Pursues(h, w)
    BY <1>8 DEF DeleteClean, Pursues
  <2> QED BY <1>3, <2>1, <2>2, <2>3
<1>9. CASE Abort(h)
  <2>1. \A g \in Handlers \ {h} : request'[g] = request[g]
    BY <1>9, Answered, IdleIsRequest DEF Abort
  <2>2. "cut" \in trouble'[w]
    BY <1>1, <1>9 DEF Abort, Note, TypeOK
  <2> QED BY <1>3, <2>1, <2>2
<1>10. CASE DeleteCommit(h)
  <2> SUFFICES ASSUME NEW v \in Names, row'[v] \in Unsettled, "cut" \notin trouble'[v]
               PROVE  \E g \in Handlers : Pursues(g, v)'
    BY DEF Pursued
  <2>1. row[v] = row'[v] /\ (v = w => ~request[h].present) /\ trouble' = trouble
    BY <1>1, <1>10, NoneIsNothing DEF DeleteCommit, TypeOK, Unsettled, AIWorkloadStatus
  <2>2. PICK g \in Handlers : Pursues(g, v)
    BY <2>1 DEF Pursued
  <2>3. g # h
    BY <1>10, <2>2 DEF DeleteCommit, Pursues
  <2>4. request'[g] = request[g]
    BY <1>1, <1>10, <2>1, <2>2, <2>3 DEF DeleteCommit, Pursues
  <2> QED BY <2>2, <2>4 DEF Pursues
<1> QED BY <1>4, <1>5, <1>6, <1>7, <1>8, <1>9, <1>10 DEF Resume

(* A workload that is shown as pending or deploying, and none of whose        *)
(* requests was cut off, has a request in progress that holds its row and     *)
(* will record an outcome in it, however requests about it overlap and        *)
(* delete the row under each other (ai_workloads.py:54-71, 106-108).          *)
THEOREM OutcomesArePursued == Spec => []Pursued
<1>1. Init => Pursued
  BY NoneIsNothing DEF Init, Pursued, Unsettled, AIWorkloadStatus
<1>2. TypeOK /\ Pursued /\ [Next]_vars => Pursued'
  <2> SUFFICES ASSUME TypeOK, Pursued, [Next]_vars PROVE Pursued'
    OBVIOUS
  <2>1. ASSUME NEW h \in Handlers, NEW w \in Names,
               CreateBegin(h, w) \/ RedeployBegin(h, w) \/ DeleteBegin(h, w)
        PROVE  Pursued'
    <3>1. row[w] \in AIWorkloadStatus \cup {None}
      BY DEF TypeOK
    <3> QED BY <2>1, <3>1, ArrivePursued DEF CreateBegin, RedeployBegin, DeleteBegin
  <2>2. CASE KubeconfigChanges \/ UNCHANGED vars
    BY <2>2 DEF KubeconfigChanges, vars, Pursued, Pursues
  <2> QED BY <2>1, <2>2, ResumePursued DEF Next
<1> QED BY <1>1, <1>2, TypeCorrect, PTL DEF Spec

(* and a request gets on with every step of its own: an answer is at most     *)
(* four steps away.                                                          *)
Ahead(h) ==
    CASE request[h].at = "insert"              -> 4
      [] request[h].at = "mark"                -> 3
      [] request[h].at \in {"apply", "clean"}   -> 2
      [] request[h].at \in {"record", "remove"} -> 1
      [] OTHER                                 -> 0

(* No request goes round in circles, and nothing but its own steps and an     *)
(* abort moves it (ai_workloads.py:41-152).                                  *)
THEOREM RequestsAreShort ==
  Spec => [][\A h \in Handlers : /\ Resume(h) => Ahead(h)' < Ahead(h)
                                 /\ request[h] # Idle => Ahead(h)' <= Ahead(h)]_vars
<1>1. TypeOK /\ Next => \A h \in Handlers : /\ Resume(h) => Ahead(h)' < Ahead(h)
                                            /\ request[h] # Idle => Ahead(h)' <= Ahead(h)
  <2> SUFFICES ASSUME TypeOK, Next, NEW h \in Handlers
               PROVE  /\ Resume(h) => Ahead(h)' < Ahead(h)
                      /\ request[h] # Idle => Ahead(h)' <= Ahead(h)
    OBVIOUS
  <2>1. ASSUME Resume(h) PROVE Ahead(h)' < Ahead(h)
    <3>1. CASE CreateInsert(h)
      <4>1. request[h].at = "insert" /\ request'[h].at = "mark"
        BY <3>1 DEF CreateInsert, TypeOK
      <4> QED BY <4>1 DEF Ahead
    <3>2. CASE MarkDeploying(h)
      <4>1. request[h].at = "mark" /\ request'[h].at = "apply"
        BY <3>2, Continued DEF MarkDeploying, AIWorkloadStatus
      <4> QED BY <4>1 DEF Ahead
    <3>3. CASE Apply(h)
      <4>1. request[h].at = "apply" /\ request'[h].at = "record"
        BY <3>3, Continued DEF Apply, Outcome, AIWorkloadStatus
      <4> QED BY <4>1 DEF Ahead
    <3>4. CASE DeleteClean(h)
      <4>1. request[h].at = "clean" /\ request'[h].at = "remove"
        BY <3>4, Continued DEF DeleteClean, TypeOK, Request
      <4> QED BY <4>1 DEF Ahead
    <3>5. CASE Record(h) \/ DeleteCommit(h)
      <4>1. request[h].at \in {"record", "remove"} /\ request'[h].at = "idle"
        BY <3>5, Answered, IdleIsRequest DEF Record, DeleteCommit
      <4> QED BY <4>1 DEF Ahead
    <3> QED BY <2>1, <3>1, <3>2, <3>3, <3>4, <3>5 DEF Resume
  <2>2. ASSUME request[h] # Idle, ~Resume(h) PROVE Ahead(h)' <= Ahead(h)
    <3>1. CASE request'[h].at = request[h].at
      BY <3>1 DEF Ahead
    <3>2. CASE request'[h] = Idle
      BY <3>2, IdleIsRequest DEF Ahead
    <3>3. ASSUME NEW g \in Handlers \ {h}, NEW w \in Names,
                 CreateBegin(g, w) \/ RedeployBegin(g, w) \/ DeleteBegin(g, w)
          PROVE  request'[h] = request[h]
      BY <3>3 DEF CreateBegin, RedeployBegin, DeleteBegin, Arrive, TypeOK
    <3>4. ASSUME NEW g \in Handlers \ {h}, Resume(g) \/ Abort(g) PROVE request'[h].at = request[h].at
      <4>1. CASE DeleteCommit(g)
        <5>1. /\ request[h] \in Request
              /\ request'[h] = request[h] \/ request'[h] = [request[h] EXCEPT !.present = FALSE]
          BY <3>4, <4>1 DEF DeleteCommit, TypeOK
        <5> QED BY <5>1 DEF Request
      <4>2. CASE ~DeleteCommit(g)
        BY <3>4, <4>2 DEF Resume, Abort, CreateInsert, MarkDeploying, Apply, Outcome, Record,
           DeleteClean, Continue, Answer, TypeOK
      <4> QED BY <4>1, <4>2
    <3>5. CASE Abort(h)
      BY <3>2, <3>5, Answered DEF Abort
    <3>6. CASE KubeconfigChanges
      BY <3>1, <3>6 DEF KubeconfigChanges
    <3>7. ~ \E w \in Names : CreateBegin(h, w) \/ RedeployBegin(h, w) \/ DeleteBegin(h, w)
      BY <2>2 DEF CreateBegin, RedeployBegin, DeleteBegin, Arrive
    <3> QED BY <2>2, <3>1, <3>3, <3>4, <3>5, <3>6, <3>7 DEF Next
  <2>3. ASSUME Resume(h) PROVE Ahead(h)' <= Ahead(h)
    <3>1. Ahead(h) \in Nat /\ Ahead(h)' \in Nat
      BY DEF Ahead
    <3> QED BY <2>1, <2>3, <3>1
  <2> QED BY <2>1, <2>2, <2>3
<1> QED BY <1>1, TypeCorrect, PTL DEF Spec
=============================================================================
