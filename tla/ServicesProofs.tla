---------------------------- MODULE ServicesProofs ----------------------------
(* Theorems of the services of Services, for any rows, requests, documents *)
(* and recipients, each about the part of the sum that has the property.   *)
EXTENDS Services, Recursion

-----------------------------------------------------------------------------
(* Notifications.                                                          *)

Ops == {"read", "mark", "send", "sent", "failed", "done"}

(* What an execution becomes, and what it may be.                          *)
LEMMA BecomeShape ==
  ASSUME TypeOK, NEW w \in Workers, NEW op \in Ops, NEW k \in Keys, Become(w, op, k)
  PROVE  /\ worker' \in [Workers -> States]
         /\ worker'[w] # Idle /\ worker'[w].op = op /\ worker'[w].key = k
         /\ \A v \in Workers \ {w} : worker'[v] = worker[v]
<1>1. [op |-> op, key |-> k] \in States /\ [op |-> op, key |-> k] # Idle
  BY DEF States, Ops, Idle
<1>2. worker' = [worker EXCEPT ![w] = [op |-> op, key |-> k]]
  BY DEF Become
<1> QED
  BY <1>1, <1>2 DEF TypeOK

(* A worker that has ended is idle; the others stay where they are.         *)
LEMMA IdleShape ==
  ASSUME TypeOK, NEW w \in Workers, worker' = [worker EXCEPT ![w] = Idle]
  PROVE  /\ worker' \in [Workers -> States]
         /\ worker'[w] = Idle
         /\ \A v \in Workers \ {w} : worker'[v] = worker[v]
BY DEF TypeOK, States

(* A worker that is at an operation is not idle.                            *)
LEMMA AtShape ==
  ASSUME NEW w \in Workers, NEW op \in Ops, NEW k \in Keys, At(w, op, k)
  PROVE  worker[w] # Idle /\ worker[w].op = op /\ worker[w].key = k
BY DEF At, Ops, Idle

(* A worker that is not idle is at an operation on a key.                   *)
LEMMA WorkerShape ==
  ASSUME TypeOK, NEW w \in Workers
  PROVE  /\ worker[w] # Idle => /\ worker[w].op \in Ops /\ worker[w].key \in Keys
                                /\ At(w, worker[w].op, worker[w].key)
         /\ worker[w].op \in Ops => worker[w] # Idle
<1>1. worker[w] \in States
  BY DEF TypeOK
<1> QED
  BY <1>1 DEF States, At, Ops, Idle

-----------------------------------------------------------------------------
(* The first state is typed.                                                *)
LEMMA InitTypeOK == Init => TypeOK
<1> SUFFICES ASSUME Init PROVE TypeOK
  OBVIOUS
<1>1. 0 \in 0..MaxAttempts /\ 0 \in 0..MailCap
  BY NotificationsAssumption
<1>2. Idle \in States
  BY DEF States
<1> QED
  BY <1>1, <1>2 DEF Init, TypeOK, JobStatuses

(* Creating a notification leaves every variable typed.                     *)
LEMMA CreateType ==
  ASSUME TypeOK, NEW k \in Keys, NEW mailed \in BOOLEAN, Create(k, mailed)
  PROVE  /\ notice' \in [Keys -> {"none", "unread", "read", "archived"}]
         /\ delivery' \in [Keys -> {"none", "pending", "sending", "sent", "failed"}]
         /\ job' \in [Keys -> JobStatuses \cup Workers]
BY DEF TypeOK, Create, Deliver, JobStatuses

(* Every step keeps every variable typed.                                   *)
LEMMA NextTypeOK == TypeOK /\ [Next]_vars => TypeOK'
<1> SUFFICES ASSUME TypeOK, [Next]_vars PROVE TypeOK'
  OBVIOUS
<1> USE DEF queue, JobStatuses
<1>1. ASSUME NEW mailed \in BOOLEAN, PasswordChanged(mailed) PROVE TypeOK'
  BY <1>1, CreateType DEF PasswordChanged, TypeOK, Keys
<1>2. CASE Announce \/ AnnounceCrash
  BY <1>2 DEF Announce, AnnounceCrash, TypeOK
<1>3. ASSUME NEW k \in Announced, NEW mailed \in BOOLEAN, AnnounceNext(k, mailed) PROVE TypeOK'
  BY <1>3, CreateType DEF AnnounceNext, TypeOK, Keys
<1>4. ASSUME NEW k \in Keys, MarkRead(k) \/ MarkAllRead(k) \/ Archive(k) PROVE TypeOK'
  BY <1>4 DEF MarkRead, MarkAllRead, Archive, SetNotice, TypeOK
<1>5. ASSUME NEW k \in Keys, LoseLock(k) \/ CancelJob(k) \/ RetryRead(k) \/ RetryWrite(k)
      PROVE  TypeOK'
  <2>1. tries' \in [Keys -> 0..MaxAttempts] /\ retrying' \subseteq Keys /\ shaken' \subseteq Keys
    BY <1>5, NotificationsAssumption DEF LoseLock, CancelJob, RetryRead, RetryWrite, Shake, TypeOK
  <2> QED
    BY <1>5, <2>1 DEF LoseLock, CancelJob, RetryRead, RetryWrite, TypeOK
<1>6. ASSUME NEW w \in Workers, NEW k \in Keys, TakeJob(w, k) PROVE TypeOK'
  <2>1. worker' \in [Workers -> States]
    BY <1>6, BecomeShape DEF TakeJob, Ops
  <2>2. tries' \in [Keys -> 0..MaxAttempts] /\ job' \in [Keys -> JobStatuses \cup Workers]
    BY <1>6, NotificationsAssumption DEF TakeJob, TypeOK
  <2> QED
    BY <1>6, <2>1, <2>2 DEF TakeJob, TypeOK
<1>7. ASSUME NEW w \in Workers, NEW k \in Keys,
             ReadDelivery(w, k) \/ MarkSending(w, k) \/ MarkSent(w, k) \/ MarkSentFails(w, k)
      PROVE  TypeOK'
  <2>1. \E op \in Ops : Become(w, op, k)
    BY <1>7 DEF ReadDelivery, MarkSending, MarkSent, MarkSentFails, Ops
  <2>2. worker' \in [Workers -> States]
    BY <2>1, BecomeShape
  <2>3. delivery' \in [Keys -> {"none", "pending", "sending", "sent", "failed"}]
    BY <1>7 DEF ReadDelivery, MarkSending, MarkSent, MarkSentFails, SetDelivery, TypeOK
  <2> QED
    BY <1>7, <2>2, <2>3 DEF ReadDelivery, MarkSending, MarkSent, MarkSentFails, Shake, TypeOK
<1>8. ASSUME NEW w \in Workers, NEW k \in Keys, NEW accepted \in BOOLEAN, NEW ok \in BOOLEAN,
             Send(w, k, accepted, ok)
      PROVE  TypeOK'
  <2>1. \E op \in Ops : Become(w, op, k)
    BY <1>8 DEF Send, Ops
  <2>2. worker' \in [Workers -> States]
    BY <2>1, BecomeShape
  <2>3. mails' \in [Keys -> 0..MailCap] /\ shaken' \subseteq Keys
    BY <1>8, NotificationsAssumption DEF Send, Shake, TypeOK
  <2> QED
    BY <1>8, <2>2, <2>3 DEF Send, TypeOK
<1>9. ASSUME NEW w \in Workers, NEW k \in Keys, MarkFailed(w, k) \/ Throws(w, k) \/ FinishJob(w, k)
      PROVE  TypeOK'
  <2>1. worker' \in [Workers -> States]
    BY <1>9, IdleShape DEF MarkFailed, Throws, FinishJob
  <2>2. job' \in [Keys -> JobStatuses \cup Workers]
    BY <1>9 DEF MarkFailed, Throws, FinishJob, TypeOK
  <2>3. delivery' \in [Keys -> {"none", "pending", "sending", "sent", "failed"}]
    BY <1>9 DEF MarkFailed, Throws, FinishJob, SetDelivery, TypeOK
  <2> QED
    BY <1>9, <2>1, <2>2, <2>3 DEF MarkFailed, Throws, FinishJob, TypeOK
<1>10. ASSUME NEW w \in Workers, Crash(w) PROVE TypeOK'
  <2>1. worker' \in [Workers -> States]
    BY <1>10, IdleShape DEF Crash
  <2>2. shaken' \subseteq Keys
    BY <1>10, WorkerShape DEF Crash, Shake, TypeOK
  <2> QED
    BY <1>10, <2>1, <2>2 DEF Crash, TypeOK
<1>11. CASE UNCHANGED vars
  BY <1>11 DEF vars, TypeOK
<1> QED
  BY <1>1, <1>2, <1>3, <1>4, <1>5, <1>6, <1>7, <1>8, <1>9, <1>10, <1>11 DEF Next, Execution

(* Every variable keeps its type.                                          *)
THEOREM TypeCorrect == Spec => []TypeOK
  BY InitTypeOK, NextTypeOK, PTL DEF Spec
-----------------------------------------------------------------------------
(* Only a job that was enqueued is being retried.                           *)
RetryInv == \A k \in retrying : job[k] # "none"

(* No job disappears, and a retry begins with one that there is.            *)
LEMMA NextRetryInv == TypeOK /\ RetryInv /\ [Next]_vars => RetryInv'
<1> SUFFICES ASSUME TypeOK, RetryInv, [Next]_vars PROVE RetryInv'
  OBVIOUS
<1> USE DEF queue
<1>t. /\ job \in [Keys -> JobStatuses \cup Workers] /\ retrying \subseteq Keys
      /\ \A w \in Workers : w # "none"
  BY NotificationsAssumption DEF TypeOK, JobStatuses
(* Jobs that stay, and retries of jobs that there are.                      *)
<1>f. ASSUME \A l \in Keys : job[l] # "none" => job'[l] # "none",
             \A l \in retrying' : l \in retrying \/ job[l] # "none", retrying' \subseteq Keys
      PROVE  RetryInv'
  BY <1>f, <1>t DEF RetryInv
<1>1. ASSUME NEW k \in Keys, NEW mailed \in BOOLEAN, Create(k, mailed), UNCHANGED retrying
      PROVE  RetryInv'
  BY <1>1, <1>f, <1>t DEF Create, Deliver
<1>2. ASSUME NEW k \in Keys, LoseLock(k) \/ CancelJob(k) \/ RetryRead(k) \/ RetryWrite(k)
      PROVE  RetryInv'
  <2>1. \A l \in Keys : job[l] # "none" => job'[l] # "none"
    BY <1>2, <1>t DEF LoseLock, CancelJob, RetryRead, RetryWrite
  <2>2. retrying' \subseteq Keys /\ \A l \in retrying' : l \in retrying \/ job[l] # "none"
    BY <1>2, <1>t DEF LoseLock, CancelJob, RetryRead, RetryWrite
  <2> QED
    BY <1>f, <2>1, <2>2
<1>3. ASSUME NEW w \in Workers, NEW k \in Keys, Execution(w, k) PROVE RetryInv'
  <2>1. retrying' = retrying
    BY <1>3 DEF Execution, TakeJob, ReadDelivery, MarkSending, Send, MarkSent, MarkSentFails,
                MarkFailed, Throws, FinishJob
  <2>2. job' = job \/ \E v \in Workers \cup {"queued", "succeeded"} : job' = [job EXCEPT ![k] = v]
    BY <1>3 DEF Execution, TakeJob, ReadDelivery, MarkSending, Send, MarkSent, MarkSentFails,
                MarkFailed, Throws, FinishJob
  <2>3. \A l \in Keys : job[l] # "none" => job'[l] # "none"
    BY <1>t, <2>2
  <2> QED
    BY <1>f, <1>t, <2>1, <2>3
<1>4. ASSUME UNCHANGED <<job, retrying>> PROVE RetryInv'
  BY <1>4 DEF RetryInv
<1>5. ASSUME NEW mailed \in BOOLEAN, PasswordChanged(mailed) PROVE RetryInv'
  BY <1>5, <1>1 DEF PasswordChanged, Keys
<1>6. ASSUME NEW k \in Announced, NEW mailed \in BOOLEAN, AnnounceNext(k, mailed) PROVE RetryInv'
  BY <1>6, <1>1 DEF AnnounceNext, Keys
<1> QED
  BY <1>2, <1>3, <1>4, <1>5, <1>6
  DEF Next, Announce, AnnounceCrash, MarkRead, MarkAllRead, Archive, SetNotice, Crash, vars

(* Only jobs that were enqueued are retried, throughout.                    *)
LEMMA RetryCorrect == Spec => []RetryInv
<1>1. Init => RetryInv
  BY DEF Init, RetryInv
<1> QED
  BY <1>1, NextRetryInv, TypeCorrect, PTL DEF Spec

(* A notification, its delivery and its job are created together, and      *)
(* nobody works on a delivery before.                                      *)
CreatedTogether(k) ==
  /\ notice[k] = "none" => delivery[k] = "none"
  /\ delivery[k] = "none" <=> job[k] = "none"
  /\ delivery[k] = "none" =>
       mails[k] = 0 /\ \A w \in Workers : worker[w] # Idle => worker[w].key # k

(* A delivery that was not shaken: it is sent when its mail was accepted,  *)
(* but for the execution that is about to say so, and its job succeeds     *)
(* only then.                                                              *)
Recorded(k) ==
  k \notin shaken =>
    /\ delivery[k] = "sent" => mails[k] = 1
    /\ delivery[k] # "sent" => mails[k] = 0 \/ \E w \in Workers : At(w, "sent", k)
    /\ job[k] = "succeeded" => delivery[k] = "sent"

(* Of such a delivery, an execution that may send holds the job, and finds *)
(* out what was accepted; the others come after it was sent.               *)
Holds(w) ==
  LET op == worker[w].op  k == worker[w].key IN
  worker[w] # Idle /\ k \notin shaken =>
    /\ op \in {"mark", "send", "sent", "failed"} => job[k] = w /\ delivery[k] # "sent"
    /\ op \in {"mark", "send", "failed"} => mails[k] = 0
    /\ op = "sent" => mails[k] = 1
    /\ op = "read" => job[k] = w \/ delivery[k] = "sent"
    /\ op = "done" => delivery[k] = "sent"

MailInv ==
  /\ \A k \in Keys : CreatedTogether(k)
  /\ \A k \in Keys : Recorded(k)
  /\ \A w \in Workers : Holds(w)

(* Every step keeps what a worker knows of the delivery and of the mails    *)
(* sent.                                                                    *)
LEMMA NextMailInv == TypeOK /\ RetryInv /\ MailInv /\ [Next]_vars => MailInv'
<1> SUFFICES ASSUME TypeOK, RetryInv, MailInv, [Next]_vars PROVE MailInv'
  OBVIOUS
<1> USE DEF queue
<1>t. /\ notice \in [Keys -> {"none", "unread", "read", "archived"}]
      /\ delivery \in [Keys -> {"none", "pending", "sending", "sent", "failed"}]
      /\ job \in [Keys -> JobStatuses \cup Workers]
      /\ worker \in [Workers -> States]
      /\ mails \in [Keys -> Nat]
      /\ \A w \in Workers : w \notin JobStatuses
      /\ JobStatuses = {"none", "queued", "succeeded", "dead", "cancelled"}
  BY NotificationsAssumption DEF TypeOK, JobStatuses
<1>k. \A w \in Workers : worker[w] # Idle => worker[w].key \in Keys /\ worker[w].op \in Ops
  BY WorkerShape
<1>a. \A w \in Workers, k \in Keys, op \in Ops :
        At(w, op, k) <=> worker[w] # Idle /\ worker[w].op = op /\ worker[w].key = k
  BY AtShape, WorkerShape
<1>b. ASSUME worker' \in [Workers -> States]
      PROVE  \A w \in Workers, k \in Keys :
               At(w, "sent", k)' <=> worker'[w] # Idle /\ worker'[w].op = "sent" /\ worker'[w].key = k
  <2>1. \A w \in Workers : worker'[w] \in States
    BY <1>b
  <2> QED
    BY <2>1 DEF At, States, Idle
<1>i. /\ \A k \in Keys : CreatedTogether(k)
      /\ \A k \in Keys : Recorded(k)
      /\ \A w \in Workers : Holds(w)
  BY DEF MailInv
(* A delivery is created: nobody has worked on it.                         *)
<1>c. ASSUME NEW k \in Keys, NEW mailed \in BOOLEAN, Create(k, mailed),
             UNCHANGED <<worker, mails, shaken>>
      PROVE  MailInv'
  <2>1. CASE notice[k] # "none"
    BY <1>c, <1>i, <2>1 DEF Create, MailInv, CreatedTogether, Recorded, Holds, At
  <2>2. CASE notice[k] = "none"
    <3>1. /\ delivery[k] = "none" /\ job[k] = "none" /\ mails[k] = 0
          /\ \A w \in Workers : worker[w] # Idle => worker[w].key # k
      BY <1>i, <2>2 DEF CreatedTogether
    <3>2. /\ notice'[k] # "none" /\ \A l \in Keys \ {k} : notice'[l] = notice[l]
          /\ \A l \in Keys \ {k} : delivery'[l] = delivery[l] /\ job'[l] = job[l]
          /\ \/ delivery'[k] = "none" /\ job'[k] = "none"
             \/ delivery'[k] = "pending" /\ job'[k] = "queued"
      BY <1>c, <1>t, <2>2, <3>1 DEF Create, Deliver
    <3>3. \A l \in Keys : CreatedTogether(l)'
      BY <1>c, <1>i, <3>1, <3>2 DEF CreatedTogether
    <3>4. \A l \in Keys : Recorded(l)'
      BY <1>c, <1>i, <3>1, <3>2 DEF Recorded, At
    <3>5. \A w \in Workers : Holds(w)'
      BY <1>c, <1>i, <1>k, <3>1, <3>2 DEF Holds
    <3> QED
      BY <3>3, <3>4, <3>5 DEF MailInv
  <2> QED
    BY <2>1, <2>2
<1>1. ASSUME NEW mailed \in BOOLEAN, PasswordChanged(mailed) PROVE MailInv'
  BY <1>1, <1>c DEF PasswordChanged, Keys
<1>2. ASSUME NEW k \in Announced, NEW mailed \in BOOLEAN, AnnounceNext(k, mailed) PROVE MailInv'
  BY <1>2, <1>c DEF AnnounceNext, Keys
<1>3. ASSUME NEW k \in Keys, MarkRead(k) \/ MarkAllRead(k) \/ Archive(k) PROVE MailInv'
  <2>1. /\ \A l \in Keys : notice'[l] = "none" => notice[l] = "none"
        /\ UNCHANGED <<delivery, job, worker, mails, shaken>>
    BY <1>3, <1>t DEF MarkRead, MarkAllRead, Archive, SetNotice
  <2> QED
    BY <1>i, <2>1 DEF MailInv, CreatedTogether, Recorded, Holds, At
<1>4. ASSUME NEW k \in Keys, LoseLock(k) \/ CancelJob(k) \/ RetryWrite(k) PROVE MailInv'
  <2>1. /\ job[k] # "none" /\ job'[k] \in {"queued", "dead", "cancelled"}
        /\ \A l \in Keys \ {k} : job'[l] = job[l]
        /\ shaken \subseteq shaken' /\ UNCHANGED <<notice, delivery, worker, mails>>
    BY <1>4, <1>t DEF LoseLock, CancelJob, RetryWrite, Shake, RetryInv, JobStatuses
  (* Nobody who may send is left on a delivery that is not shaken.         *)
  <2>2. \A w \in Workers : k \notin shaken' /\ worker[w] # Idle /\ worker[w].key = k =>
          worker[w].op = "done" \/ delivery[k] = "sent"
    <3>1. CASE LoseLock(k) \/ RetryWrite(k)
      BY <3>1, <1>a, <1>k DEF LoseLock, RetryWrite, Shake, Delivering, Ops
    <3>2. CASE CancelJob(k)
      BY <3>2, <1>i, <1>k, <1>t DEF CancelJob, Holds, Ops
    <3> QED
      BY <1>4, <3>1, <3>2
  <2>3. \A l \in Keys : CreatedTogether(l)'
    BY <1>i, <1>t, <2>1 DEF CreatedTogether
  <2>4. \A l \in Keys : Recorded(l)'
    BY <1>i, <2>1 DEF Recorded, At
  <2>5. \A w \in Workers : Holds(w)'
    BY <1>i, <1>k, <2>1, <2>2 DEF Holds
  <2> QED
    BY <2>3, <2>4, <2>5 DEF MailInv
<1>5. ASSUME NEW w \in Workers, NEW k \in Keys, TakeJob(w, k) PROVE MailInv'
  <2>1. /\ worker[w] = Idle /\ job[k] = "queued" /\ job'[k] = w
        /\ \A l \in Keys \ {k} : job'[l] = job[l]
        /\ UNCHANGED <<notice, delivery, mails, shaken>>
    BY <1>5, <1>t DEF TakeJob
  <2>2. /\ worker' \in [Workers -> States]
        /\ worker'[w] # Idle /\ worker'[w].op = "read" /\ worker'[w].key = k
        /\ \A v \in Workers \ {w} : worker'[v] = worker[v]
    BY <1>5, BecomeShape DEF TakeJob, Ops
  <2>3. \A l \in Keys : CreatedTogether(l)'
    BY <1>i, <1>t, <2>1, <2>2 DEF CreatedTogether
  <2>4. \A l \in Keys : Recorded(l)'
    BY <1>a, <1>b, <1>i, <1>t, <2>1, <2>2 DEF Recorded, Ops
  <2>5. \A v \in Workers : Holds(v)'
    BY <1>i, <1>k, <1>t, <2>1, <2>2 DEF Holds
  <2> QED
    BY <2>3, <2>4, <2>5 DEF MailInv
(* A step of one execution that leaves the job alone.                      *)
<1>s. ASSUME NEW w \in Workers, NEW k \in Keys, NEW from \in Ops, NEW op \in Ops,
             At(w, from, k), Become(w, op, k), UNCHANGED <<notice, job>>
      PROVE  /\ worker[w] # Idle /\ worker[w].op = from /\ worker[w].key = k
             /\ worker' \in [Workers -> States]
             /\ worker'[w] # Idle /\ worker'[w].op = op /\ worker'[w].key = k
             /\ \A v \in Workers \ {w} : worker'[v] = worker[v]
             /\ delivery[k] # "none"
  BY <1>s, <1>i, AtShape, BecomeShape DEF CreatedTogether
<1>6. ASSUME NEW w \in Workers, NEW k \in Keys, ReadDelivery(w, k) PROVE MailInv'
  <2>1. PICK op \in {"mark", "done"} :
          /\ At(w, "read", k) /\ Become(w, op, k)
          /\ op = "done" <=> delivery[k] = "sent"
          /\ UNCHANGED <<notice, delivery, job, mails, shaken>>
    BY <1>6 DEF ReadDelivery
  <2>2. /\ worker[w] # Idle /\ worker[w].op = "read" /\ worker[w].key = k
        /\ worker' \in [Workers -> States]
        /\ worker'[w] # Idle /\ worker'[w].op = op /\ worker'[w].key = k
        /\ \A v \in Workers \ {w} : worker'[v] = worker[v]
        /\ delivery[k] # "none"
    BY <1>s, <2>1 DEF Ops
  <2>3. \A l \in Keys : CreatedTogether(l)'
    BY <1>i, <2>1, <2>2 DEF CreatedTogether
  <2>4. \A l \in Keys : Recorded(l)'
    BY <1>a, <1>b, <1>i, <2>1, <2>2 DEF Recorded, Ops
  <2>5. op = "mark" /\ k \notin shaken => job[k] = w /\ mails[k] = 0
    <3>1. op = "mark" /\ k \notin shaken => job[k] = w
      BY <1>i, <2>1, <2>2 DEF Holds
    <3>2. op = "mark" /\ k \notin shaken => \A v \in Workers : ~At(v, "sent", k)
      BY <1>a, <1>i, <2>2, <3>1 DEF Holds, Ops
    <3> QED
      BY <1>i, <2>1, <3>1, <3>2 DEF Recorded
  <2>6. \A v \in Workers : Holds(v)'
    BY <1>i, <2>1, <2>2, <2>5 DEF Holds
  <2> QED
    BY <2>3, <2>4, <2>6 DEF MailInv
<1>7. ASSUME NEW w \in Workers, NEW k \in Keys, MarkSending(w, k) PROVE MailInv'
  <2>1. /\ At(w, "mark", k) /\ Become(w, "send", k) /\ delivery'[k] = "sending"
        /\ \A l \in Keys \ {k} : delivery'[l] = delivery[l]
        /\ UNCHANGED <<notice, job, mails, shaken>>
    BY <1>7, <1>t DEF MarkSending, SetDelivery
  <2>2. /\ worker[w] # Idle /\ worker[w].op = "mark" /\ worker[w].key = k
        /\ worker' \in [Workers -> States]
        /\ worker'[w] # Idle /\ worker'[w].op = "send" /\ worker'[w].key = k
        /\ \A v \in Workers \ {w} : worker'[v] = worker[v]
        /\ delivery[k] # "none"
    BY <1>s, <2>1 DEF Ops
  <2>3. k \notin shaken => job[k] = w /\ delivery[k] # "sent" /\ mails[k] = 0
    BY <1>i, <2>2 DEF Holds
  <2>4. \A l \in Keys : CreatedTogether(l)'
    BY <1>i, <2>1, <2>2 DEF CreatedTogether
  <2>5. \A l \in Keys : Recorded(l)'
    BY <1>a, <1>b, <1>i, <1>t, <2>1, <2>2, <2>3 DEF Recorded, Ops
  <2>6. \A v \in Workers : Holds(v)'
    BY <1>i, <1>k, <2>1, <2>2, <2>3 DEF Holds
  <2> QED
    BY <2>4, <2>5, <2>6 DEF MailInv
<1>8. ASSUME NEW w \in Workers, NEW k \in Keys, NEW accepted \in BOOLEAN, NEW ok \in BOOLEAN,
             Send(w, k, accepted, ok)
      PROVE  MailInv'
  <2>1. PICK op \in {"sent", "failed"} :
          /\ At(w, "send", k) /\ Become(w, op, k)
          /\ op = "sent" => mails'[k] = mails[k] + 1
          /\ op = "failed" => mails'[k] = mails[k] \/ k \in shaken'
          /\ \A l \in Keys \ {k} : mails'[l] = mails[l]
          /\ shaken \subseteq shaken' /\ UNCHANGED <<notice, delivery, job>>
    BY <1>8, <1>t DEF Send, Shake
  <2>2. /\ worker[w] # Idle /\ worker[w].op = "send" /\ worker[w].key = k
        /\ worker' \in [Workers -> States]
        /\ worker'[w] # Idle /\ worker'[w].op = op /\ worker'[w].key = k
        /\ \A v \in Workers \ {w} : worker'[v] = worker[v]
        /\ delivery[k] # "none"
    BY <1>s, <2>1 DEF Ops
  <2>3. k \notin shaken => job[k] = w /\ delivery[k] # "sent" /\ mails[k] = 0
    BY <1>i, <2>2 DEF Holds
  <2>4. \A l \in Keys : CreatedTogether(l)'
    BY <1>i, <2>1, <2>2 DEF CreatedTogether
  <2>5. \A l \in Keys : Recorded(l)'
    BY <1>a, <1>b, <1>i, <1>t, <2>1, <2>2, <2>3 DEF Recorded, Ops
  <2>6. \A v \in Workers : Holds(v)'
    BY <1>i, <1>k, <1>t, <2>1, <2>2, <2>3 DEF Holds
  <2> QED
    BY <2>4, <2>5, <2>6 DEF MailInv
<1>9. ASSUME NEW w \in Workers, NEW k \in Keys, MarkSent(w, k) PROVE MailInv'
  <2>1. /\ At(w, "sent", k) /\ Become(w, "done", k) /\ delivery'[k] = "sent"
        /\ \A l \in Keys \ {k} : delivery'[l] = delivery[l]
        /\ UNCHANGED <<notice, job, mails, shaken>>
    BY <1>9, <1>t DEF MarkSent, SetDelivery
  <2>2. /\ worker[w] # Idle /\ worker[w].op = "sent" /\ worker[w].key = k
        /\ worker' \in [Workers -> States]
        /\ worker'[w] # Idle /\ worker'[w].op = "done" /\ worker'[w].key = k
        /\ \A v \in Workers \ {w} : worker'[v] = worker[v]
        /\ delivery[k] # "none"
    BY <1>s, <2>1 DEF Ops
  <2>3. k \notin shaken => job[k] = w /\ mails[k] = 1
    BY <1>i, <2>2 DEF Holds
  <2>4. \A l \in Keys : CreatedTogether(l)'
    BY <1>i, <2>1, <2>2 DEF CreatedTogether
  <2>5. \A l \in Keys : Recorded(l)'
    BY <1>a, <1>b, <1>i, <2>1, <2>2, <2>3 DEF Recorded, Ops
  <2>6. \A v \in Workers : Holds(v)'
    BY <1>i, <1>k, <2>1, <2>2, <2>3 DEF Holds
  <2> QED
    BY <2>4, <2>5, <2>6 DEF MailInv
<1>10. ASSUME NEW w \in Workers, NEW k \in Keys, MarkSentFails(w, k) PROVE MailInv'
  <2>1. /\ At(w, "sent", k) /\ Become(w, "failed", k) /\ k \in shaken' /\ shaken \subseteq shaken'
        /\ UNCHANGED <<notice, delivery, job, mails>>
    BY <1>10 DEF MarkSentFails, Shake
  <2>2. /\ worker[w] # Idle /\ worker[w].op = "sent" /\ worker[w].key = k
        /\ worker' \in [Workers -> States]
        /\ worker'[w] # Idle /\ worker'[w].op = "failed" /\ worker'[w].key = k
        /\ \A v \in Workers \ {w} : worker'[v] = worker[v]
        /\ delivery[k] # "none"
    BY <1>s, <2>1 DEF Ops
  <2>3. \A l \in Keys : CreatedTogether(l)'
    BY <1>i, <2>1, <2>2 DEF CreatedTogether
  <2>4. \A l \in Keys : Recorded(l)'
    BY <1>a, <1>b, <1>i, <2>1, <2>2 DEF Recorded, Ops
  <2>5. \A v \in Workers : Holds(v)'
    BY <1>i, <2>1, <2>2 DEF Holds
  <2> QED
    BY <2>3, <2>4, <2>5 DEF MailInv
<1>11. ASSUME NEW w \in Workers, NEW k \in Keys, MarkFailed(w, k) \/ Throws(w, k) \/ FinishJob(w, k)
       PROVE  MailInv'
  <2>1. /\ worker' \in [Workers -> States]
        /\ worker'[w] = Idle /\ \A v \in Workers \ {w} : worker'[v] = worker[v]
    BY <1>11, IdleShape DEF MarkFailed, Throws, FinishJob
  <2>2. /\ worker[w] # Idle /\ worker[w].key = k /\ worker[w].op \in {"failed", "read", "mark", "done"}
        /\ worker[w].op = "failed" => delivery'[k] = "failed"
        /\ worker[w].op # "failed" => delivery'[k] = delivery[k]
        /\ \A l \in Keys \ {k} : delivery'[l] = delivery[l]
        /\ \/ job'[k] \in {job[k], "queued"}
           \/ worker[w].op = "done" /\ job'[k] = "succeeded"
        /\ job[k] = "none" => job'[k] # "succeeded"
        /\ \A l \in Keys \ {k} : job'[l] = job[l]
        /\ UNCHANGED <<notice, mails, shaken>>
    <3>1. CASE MarkFailed(w, k)
      <4>1. worker[w] # Idle /\ worker[w].op = "failed" /\ worker[w].key = k
        BY <3>1, AtShape DEF MarkFailed, Ops
      <4> QED
        BY <3>1, <4>1, <1>t DEF MarkFailed, SetDelivery
    <3>2. CASE Throws(w, k)
      <4>1. worker[w] # Idle /\ worker[w].op \in {"read", "mark", "done"} /\ worker[w].key = k
        BY <3>2, WorkerShape DEF Throws, Ops
      <4> QED
        BY <3>2, <4>1, <1>t DEF Throws
    <3>3. CASE FinishJob(w, k)
      <4>1. worker[w] # Idle /\ worker[w].op = "done" /\ worker[w].key = k
        BY <3>3, AtShape DEF FinishJob, Ops
      <4> QED
        BY <3>3, <4>1, <1>t DEF FinishJob
    <3> QED
      BY <1>11, <3>1, <3>2, <3>3
  <2>3. delivery[k] # "none" /\ job[k] # "none"
    BY <1>i, <2>2 DEF CreatedTogether
  <2>4. \A l \in Keys : CreatedTogether(l)'
    BY <1>i, <1>t, <2>1, <2>2, <2>3 DEF CreatedTogether
  <2>5. k \notin shaken =>
          /\ delivery[k] = "sent" <=> delivery'[k] = "sent"
          /\ worker[w].op = "done" => delivery[k] = "sent"
          /\ worker[w].op \in {"failed", "mark"} => job[k] = w
          /\ worker[w].op = "read" => job[k] = w \/ delivery[k] = "sent"
    BY <1>i, <2>2 DEF Holds
  <2>6. \A l \in Keys : Recorded(l)'
    BY <1>a, <1>b, <1>i, <2>1, <2>2, <2>5 DEF Recorded, Ops
  <2>7. \A v \in Workers : Holds(v)'
    BY <1>i, <1>k, <1>t, <2>1, <2>2, <2>5 DEF Holds
  <2> QED
    BY <2>4, <2>6, <2>7 DEF MailInv
<1>12. ASSUME NEW w \in Workers, Crash(w) PROVE MailInv'
  <2>1. /\ worker' \in [Workers -> States]
        /\ worker'[w] = Idle /\ \A v \in Workers \ {w} : worker'[v] = worker[v]
    BY <1>12, IdleShape DEF Crash
  <2>2. /\ worker[w] # Idle /\ worker[w].op = "sent" => worker[w].key \in shaken'
        /\ shaken \subseteq shaken' /\ UNCHANGED <<notice, delivery, job, mails>>
    BY <1>12 DEF Crash, Shake
  <2>3. \A l \in Keys : CreatedTogether(l)'
    BY <1>i, <2>1, <2>2 DEF CreatedTogether
  <2>4. \A l \in Keys : Recorded(l)'
    BY <1>a, <1>b, <1>i, <2>1, <2>2 DEF Recorded, Ops
  <2>5. \A v \in Workers : Holds(v)'
    BY <1>i, <2>1, <2>2 DEF Holds
  <2> QED
    BY <2>3, <2>4, <2>5 DEF MailInv
<1>13. ASSUME UNCHANGED <<notice, delivery, job, worker, mails, shaken>> PROVE MailInv'
  BY <1>13, <1>i DEF MailInv, CreatedTogether, Recorded, Holds, At
<1>14. ASSUME NEW k \in Keys, RetryRead(k) PROVE MailInv'
  BY <1>13, <1>14 DEF RetryRead
<1> QED
  BY <1>1, <1>2, <1>3, <1>4, <1>5, <1>6, <1>7, <1>8, <1>9, <1>10, <1>11, <1>12, <1>13, <1>14
  DEF Next, Execution, Announce, AnnounceCrash, vars

(* What a worker knows of the delivery and of the mails sent is an          *)
(* invariant.                                                               *)
LEMMA MailCorrect == Spec => []MailInv
<1>1. Init => MailInv
  <2> SUFFICES ASSUME Init PROVE MailInv
    OBVIOUS
  <2>1. \A k \in Keys : CreatedTogether(k) /\ Recorded(k)
    BY DEF Init, CreatedTogether, Recorded
  <2>2. \A w \in Workers : Holds(w)
    BY DEF Init, Holds
  <2> QED
    BY <2>1, <2>2 DEF MailInv
<1> QED
  BY <1>1, NextMailInv, TypeCorrect, RetryCorrect, PTL DEF Spec

(* However often the event is delivered and the job attempted, one mail is *)
(* accepted and the delivery says so, unless two executions overlapped or  *)
(* the acceptance of a mail was lost.                                      *)
THEOREM MailedOnceCorrect == Spec => []MailedOnce
<1>1. TypeOK /\ MailInv => MailedOnce
  <2> SUFFICES ASSUME TypeOK, MailInv, NEW k \in Keys \ shaken
               PROVE  /\ mails[k] <= 1
                      /\ delivery[k] = "sent" <=>
                           mails[k] = 1 /\ \A w \in Workers : ~At(w, "sent", k)
    BY DEF MailedOnce
  <2>1. \A w \in Workers : At(w, "sent", k) => mails[k] = 1 /\ delivery[k] # "sent"
    BY AtShape DEF MailInv, Holds, Ops
  <2>2. mails[k] \in {0, 1}
    BY <2>1 DEF MailInv, Recorded
  <2> QED
    BY <2>1, <2>2 DEF MailInv, Recorded
<1> QED
  BY <1>1, MailCorrect, TypeCorrect, PTL

(* A delivery that is not sent has a job that is not over: it attempts the  *)
(* delivery, or it died or was cancelled and can be retried.                *)
THEOREM ForgottenCorrect == Spec => []NothingForgotten
<1>1. TypeOK /\ MailInv => NothingForgotten
  BY DEF TypeOK, JobStatuses, MailInv, CreatedTogether, Recorded, NothingForgotten
<1> QED
  BY <1>1, MailCorrect, TypeCorrect, PTL

-----------------------------------------------------------------------------
(* Connections.                                                            *)

(* The shapes a request may have, and what it then holds.                  *)
LEMMA ConnectionShapes ==
  /\ C!Idle \in C!States
  /\ \A o \in {"change", "enable", "disable", "test", "execute"}, n \in Nat :
       [op |-> o, revision |-> n] \in C!States
  /\ \A n \in Nat, ok \in BOOLEAN : [op |-> "tested", revision |-> n, ok |-> ok] \in C!States
  /\ \A done, ok \in BOOLEAN : [op |-> "record", done |-> done, ok |-> ok] \in C!States
BY DEF C!States

(* What a request that is on its way carries, by the operation it is in.    *)
LEMMA ConnectionFields ==
  ASSUME NEW s \in C!States
  PROVE  /\ s.op \in {"change", "enable", "disable", "test", "execute", "tested"} => s.revision \in Nat
         /\ s.op = "tested" => s.ok \in BOOLEAN
         /\ s.op = "record" => s.done \in BOOLEAN
BY DEF C!States, C!Idle

(* What a request holds of a revision that passed a test.                  *)
TestedHolds(s) ==
  /\ s.op \in {"enable", "execute"} => s.revision \in passed
  /\ s.op = "tested" => (s.ok => s.revision \in passed)

ConnectionInv ==
  /\ C!TypeOK
  /\ overtaken \/ /\ lastTest = "success" => revision \in passed
                  /\ enabled => revision \in passed
                  /\ \A r \in Requests : TestedHolds(cRequest[r])

(* At first there is no request and no test.                                *)
LEMMA ConnectionInit == C!Init => ConnectionInv
<1> SUFFICES ASSUME C!Init PROVE ConnectionInv
  OBVIOUS
<1>1. C!TypeOK
  BY ConnectionShapes DEF C!Init, C!TypeOK
<1>2. \A r \in Requests : TestedHolds(cRequest[r])
  BY DEF C!Init, C!Idle, TestedHolds
<1> QED
  BY <1>1, <1>2 DEF C!Init, ConnectionInv

(* Every step keeps the test a connection relies on.                        *)
LEMMA ConnectionNext == ConnectionInv /\ [C!Next]_connections => ConnectionInv'
<1> SUFFICES ASSUME ConnectionInv, [C!Next]_connections PROVE ConnectionInv'
  OBVIOUS
<1>t. C!TypeOK
  BY DEF ConnectionInv
<1>0. CASE UNCHANGED connections
  BY <1>0 DEF connections, ConnectionInv, C!TypeOK, TestedHolds
<1>1. ASSUME NEW r \in Requests, NEW op \in {"change", "enable", "disable"}, C!BeginUpdate(r, op)
      PROVE  ConnectionInv'
  <2>1. [op |-> op, revision |-> revision] \in C!States
    BY <1>t, ConnectionShapes DEF C!TypeOK
  <2> QED
    BY <1>1, <1>t, <2>1
       DEF C!BeginUpdate, C!Become, C!row, C!history, ConnectionInv, C!TypeOK, TestedHolds
<1>2. ASSUME NEW r \in Requests, C!Change(r) PROVE ConnectionInv'
  <2>1. C!TypeOK'
    <3>1. cRequest' \in [Requests -> C!States]
      BY <1>2, <1>t, ConnectionShapes DEF C!Change, C!Become, C!TypeOK
    <3>2. revision' \in Nat
      BY <1>2, <1>t DEF C!Change, C!TypeOK
    <3>3. enabled' \in BOOLEAN
      BY <1>2, Zenon DEF C!Change
    <3> QED
      BY <1>2, <1>t, <3>1, <3>2, <3>3 DEF C!Change, C!history, C!TypeOK
  <2>2. cRequest' = [cRequest EXCEPT ![r] = C!Idle] /\ UNCHANGED <<passed, overtaken>>
    BY <1>2 DEF C!Change, C!Become, C!history
  <2>3. \A q \in Requests : TestedHolds(cRequest[q]) => TestedHolds(cRequest[q])'
    BY <1>t, <2>2 DEF C!TypeOK, C!Idle, TestedHolds
  <2> QED
    BY <1>2, <2>1, <2>2, <2>3 DEF C!Change, C!history, ConnectionInv
<1>3. ASSUME NEW r \in Requests, C!SetEnabled(r) PROVE ConnectionInv'
  <2>1. cRequest[r] \in C!States
    BY <1>t DEF C!TypeOK
  <2>2. C!TypeOK'
    BY <1>3, <1>t, ConnectionShapes DEF C!SetEnabled, C!Become, C!TypeOK
  <2>3. /\ cRequest'[r] = C!Idle
        /\ \A q \in Requests \ {r} : cRequest'[q] = cRequest[q]
        /\ UNCHANGED <<revision, lastTest, passed>>
    BY <1>3, <1>t DEF C!SetEnabled, C!Become, C!TypeOK
  <2>4. ~overtaken' => ~overtaken /\ (enabled' => cRequest[r].revision = revision)
    BY <1>3 DEF C!SetEnabled, C!Unchanged
  <2>5. enabled' => cRequest[r].op = "enable"
    BY <1>3 DEF C!SetEnabled
  <2>6. \A q \in Requests : ~overtaken => TestedHolds(cRequest[q])'
    BY <2>3 DEF ConnectionInv, TestedHolds, C!Idle
  <2>7. ~overtaken' => (enabled' => revision' \in passed')
    BY <2>3, <2>4, <2>5 DEF ConnectionInv, TestedHolds
  <2>8. ~overtaken' => (lastTest' = "success" => revision' \in passed')
    BY <2>3, <2>4 DEF ConnectionInv
  <2> QED
    BY <2>2, <2>4, <2>6, <2>7, <2>8, Zenon DEF ConnectionInv
<1>4. ASSUME NEW r \in Requests, C!BeginTest(r) PROVE ConnectionInv'
  BY <1>4, <1>t, ConnectionShapes
     DEF C!BeginTest, C!Become, C!row, C!history, ConnectionInv, C!TypeOK, TestedHolds
<1>5. ASSUME NEW r \in Requests, NEW ok \in BOOLEAN, C!TestAnswered(r, ok) PROVE ConnectionInv'
  <2>1. cRequest[r].revision \in Nat
    BY <1>5, <1>t, ConnectionFields DEF C!TestAnswered, C!TypeOK
  <2>2. [op |-> "tested", revision |-> cRequest[r].revision, ok |-> ok] \in C!States
    BY <2>1, ConnectionShapes
  <2> QED
    BY <1>5, <1>t, <2>1, <2>2
       DEF C!TestAnswered, C!Become, C!row, ConnectionInv, C!TypeOK, TestedHolds
<1>6. ASSUME NEW r \in Requests, C!FinishTest(r) PROVE ConnectionInv'
  <2>1. C!TypeOK'
    BY <1>6, <1>t, ConnectionShapes DEF C!FinishTest, C!Become, C!TypeOK
  <2> QED
    BY <1>6, <2>1
       DEF C!FinishTest, C!Unchanged, C!Become, ConnectionInv, C!TypeOK, C!Idle, TestedHolds
<1>7. ASSUME NEW r \in Requests, C!BeginExecute(r) PROVE ConnectionInv'
  BY <1>7, <1>t, ConnectionShapes
     DEF C!BeginExecute, C!Become, C!row, C!history, ConnectionInv, C!TypeOK, TestedHolds
<1>8. ASSUME NEW r \in Requests, NEW done \in BOOLEAN, NEW ok \in BOOLEAN, C!Answered(r, done, ok)
      PROVE  ConnectionInv'
  BY <1>8, <1>t, ConnectionShapes
     DEF C!Answered, C!Become, C!row, C!history, ConnectionInv, C!TypeOK, TestedHolds
<1>9. ASSUME NEW r \in Requests, C!Record(r) \/ C!Crash(r) PROVE ConnectionInv'
  <2>1. cRequest' = [cRequest EXCEPT ![r] = C!Idle] /\ UNCHANGED <<C!row, C!history>>
    BY <1>9 DEF C!Record, C!Crash, C!Become
  <2>2. C!TypeOK'
    BY <1>t, <2>1, ConnectionShapes DEF C!TypeOK, C!row, C!history
  <2> QED
    BY <1>t, <2>1, <2>2 DEF C!row, C!history, ConnectionInv, C!TypeOK, C!Idle, TestedHolds
<1>10. ASSUME NEW r \in Requests, C!RecordFails(r) PROVE ConnectionInv'
  <2> DEFINE told == [op |-> "record", done |-> cRequest[r].done, ok |-> FALSE]
  <2>1. cRequest[r].done \in BOOLEAN
    BY <1>10, <1>t, ConnectionFields DEF C!RecordFails, C!TypeOK
  <2>2. cRequest' = [cRequest EXCEPT ![r] = IF cRequest[r].ok THEN told ELSE C!Idle]
    BY <1>10 DEF C!RecordFails, C!Become
  <2>3. \E s \in {told, C!Idle} : cRequest' = [cRequest EXCEPT ![r] = s]
    <3>1. CASE cRequest[r].ok
      BY <2>2, <3>1, Zenon
    <3>2. CASE ~cRequest[r].ok
      BY <2>2, <3>2, Zenon
    <3> QED
      BY <3>1, <3>2
  <2>4. PICK s \in {told, C!Idle} : cRequest' = [cRequest EXCEPT ![r] = s]
    BY <2>3
  <2>5. s \in C!States
    <3>1. FALSE \in BOOLEAN
      BY Zenon
    <3>2. told \in C!States
      BY <2>1, <3>1, ConnectionShapes, Zenon
    <3> QED
      BY <2>4, <3>2, ConnectionShapes, Zenon
  <2>6. s.op \in {"record", "idle"}
    BY <2>4 DEF C!Idle
  <2> QED
    BY <1>10, <1>t, <2>4, <2>5, <2>6
       DEF C!RecordFails, C!row, C!history, ConnectionInv, C!TypeOK, TestedHolds
<1> QED
  BY <1>0, <1>1, <1>2, <1>3, <1>4, <1>5, <1>6, <1>7, <1>8, <1>9, <1>10 DEF C!Next

(* A connection that is enabled passed a test of its current configuration, *)
(* unless a request wrote what it had read of a replaced one.               *)
THEOREM EnabledCorrect == ServicesSpec => []EnabledIsTested
<1>1. ServicesInit => ConnectionInv
  BY ConnectionInit DEF ServicesInit
<1>2. ConnectionInv /\ [ServicesNext]_services => ConnectionInv'
  BY ConnectionNext DEF ServicesNext, services
<1>3. ConnectionInv => EnabledIsTested
  BY DEF ConnectionInv, EnabledIsTested, C!EnabledIsTested, TestedHolds
<1> QED
  BY <1>1, <1>2, <1>3, PTL DEF ServicesSpec

-----------------------------------------------------------------------------
(* Dictionaries.                                                           *)

(* What a request is about to write is an item or a type, ...              *)
ItemRequest(s) ==
  /\ s.op \in {"create", "update"} => s.item \in Items /\ s.value \in D!Values
  /\ s.op = "retype" => s.type \in D!Types
  /\ s.op = "import" =>
       DOMAIN s.values \subseteq Items /\ \A i \in DOMAIN s.values : s.values[i] \in D!Values

(* ... and what it found of the table when it looked still holds.          *)
ItemChecked(s) ==
  /\ s.op \in {"create", "update"} => D!Matches(valueType, s.value)
  /\ s.op = "retype" => s.type = valueType \/ D!Present = {}
  /\ s.op = "import" => \A i \in DOMAIN s.values : D!Matches(valueType, s.values[i])

DictionaryTypes ==
  /\ valueType \in D!Types
  /\ value \in [Items -> D!Values \cup {D!Absent}]
  /\ DOMAIN dRequest = Requests
  /\ \A r \in Requests : ItemRequest(dRequest[r])

DictionaryInv ==
  /\ DictionaryTypes
  /\ dOverlapped \/ /\ D!ItemsMatchType
                    /\ \A r \in Requests \ dStale : ItemChecked(dRequest[r])

(* At first there is no item and no request.                                *)
LEMMA DictionaryInit == D!Init => DictionaryInv
<1> SUFFICES ASSUME D!Init PROVE DictionaryInv
  OBVIOUS
<1>1. DictionaryTypes
  BY DEF D!Init, D!Idle, DictionaryTypes, ItemRequest
<1>2. D!Present = {}
  BY DEF D!Init, D!Present
<1> QED
  BY <1>1, <1>2 DEF D!Init, D!Idle, D!ItemsMatchType, DictionaryInv, ItemChecked

(* A request that looks at the table changes nothing but itself.           *)
LEMMA DictionaryLook ==
  ASSUME DictionaryInv, NEW r \in Requests, NEW s, D!Become(r, s),
         UNCHANGED <<valueType, value, dStale, dOverlapped>>, ItemRequest(s), ItemChecked(s)
  PROVE  DictionaryInv'
<1>1. dRequest' = [dRequest EXCEPT ![r] = s]
  BY DEF D!Become
<1>2. DictionaryTypes'
  BY <1>1 DEF DictionaryInv, DictionaryTypes, ItemRequest
<1>3. \A q \in Requests : ItemChecked(dRequest[q]) => ItemChecked(dRequest'[q])
  BY <1>1 DEF DictionaryInv, DictionaryTypes
<1>4. \A q \in Requests : ItemChecked(dRequest'[q]) => ItemChecked(dRequest[q])'
  BY DEF ItemChecked, D!Matches, D!Present
<1> QED
  BY <1>2, <1>3, <1>4 DEF DictionaryInv, D!ItemsMatchType, D!Present, D!Matches

(* One that writes leaves the others with checks that are out of date.     *)
LEMMA DictionaryWritten ==
  ASSUME DictionaryInv, NEW r \in Requests, D!Written(r),
         valueType' \in D!Types, value' \in [Items -> D!Values \cup {D!Absent}],
         ~dOverlapped /\ ItemChecked(dRequest[r]) =>
           \A i \in Items : value'[i] # D!Absent => D!Matches(valueType', value'[i])
  PROVE  DictionaryInv'
<1>1. /\ dRequest' = [dRequest EXCEPT ![r] = D!Idle]
      /\ dOverlapped' = (dOverlapped \/ r \in dStale)
      /\ dStale' = {q \in Requests \ {r} : dRequest[q] # D!Idle}
  BY DEF D!Written, D!Become
<1>2. DictionaryTypes'
  BY <1>1 DEF DictionaryInv, DictionaryTypes, ItemRequest, D!Idle
<1>3. \A q \in Requests \ dStale' : dRequest'[q] = D!Idle
  BY <1>1 DEF DictionaryInv, DictionaryTypes
<1>4. \A q \in Requests \ dStale' : ItemChecked(dRequest[q])'
  BY <1>3 DEF ItemChecked, D!Idle
<1>5. ~dOverlapped' => D!ItemsMatchType'
  BY <1>1 DEF DictionaryInv, D!ItemsMatchType, D!Present
<1> QED
  BY <1>2, <1>4, <1>5 DEF DictionaryInv

(* Every step of a request to the dictionary keeps its invariant.           *)
LEMMA DictionaryNext == DictionaryInv /\ [D!Next]_items => DictionaryInv'
<1> SUFFICES ASSUME DictionaryInv, [D!Next]_items PROVE DictionaryInv'
  OBVIOUS
<1>t. DictionaryTypes
  BY DEF DictionaryInv
<1>0. CASE UNCHANGED items
  BY <1>0 DEF items, DictionaryInv, DictionaryTypes, D!ItemsMatchType, D!Present, D!Matches,
              ItemRequest, ItemChecked
<1>1. ASSUME NEW r \in Requests, NEW op \in {"create", "update"}, NEW i \in Items, NEW v \in D!Values,
             D!BeginItem(r, op, i, v)
      PROVE  DictionaryInv'
  <2> DEFINE s == [op |-> op, item |-> i, value |-> v]
  <2>1. ItemRequest(s) /\ ItemChecked(s)
    BY <1>1 DEF D!BeginItem, ItemRequest, ItemChecked
  <2> QED
    BY <1>1, <2>1, DictionaryLook DEF D!BeginItem, D!tables, D!history
<1>2. ASSUME NEW r \in Requests, D!WriteItem(r) PROVE DictionaryInv'
  <2>1. ItemRequest(dRequest[r])
    BY <1>t DEF DictionaryTypes
  <2>2. /\ dRequest[r].item \in Items /\ dRequest[r].value \in D!Values
        /\ ItemChecked(dRequest[r]) => D!Matches(valueType, dRequest[r].value)
    BY <1>2, <2>1 DEF D!WriteItem, ItemRequest, ItemChecked
  <2>3. value' = [value EXCEPT ![dRequest[r].item] = dRequest[r].value] /\ valueType' = valueType
    BY <1>2 DEF D!WriteItem
  <2>4. value' \in [Items -> D!Values \cup {D!Absent}]
    BY <1>t, <2>2, <2>3 DEF DictionaryTypes
  <2>5. ~dOverlapped /\ ItemChecked(dRequest[r]) =>
          \A i \in Items : value'[i] # D!Absent => D!Matches(valueType', value'[i])
    BY <1>t, <2>2, <2>3 DEF DictionaryInv, DictionaryTypes, D!ItemsMatchType, D!Present
  <2> QED
    BY <1>2, <1>t, <2>3, <2>4, <2>5, DictionaryWritten DEF D!WriteItem, DictionaryTypes
<1>3. ASSUME NEW r \in Requests, NEW type \in D!Types, D!BeginUpdate(r, type) PROVE DictionaryInv'
  <2> DEFINE s == [op |-> "retype", type |-> type]
  <2>1. ItemRequest(s) /\ ItemChecked(s)
    BY <1>3 DEF D!BeginUpdate, ItemRequest, ItemChecked
  <2> QED
    BY <1>3, <2>1, DictionaryLook DEF D!BeginUpdate, D!tables, D!history
<1>4. ASSUME NEW r \in Requests, D!UpdateDictionary(r) PROVE DictionaryInv'
  <2>1. dRequest[r].type \in D!Types
    BY <1>4, <1>t DEF D!UpdateDictionary, DictionaryTypes, ItemRequest
  <2>2. valueType' = dRequest[r].type /\ value' = value
    BY <1>4 DEF D!UpdateDictionary
  <2>3. ~dOverlapped /\ ItemChecked(dRequest[r]) =>
          \A i \in Items : value'[i] # D!Absent => D!Matches(valueType', value'[i])
    BY <1>4, <2>2
       DEF D!UpdateDictionary, ItemChecked, DictionaryInv, D!ItemsMatchType, D!Present
  <2> QED
    BY <1>4, <1>t, <2>1, <2>2, <2>3, DictionaryWritten DEF D!UpdateDictionary, DictionaryTypes
<1>5. ASSUME NEW r \in Requests, NEW document \in ItemDocuments, D!BeginImport(r, document)
      PROVE  DictionaryInv'
  <2> DEFINE s == [op |-> "import", values |-> document.values]
  <2>1. ItemRequest(s) /\ ItemChecked(s)
    BY <1>5, DocumentsAssumption DEF D!BeginImport, ItemRequest, ItemChecked
  <2> QED
    BY <1>5, <2>1, DictionaryLook DEF D!BeginImport, D!tables, D!history
<1>6. ASSUME NEW r \in Requests, D!Import(r) PROVE DictionaryInv'
  <2> DEFINE new == dRequest[r].values
  <2>1. /\ DOMAIN new \subseteq Items
        /\ \A i \in DOMAIN new : new[i] \in D!Values
        /\ ItemChecked(dRequest[r]) => \A i \in DOMAIN new : D!Matches(valueType, new[i])
    BY <1>6, <1>t DEF D!Import, DictionaryTypes, ItemRequest, ItemChecked
  <2>2. valueType' = valueType
    BY <1>6 DEF D!Import
  <2>3. value' = [i \in Items |-> IF i \in DOMAIN new THEN new[i] ELSE value[i]]
    BY <1>6, <1>t, <2>1 DEF D!Import, DictionaryTypes
  <2>4. value' \in [Items -> D!Values \cup {D!Absent}]
    BY <1>t, <2>1, <2>3 DEF DictionaryTypes
  <2>5. ~dOverlapped /\ ItemChecked(dRequest[r]) =>
          \A i \in Items : value'[i] # D!Absent => D!Matches(valueType', value'[i])
    BY <1>t, <2>1, <2>2, <2>3 DEF DictionaryInv, DictionaryTypes, D!ItemsMatchType, D!Present
  <2> QED
    BY <1>6, <1>t, <2>2, <2>4, <2>5, DictionaryWritten DEF D!Import, DictionaryTypes
<1>7. ASSUME NEW r \in Requests, D!Abandon(r) PROVE DictionaryInv'
  <2>1. dRequest' = [dRequest EXCEPT ![r] = D!Idle] /\ dStale' = dStale \ {r}
    BY <1>7 DEF D!Abandon, D!Become
  <2>2. UNCHANGED <<valueType, value, dOverlapped>>
    BY <1>7 DEF D!Abandon, D!tables
  <2>3. DictionaryTypes'
    BY <1>t, <2>1, <2>2 DEF DictionaryTypes, ItemRequest, D!Idle
  <2>4. \A q \in Requests \ dStale' : dRequest'[q] = D!Idle \/ (q \notin dStale /\ dRequest'[q] = dRequest[q])
    BY <1>t, <2>1 DEF DictionaryTypes
  <2>5. ~dOverlapped => \A q \in Requests \ dStale' : ItemChecked(dRequest[q])'
    BY <2>2, <2>4 DEF DictionaryInv, ItemChecked, D!Idle, D!Matches, D!Present
  <2> QED
    BY <2>2, <2>3, <2>5 DEF DictionaryInv, D!ItemsMatchType, D!Present, D!Matches
<1> QED
  BY <1>0, <1>1, <1>2, <1>3, <1>4, <1>5, <1>6, <1>7 DEF D!Next

(* Every item has a value of the type of its dictionary.                   *)
THEOREM ItemsCorrect == ServicesSpec => []ItemsMatchType
<1>1. ServicesInit => DictionaryInv
  BY DictionaryInit DEF ServicesInit
<1>2. DictionaryInv /\ [ServicesNext]_services => DictionaryInv'
  BY DictionaryNext DEF ServicesNext, services
<1>3. DictionaryInv => ItemsMatchType
  BY DEF DictionaryInv, ItemsMatchType, D!ItemsMatchType
<1> QED
  BY <1>1, <1>2, <1>3, PTL DEF ServicesSpec

-----------------------------------------------------------------------------
(* Taxonomies.                                                             *)

Places == T!Present \cup {T!Root}

(* What a request is about to write lies in the tree, ...                  *)
TermRequest(s) ==
  /\ s.op = "create" => s.term \in Terms /\ s.parent \in Places
  /\ s.op = "walk" =>
       /\ s = [op |-> "walk", term |-> s.term, parent |-> s.parent, cursor |-> s.cursor]
       /\ s.term \in T!Present /\ s.parent \in Places
  /\ s.op = "update" /\ "shape" \in DOMAIN s.change => s.change["shape"] \in {"tree", "flat"}
  /\ s.op = "import" =>
       /\ DOMAIN s.parents \subseteq Terms
       /\ \A t \in DOMAIN s.parents : s.parents[t] \in (DOMAIN s.parents) \cup {T!Root}
       /\ T!NoCycle(s.parents)

(* ... and what it found when it looked still holds.  Whoever follows the  *)
(* parents up from the new one, and does not stop at the term, comes by    *)
(* where the walk is.                                                      *)
WalkedUp(s) ==
  \A S \in SUBSET T!Present :
    s.parent \in S /\ (\A x \in S \ {s.term} : parent[x] \in S) => s.cursor \in S

TermChecked(s) ==
  /\ s.op = "create" => s.parent = T!Root \/ taxonomy.shape = "tree"
  /\ s.op = "walk" => (s.parent = T!Root \/ taxonomy.shape = "tree") /\ WalkedUp(s)
  /\ s.op = "update" =>
       /\ T!Valid(T!Changed(s.change))
       /\ taxonomy.shape = "tree" /\ T!Changed(s.change).shape = "flat" =>
            \A t \in T!Present : parent[t] = T!Root
  /\ s.op = "import" =>
       (taxonomy.shape = "flat" => \A t \in DOMAIN s.parents : s.parents[t] = T!Root)

ForestNow ==
  /\ T!Valid(taxonomy)
  /\ taxonomy.shape = "flat" => \A t \in T!Present : parent[t] = T!Root
  /\ T!NoCycle([t \in T!Present |-> parent[t]])

TaxonomyTypes ==
  /\ taxonomy.shape \in {"tree", "flat"}
  /\ parent \in [Terms -> Terms \cup {T!Root, T!Absent}]
  /\ \A t \in T!Present : parent[t] \in Places
  /\ DOMAIN tRequest = Requests
  /\ \A r \in Requests : TermRequest(tRequest[r])

TaxonomyInv ==
  /\ TaxonomyTypes
  /\ tOverlapped \/ /\ ForestNow
                    /\ \A r \in Requests \ tStale : TermChecked(tRequest[r])

(* A finite forest has no cycle exactly when every set of its terms has a   *)
(* member whose parent is outside.                                          *)
LEMMA Acyclic ==
  T!NoCycle([t \in T!Present |-> parent[t]]) <=>
    \A S \in SUBSET T!Present : S # {} => \E t \in S : parent[t] \notin S
<1> DEFINE up == [t \in T!Present |-> parent[t]]
<1>1. DOMAIN up = T!Present /\ \A t \in T!Present : up[t] = parent[t]
  OBVIOUS
<1>2. T!NoCycle(up) <=> \A S \in (SUBSET T!Present) \ {{}} : \E t \in S : up[t] \notin S
  BY <1>1 DEF T!NoCycle
<1>3. \A S \in SUBSET T!Present : \A t \in S : up[t] = parent[t]
  BY <1>1
<1> HIDE DEF up
<1>4. ASSUME NEW S \in SUBSET T!Present
      PROVE  (\E t \in S : up[t] \notin S) <=> (\E t \in S : parent[t] \notin S)
  BY <1>3
<1>5. \A S : S \in (SUBSET T!Present) \ {{}} <=> S \in SUBSET T!Present /\ S # {}
  OBVIOUS
<1> QED
  BY <1>2, <1>4, <1>5, Zenon DEF up

(* At first there is no term and no request.                                *)
LEMMA TaxonomyInit == T!Init => TaxonomyInv
<1> SUFFICES ASSUME T!Init PROVE TaxonomyInv
  OBVIOUS
<1>1. T!Present = {}
  BY DEF T!Init, T!Present
<1>2. taxonomy.shape \in {"tree", "flat"} /\ T!Valid(taxonomy)
  BY DEF T!Init, T!Taxonomies
<1>3. \A r \in Requests : tRequest[r].op = "idle"
  BY DEF T!Init, T!Idle
<1>4. TaxonomyTypes
  BY <1>1, <1>2, <1>3 DEF T!Init, TaxonomyTypes, TermRequest
<1>5. ForestNow
  BY <1>1, <1>2, Acyclic DEF ForestNow
<1> QED
  BY <1>3, <1>4, <1>5 DEF TaxonomyInv, TermChecked

(* A request that looks at the tables changes nothing but itself.          *)
LEMMA TaxonomyLook ==
  ASSUME TaxonomyInv, NEW r \in Requests, NEW s, T!Become(r, s),
         UNCHANGED <<taxonomy, parent, tStale, tOverlapped>>, TermRequest(s),
         ~tOverlapped /\ r \notin tStale => TermChecked(s)
  PROVE  TaxonomyInv'
<1>1. tRequest' = [tRequest EXCEPT ![r] = s]
  BY DEF T!Become
<1>2. /\ \A q \in Requests : tRequest'[q] = IF q = r THEN s ELSE tRequest[q]
      /\ DOMAIN tRequest' = Requests
  BY <1>1 DEF TaxonomyInv, TaxonomyTypes
<1>3. TaxonomyTypes'
  BY <1>2 DEF TaxonomyInv, TaxonomyTypes, TermRequest, T!Present, Places, T!Changed, T!NoCycle
<1>4. ~tOverlapped => \A q \in Requests \ tStale : TermChecked(tRequest[q])'
  <2>1. ~tOverlapped => \A q \in Requests \ tStale : TermChecked(tRequest'[q])
    BY <1>2 DEF TaxonomyInv
  <2>2. \A q \in Requests : TermChecked(tRequest'[q]) => TermChecked(tRequest[q])'
    BY DEF TermChecked, WalkedUp, T!Present, T!Changed, T!Valid
  <2> QED
    BY <2>1, <2>2
<1>5. ForestNow => ForestNow'
  BY DEF ForestNow, T!Present, T!Valid, T!NoCycle
<1> QED
  BY <1>3, <1>4, <1>5 DEF TaxonomyInv

(* One that writes leaves the others with checks that are out of date.     *)
LEMMA TaxonomyWritten ==
  ASSUME TaxonomyInv, NEW r \in Requests, T!Written(r),
         taxonomy'.shape \in {"tree", "flat"},
         parent' \in [Terms -> Terms \cup {T!Root, T!Absent}],
         T!Present \subseteq T!Present',
         \A t \in T!Present' : parent'[t] \in Places',
         ~tOverlapped /\ TermChecked(tRequest[r]) => ForestNow'
  PROVE  TaxonomyInv'
<1>1. /\ tRequest' = [tRequest EXCEPT ![r] = T!Idle]
      /\ tOverlapped' = (tOverlapped \/ r \in tStale)
      /\ tStale' = {q \in Requests \ {r} : tRequest[q] # T!Idle}
  BY DEF T!Written, T!Become
<1>2. /\ \A q \in Requests : tRequest'[q] = IF q = r THEN T!Idle ELSE tRequest[q]
      /\ DOMAIN tRequest' = Requests
  BY <1>1 DEF TaxonomyInv, TaxonomyTypes
<1>3. \A q \in Requests : TermRequest(tRequest[q])'
  <2>1. TermRequest(T!Idle)'
    BY DEF TermRequest, T!Idle
  <2>2. ASSUME NEW q \in Requests \ {r} PROVE TermRequest(tRequest[q])'
    <3>1. tRequest'[q] = tRequest[q] /\ TermRequest(tRequest[q])
      BY <1>2 DEF TaxonomyInv, TaxonomyTypes
    <3>2. T!NoCycle(tRequest[q].parents)' <=> T!NoCycle(tRequest[q].parents)
      BY <3>1 DEF T!NoCycle
    <3> QED
      BY <3>1, <3>2 DEF TermRequest, Places
  <2>3. tRequest'[r] = T!Idle
    BY <1>2
  <2> QED
    BY <2>1, <2>2, <2>3 DEF TermRequest
<1>4. TaxonomyTypes'
  BY <1>2, <1>3 DEF TaxonomyInv, TaxonomyTypes
<1>5. \A q \in Requests \ tStale' : tRequest'[q].op = "idle"
  BY <1>1, <1>2 DEF T!Idle
<1>6. \A q \in Requests \ tStale' : TermChecked(tRequest[q])'
  BY <1>5 DEF TermChecked
<1>7. ~tOverlapped' => ForestNow'
  BY <1>1 DEF TaxonomyInv
<1> QED
  BY <1>4, <1>6, <1>7 DEF TaxonomyInv

(* Every set of terms of a tree has one whose parent is outside.           *)
LEMMA NewForest ==
  ASSUME \A S \in SUBSET T!Present' : S # {} => \E x \in S : parent'[x] \notin S
  PROVE  T!NoCycle([x \in T!Present |-> parent[x]])'
<1> DEFINE up == [x \in T!Present |-> parent[x]]'
<1>1. DOMAIN up = T!Present' /\ \A x \in T!Present' : up[x] = parent'[x]
  OBVIOUS
<1> HIDE DEF up
<1>2. \A S \in (SUBSET DOMAIN up) \ {{}} : \E x \in S : up[x] \notin S
  <2> SUFFICES ASSUME NEW S \in SUBSET T!Present', S # {} PROVE \E x \in S : up[x] \notin S
    BY <1>1
  <2>1. PICK x \in S : parent'[x] \notin S
    OBVIOUS
  <2> QED
    BY <1>1, <2>1
<1> QED
  BY <1>2 DEF T!NoCycle, up

(* A new term has no children, and hangs on a place of the tree.           *)
LEMMA CreateKeepsForest ==
  ASSUME TaxonomyTypes, ForestNow, NEW t \in Terms \ T!Present, NEW p \in Places,
         p = T!Root \/ taxonomy.shape = "tree",
         parent' = [parent EXCEPT ![t] = p], taxonomy' = taxonomy
  PROVE  ForestNow'
<1>1. \A x \in Terms : parent'[x] = IF x = t THEN p ELSE parent[x]
  BY DEF TaxonomyTypes
<1>2. p # T!Absent /\ T!Root \notin T!Present
  BY DocumentsAssumption DEF Places, T!Present, T!Root, T!Absent
<1>3. T!Present' = T!Present \cup {t}
  BY <1>1, <1>2 DEF T!Present
<1>4. taxonomy.shape = "flat" => \A x \in T!Present' : parent'[x] = T!Root
  BY <1>1, <1>3 DEF ForestNow, T!Present
<1>5. ASSUME NEW S \in SUBSET T!Present', S # {}, \A x \in S : parent'[x] \in S PROVE FALSE
  <2>1. \A x \in S \ {t} : parent[x] \in S \ {t}
    <3> SUFFICES ASSUME NEW x \in S, x # t PROVE parent[x] \in S /\ parent[x] # t
      OBVIOUS
    <3>1. x \in T!Present /\ x \in Terms
      BY <1>3, <1>5 DEF T!Present
    <3>2. parent[x] \in Places /\ t \notin Places
      BY <3>1, DocumentsAssumption DEF TaxonomyTypes, Places
    <3>3. parent'[x] = parent[x]
      BY <1>1, <3>1
    <3> QED
      BY <1>5, <3>2, <3>3
  <2>2. S \ {t} # {}
    <3>1. S # {t}
      BY <1>1, <1>2, <1>3, <1>5, DocumentsAssumption DEF Places
    <3> QED
      BY <3>1, <1>5
  <2>3. S \ {t} \in SUBSET T!Present
    BY <1>3, <1>5
  <2> QED
    BY <2>1, <2>2, <2>3, Acyclic DEF ForestNow
<1>6. \A S \in SUBSET T!Present' : S # {} => \E x \in S : parent'[x] \notin S
  BY <1>5
<1>7. T!NoCycle([x \in T!Present |-> parent[x]])'
  BY <1>6, NewForest
<1> QED
  BY <1>3, <1>4, <1>7 DEF ForestNow, T!Valid

(* A term moves to a place that is not below it: following the parents up  *)
(* from there ends at the root, so a closed set that holds the term would  *)
(* hold the root.                                                          *)
LEMMA MoveKeepsForest ==
  ASSUME TaxonomyTypes, ForestNow, NEW s, WalkedUp(s), s.term \in T!Present,
         s.parent \in Places, s.cursor = T!Root,
         s.parent = T!Root \/ taxonomy.shape = "tree",
         parent' = [parent EXCEPT ![s.term] = s.parent], taxonomy' = taxonomy
  PROVE  ForestNow'
<1>1. \A x \in Terms : parent'[x] = IF x = s.term THEN s.parent ELSE parent[x]
  BY DEF TaxonomyTypes
<1>2. s.parent # T!Absent /\ T!Root \notin T!Present
  BY DocumentsAssumption DEF Places, T!Present, T!Root, T!Absent
<1>3. T!Present' = T!Present
  BY <1>1, <1>2 DEF T!Present
<1>4. taxonomy.shape = "flat" => \A x \in T!Present' : parent'[x] = T!Root
  BY <1>1, <1>3 DEF ForestNow, T!Present
<1>5. ASSUME NEW S \in SUBSET T!Present', S # {}, \A x \in S : parent'[x] \in S PROVE FALSE
  <2>1. S \in SUBSET T!Present /\ S \subseteq Terms
    BY <1>3, <1>5 DEF T!Present
  <2>2. \A x \in S \ {s.term} : parent[x] \in S
    BY <1>1, <1>5, <2>1
  <2>3. CASE s.term \in S
    <3>1. s.parent \in S
      BY <1>1, <1>5, <2>1, <2>3
    <3>2. s.cursor \in S
      BY <2>1, <2>2, <3>1 DEF WalkedUp
    <3> QED
      BY <1>2, <2>1, <3>2
  <2>4. CASE s.term \notin S
    <3>1. \A x \in S : parent[x] \in S
      BY <2>2, <2>4
    <3>2. \E x \in S : parent[x] \notin S
      BY <1>5, <2>1, Acyclic DEF ForestNow
    <3> QED
      BY <3>1, <3>2
  <2> QED
    BY <2>3, <2>4
<1>6. \A S \in SUBSET T!Present' : S # {} => \E x \in S : parent'[x] \notin S
  BY <1>5
<1>7. T!NoCycle([x \in T!Present |-> parent[x]])'
  BY <1>6, NewForest
<1> QED
  BY <1>3, <1>4, <1>7 DEF ForestNow, T!Valid

(* A document is a forest of its own: a set that is closed afterwards has  *)
(* no term of the document, whose parents lead to the root.                *)
LEMMA ImportKeepsForest ==
  ASSUME TaxonomyTypes, ForestNow, NEW new, DOMAIN new \subseteq Terms,
         \A t \in DOMAIN new : new[t] \in (DOMAIN new) \cup {T!Root},
         T!NoCycle(new),
         taxonomy.shape = "flat" => \A t \in DOMAIN new : new[t] = T!Root,
         parent' = [t \in Terms |-> IF t \in DOMAIN new THEN new[t] ELSE parent[t]],
         taxonomy' = taxonomy
  PROVE  ForestNow'
<1>1. \A x \in Terms : parent'[x] = IF x \in DOMAIN new THEN new[x] ELSE parent[x]
  OBVIOUS
<1>2. T!Absent \notin (DOMAIN new) \cup {T!Root} /\ T!Root \notin Terms
  BY DocumentsAssumption DEF T!Root, T!Absent
<1>3. T!Present' = T!Present \cup DOMAIN new
  BY <1>1, <1>2 DEF T!Present
<1>4. taxonomy.shape = "flat" => \A x \in T!Present' : parent'[x] = T!Root
  BY <1>1, <1>3 DEF ForestNow, T!Present
<1>5. ASSUME NEW S \in SUBSET T!Present', S # {}, \A x \in S : parent'[x] \in S PROVE FALSE
  <2>1. S \subseteq Terms /\ S \subseteq T!Present \cup DOMAIN new
    BY <1>3, <1>5 DEF T!Present
  <2>2. S \cap DOMAIN new = {}
    <3> DEFINE listed == S \cap DOMAIN new
    <3>1. \A t \in listed : new[t] \in listed
      BY <1>1, <1>2, <1>5, <2>1
    <3>2. \A P \in (SUBSET DOMAIN new) \ {{}} : \E t \in P : new[t] \notin P
      BY DEF T!NoCycle
    <3>3. listed \in SUBSET DOMAIN new
      OBVIOUS
    <3> QED
      BY <3>1, <3>2, <3>3
  <2>3. S \in SUBSET T!Present
    BY <2>1, <2>2
  <2>4. \A x \in S : parent[x] \in S
    BY <1>1, <1>5, <2>1, <2>2
  <2>5. \E x \in S : parent[x] \notin S
    BY <1>5, <2>3, Acyclic DEF ForestNow
  <2> QED
    BY <2>4, <2>5
<1>6. \A S \in SUBSET T!Present' : S # {} => \E x \in S : parent'[x] \notin S
  BY <1>5
<1>7. T!NoCycle([x \in T!Present |-> parent[x]])'
  BY <1>6, NewForest
<1> QED
  BY <1>3, <1>4, <1>7 DEF ForestNow, T!Valid

(* One that is refused or dies lets the others' checks stand.              *)
LEMMA TaxonomyRefuse ==
  ASSUME TaxonomyInv, NEW r \in Requests, T!Refuse(r)
  PROVE  TaxonomyInv'
<1>1. /\ \A q \in Requests : tRequest'[q] = IF q = r THEN T!Idle ELSE tRequest[q]
      /\ DOMAIN tRequest' = Requests
  BY DEF T!Refuse, T!Become, TaxonomyInv, TaxonomyTypes
<1>2. taxonomy' = taxonomy /\ parent' = parent /\ tOverlapped' = tOverlapped /\ tStale' = tStale \ {r}
  BY DEF T!Refuse, T!tables
<1>3. TermRequest(T!Idle) /\ TermChecked(T!Idle)
  BY DEF TermRequest, TermChecked, T!Idle
<1>4. \A q \in Requests : TermRequest(tRequest'[q])
  BY <1>1, <1>3 DEF TaxonomyInv, TaxonomyTypes
<1>5. TaxonomyTypes'
  <2>1. \A q \in Requests : TermRequest(tRequest'[q]) => TermRequest(tRequest[q])'
    BY <1>2 DEF TermRequest, T!Present, Places, T!NoCycle
  <2> QED
    BY <1>1, <1>2, <1>4, <2>1 DEF TaxonomyInv, TaxonomyTypes, T!Present, Places
<1>6. ~tOverlapped => \A q \in Requests \ tStale' : TermChecked(tRequest[q])'
  <2>1. ~tOverlapped => \A q \in Requests \ tStale' : TermChecked(tRequest'[q])
    BY <1>1, <1>2, <1>3 DEF TaxonomyInv
  <2>2. \A q \in Requests : TermChecked(tRequest'[q]) => TermChecked(tRequest[q])'
    BY <1>2 DEF TermChecked, WalkedUp, T!Present, T!Changed, T!Valid
  <2> QED
    BY <2>1, <2>2
<1>7. ForestNow => ForestNow'
  BY <1>2 DEF ForestNow, T!Present, T!Valid, T!NoCycle
<1> QED
  BY <1>2, <1>5, <1>6, <1>7 DEF TaxonomyInv

(* Each step keeps the invariant: the eleven of T!Next.                     *)
LEMMA TaxonomyNext ==
  TaxonomyInv /\ [T!Next]_terms => TaxonomyInv'
<1> SUFFICES ASSUME TaxonomyInv, [T!Next]_terms PROVE TaxonomyInv'
  OBVIOUS
<1>r. T!Root \notin T!Present /\ T!Root \notin Terms /\ T!Absent \notin Terms /\ T!Root # T!Absent
  BY DocumentsAssumption DEF T!Present, T!Root, T!Absent
<1>t. TaxonomyTypes
  BY DEF TaxonomyInv
<1>0. CASE UNCHANGED terms
  <2>1. TaxonomyTypes'
    BY <1>0, <1>t DEF terms, TaxonomyTypes, TermRequest, Places, T!Present, T!NoCycle
  <2>2. ForestNow => ForestNow'
    BY <1>0 DEF terms, ForestNow, T!Present, T!Valid, T!NoCycle
  <2>3. \A r \in Requests : TermChecked(tRequest[r]) => TermChecked(tRequest[r])'
    BY <1>0 DEF terms, TermChecked, WalkedUp, T!Present, T!Changed, T!Valid
  <2> QED
    BY <1>0, <2>1, <2>2, <2>3 DEF terms, TaxonomyInv
<1>1. ASSUME NEW r \in Requests, NEW t \in Terms, NEW p \in Terms \cup {T!Root},
             T!BeginCreateTerm(r, t, p)
      PROVE  TaxonomyInv'
  <2> DEFINE s == [op |-> "create", term |-> t, parent |-> p]
  <2>1. p \in Places /\ (p = T!Root \/ taxonomy.shape = "tree")
    BY <1>1 DEF T!BeginCreateTerm, T!ParentAllowed, Places
  <2>2. TermRequest(s) /\ TermChecked(s)
    BY <2>1 DEF TermRequest, TermChecked
  <2> QED
    BY <1>1, <2>2, TaxonomyLook DEF T!BeginCreateTerm, T!tables, T!history
<1>2. ASSUME NEW r \in Requests, T!CreateTerm(r) PROVE TaxonomyInv'
  <2> DEFINE s == tRequest[r]
  <2>1. s.term \in Terms \ T!Present /\ s.parent \in Places
    BY <1>2, <1>t DEF T!CreateTerm, TaxonomyTypes, TermRequest
  <2>2. \A x \in Terms : parent'[x] = IF x = s.term THEN s.parent ELSE parent[x]
    BY <1>2, <1>t DEF T!CreateTerm, TaxonomyTypes
  <2>3. s.parent \in Terms \cup {T!Root} /\ s.parent # T!Absent
    BY <2>1, <1>r DEF Places, T!Present
  <2>4. T!Present' = T!Present \cup {s.term}
    BY <2>1, <2>2, <2>3 DEF T!Present
  <2>5. parent' \in [Terms -> Terms \cup {T!Root, T!Absent}]
    BY <1>2, <1>t, <2>1, <2>3 DEF T!CreateTerm, TaxonomyTypes
  <2>6. \A x \in T!Present' : parent'[x] \in Places'
    BY <1>t, <2>1, <2>2, <2>4 DEF TaxonomyTypes, Places, T!Present
  <2>7. TermChecked(s) => s.parent = T!Root \/ taxonomy.shape = "tree"
    BY <1>2 DEF T!CreateTerm, TermChecked
  <2>8. ~tOverlapped /\ TermChecked(tRequest[r]) => ForestNow'
    BY <1>2, <1>t, <2>1, <2>7, CreateKeepsForest DEF T!CreateTerm, TaxonomyInv
  <2>9. taxonomy'.shape \in {"tree", "flat"}
    BY <1>2, <1>t DEF T!CreateTerm, TaxonomyTypes
  <2> QED
    BY <1>2, <2>4, <2>5, <2>6, <2>8, <2>9, TaxonomyWritten DEF T!CreateTerm
<1>3. ASSUME NEW r \in Requests, NEW t \in Terms, NEW p \in Terms \cup {T!Root},
             T!BeginMoveTerm(r, t, p)
      PROVE  TaxonomyInv'
  <2> DEFINE s == [op |-> "walk", term |-> t, parent |-> p, cursor |-> p]
  <2>1. t \in T!Present /\ p \in Places /\ (p = T!Root \/ taxonomy.shape = "tree")
    BY <1>3 DEF T!BeginMoveTerm, T!ParentAllowed, Places
  <2>2. TermRequest(s) /\ TermChecked(s)
    BY <2>1 DEF TermRequest, TermChecked, WalkedUp
  <2> QED
    BY <1>3, <2>2, TaxonomyLook DEF T!BeginMoveTerm, T!tables, T!history
<1>4. ASSUME NEW r \in Requests, T!Walk(r) PROVE TaxonomyInv'
  <2> DEFINE s == [tRequest[r] EXCEPT !.cursor = parent[@]]
  <2>1. tRequest[r] = [op |-> "walk", term |-> tRequest[r].term, parent |-> tRequest[r].parent,
                       cursor |-> tRequest[r].cursor]
    BY <1>4, <1>t DEF T!Walk, TaxonomyTypes, TermRequest
  <2>2. s = [op |-> "walk", term |-> tRequest[r].term, parent |-> tRequest[r].parent,
             cursor |-> parent[tRequest[r].cursor]]
    BY <2>1
  <2>3. tRequest[r].op = "walk" /\ tRequest[r].cursor # tRequest[r].term
    BY <1>4 DEF T!Walk
  <2>4. TermRequest(s)
    BY <1>t, <2>2, <2>3 DEF TaxonomyTypes, TermRequest
  <2>5. WalkedUp(tRequest[r]) => WalkedUp(s)
    BY <2>2, <2>3 DEF WalkedUp
  <2>6. TermChecked(tRequest[r]) => TermChecked(s)
    BY <2>2, <2>3, <2>5 DEF TermChecked
  <2> QED
    BY <1>4, <2>4, <2>6, TaxonomyLook DEF T!Walk, T!tables, T!history, TaxonomyInv
<1>5. ASSUME NEW r \in Requests, T!RefuseMove(r) \/ T!Abandon(r) PROVE TaxonomyInv'
  BY <1>5, TaxonomyRefuse DEF T!RefuseMove, T!Abandon
<1>6. ASSUME NEW r \in Requests, T!MoveTerm(r) PROVE TaxonomyInv'
  <2> DEFINE s == tRequest[r]
  <2>1. s.term \in T!Present /\ s.parent \in Places
    BY <1>6, <1>t DEF T!MoveTerm, TaxonomyTypes, TermRequest
  <2>2. \A x \in Terms : parent'[x] = IF x = s.term THEN s.parent ELSE parent[x]
    BY <1>6, <1>t DEF T!MoveTerm, TaxonomyTypes
  <2>3. s.parent \in Terms \cup {T!Root} /\ s.parent # T!Absent /\ s.term \in Terms
    BY <2>1, <1>r DEF Places, T!Present
  <2>4. T!Present' = T!Present
    BY <2>1, <2>2, <2>3 DEF T!Present
  <2>5. parent' \in [Terms -> Terms \cup {T!Root, T!Absent}]
    BY <1>6, <1>t, <2>1, <2>3 DEF T!MoveTerm, TaxonomyTypes
  <2>6. \A x \in T!Present' : parent'[x] \in Places'
    BY <1>t, <2>1, <2>2, <2>4 DEF TaxonomyTypes, Places, T!Present
  <2>7. TermChecked(s) => WalkedUp(s) /\ (s.parent = T!Root \/ taxonomy.shape = "tree")
    BY <1>6 DEF T!MoveTerm, TermChecked
  <2>8. ~tOverlapped /\ TermChecked(tRequest[r]) => ForestNow'
    BY <1>6, <1>t, <2>1, <2>7, MoveKeepsForest DEF T!MoveTerm, TaxonomyInv
  <2>9. taxonomy'.shape \in {"tree", "flat"}
    BY <1>6, <1>t DEF T!MoveTerm, TaxonomyTypes
  <2> QED
    BY <1>6, <2>4, <2>5, <2>6, <2>8, <2>9, TaxonomyWritten DEF T!MoveTerm
<1>7. ASSUME NEW r \in Requests, NEW change \in T!Changes, T!BeginUpdateTaxonomy(r, change)
      PROVE  TaxonomyInv'
  <2> DEFINE s == [op |-> "update", change |-> change]
             next == T!Changed(change)
  <2>1. next \in T!Taxonomies /\ T!Valid(next)
        /\ (taxonomy.shape = "tree" /\ next.shape = "flat" =>
              \A t \in T!Present : parent[t] = T!Root)
    BY <1>7 DEF T!BeginUpdateTaxonomy
  <2>2. "shape" \in DOMAIN change => change["shape"] \in {"tree", "flat"}
    BY <2>1 DEF T!Changed, T!Taxonomies
  <2>3. TermRequest(s) /\ TermChecked(s)
    BY <2>1, <2>2 DEF TermRequest, TermChecked
  <2> QED
    BY <1>7, <2>3, TaxonomyLook DEF T!BeginUpdateTaxonomy, T!tables, T!history
<1>8. ASSUME NEW r \in Requests, T!UpdateTaxonomy(r) PROVE TaxonomyInv'
  <2> DEFINE s == tRequest[r]
  <2>1. taxonomy' = T!Changed(s.change) /\ parent' = parent /\ s.op = "update"
    BY <1>8 DEF T!UpdateTaxonomy
  <2>2. T!Present' = T!Present /\ Places' = Places
    BY <2>1 DEF T!Present, Places
  <2>3. taxonomy'.shape \in {"tree", "flat"}
    BY <1>t, <2>1 DEF TaxonomyTypes, TermRequest, T!Changed
  <2>4. ASSUME ~tOverlapped, TermChecked(s) PROVE ForestNow'
    <3>1. T!Valid(taxonomy)'
      BY <2>1, <2>4 DEF TermChecked, T!Valid
    <3>2. (taxonomy.shape = "flat" => \A t \in T!Present : parent[t] = T!Root)'
      BY <1>t, <2>1, <2>2, <2>4 DEF TermChecked, TaxonomyInv, ForestNow, TaxonomyTypes
    <3>3. T!NoCycle([t \in T!Present |-> parent[t]])'
      BY <2>1, <2>2, <2>4 DEF TaxonomyInv, ForestNow, T!NoCycle
    <3> QED
      BY <3>1, <3>2, <3>3 DEF ForestNow
  <2>5. /\ parent' \in [Terms -> Terms \cup {T!Root, T!Absent}]
        /\ T!Present \subseteq T!Present'
        /\ \A t \in T!Present' : parent'[t] \in Places'
    BY <1>t, <2>1, <2>2 DEF TaxonomyTypes
  <2> QED
    BY <1>8, <2>3, <2>4, <2>5, TaxonomyWritten DEF T!UpdateTaxonomy
<1>9. ASSUME NEW r \in Requests, NEW d \in TermDocuments, T!BeginImport(r, d) PROVE TaxonomyInv'
  <2> DEFINE s == [op |-> "import", parents |-> d.parents]
  <2>1. T!WellFormed(d) /\ taxonomy.shape = d.shape
    BY <1>9 DEF T!BeginImport
  <2>2. DOMAIN d.parents \subseteq Terms
    BY DocumentsAssumption
  <2>3. TermRequest(s) /\ TermChecked(s)
    BY <2>1, <2>2 DEF TermRequest, TermChecked, T!WellFormed
  <2> QED
    BY <1>9, <2>3, TaxonomyLook DEF T!BeginImport, T!tables, T!history
<1>10. ASSUME NEW r \in Requests, T!Import(r) PROVE TaxonomyInv'
  <2> DEFINE new == tRequest[r].parents
  <2>1. /\ DOMAIN new \subseteq Terms /\ T!NoCycle(new)
        /\ \A t \in DOMAIN new : new[t] \in (DOMAIN new) \cup {T!Root}
    BY <1>10, <1>t DEF T!Import, TaxonomyTypes, TermRequest
  <2>2. /\ parent' = [t \in Terms |-> IF t \in DOMAIN new THEN new[t] ELSE parent[t]]
        /\ taxonomy' = taxonomy
    BY <1>10 DEF T!Import
  <2> HIDE DEF new
  <2>3. \A x \in Terms : parent'[x] = IF x \in DOMAIN new THEN new[x] ELSE parent[x]
    BY <2>2
  <2>4. T!Present' = T!Present \cup DOMAIN new
    BY <1>r, <2>1, <2>3 DEF T!Present
  <2>5. parent' \in [Terms -> Terms \cup {T!Root, T!Absent}]
    BY <1>t, <2>1, <2>2 DEF TaxonomyTypes
  <2>6. \A x \in T!Present' : parent'[x] \in Places'
    BY <1>t, <2>1, <2>3, <2>4 DEF TaxonomyTypes, Places, T!Present
  <2>7. TermChecked(tRequest[r]) =>
          (taxonomy.shape = "flat" => \A t \in DOMAIN new : new[t] = T!Root)
    BY <1>10 DEF T!Import, TermChecked, new
  <2>8. ~tOverlapped /\ TermChecked(tRequest[r]) => ForestNow'
    BY <1>t, <2>1, <2>2, <2>7, ImportKeepsForest DEF TaxonomyInv
  <2>9. taxonomy'.shape \in {"tree", "flat"}
    BY <2>2, <1>t DEF TaxonomyTypes
  <2> QED
    BY <1>10, <2>4, <2>5, <2>6, <2>8, <2>9, TaxonomyWritten DEF T!Import
<1> QED
  BY <1>0, <1>1, <1>2, <1>3, <1>4, <1>5, <1>6, <1>7, <1>8, <1>9, <1>10 DEF T!Next, terms, T!vars

(* A taxonomy is a forest unless writes overtook each other's checks.      *)
THEOREM ForestCorrect == ServicesSpec => []Forest
<1>1. ServicesInit => TaxonomyInv
  BY TaxonomyInit DEF ServicesInit
<1>2. TaxonomyInv /\ [ServicesNext]_services => TaxonomyInv'
  BY TaxonomyNext DEF ServicesNext, services
<1>3. TaxonomyInv => Forest
  BY DEF TaxonomyInv, ForestNow, Forest, T!Forest
<1> QED
  BY <1>1, <1>2, <1>3, PTL DEF ServicesSpec

-----------------------------------------------------------------------------
(* The account of the console.                                             *)

(* Who waits for what: the first question is settled before there is an    *)
(* account, nobody signs in with an account on the screen, and nobody      *)
(* refreshes or signs out without.                                         *)
Waiting ==
  /\ DOMAIN asked = {"initial", "refresh", "login", "logout"}
  /\ loading => /\ account = K!Nobody
                /\ \A q \in {"refresh", "login", "logout"} : asked[q] = K!Idle
  /\ ~loading => asked["initial"] = K!Idle
  /\ asked["login"] # K!Idle =>
       account = K!Nobody /\ asked["refresh"] = K!Idle /\ asked["logout"] = K!Idle
  /\ asked["refresh"] # K!Idle \/ asked["logout"] # K!Idle => account # K!Nobody
  /\ \A q \in {"initial", "refresh"} : K!Answered(q) => asked[q].account.user # NoUser

(* Every account that is shown or on its way is of the session.            *)
OfSession ==
  /\ account # K!Nobody /\ ~K!Settled("logout") => session = account.user
  /\ \A q \in {"initial", "refresh"} :
       K!Answered(q) /\ ~K!Settled("logout") => session = asked[q].account.user
  /\ K!Answered("login") => session = asked["login"].account.user

AccountInv == ~kOverlapped => Waiting /\ (ended \/ OfSession)

(* At first the console shows no account and waits for its first answer.    *)
LEMMA AccountInit == K!Init => AccountInv
  BY DEF K!Init, AccountInv, Waiting, OfSession, K!Idle, K!Asked, K!Failed, K!Settled,
         K!Answered, K!Nobody

(* The states of a request of the browser differ from each other and keep   *)
(* their account.                                                           *)
LEMMA AnswerShapes ==
  /\ K!Idle.step = "idle" /\ K!Asked.step = "asked" /\ K!Failed.step = "failed"
  /\ K!Idle # K!Asked /\ K!Idle # K!Failed /\ K!Asked # K!Failed
  /\ \A a : K!Answer(a).account = a /\ K!Answer(a) \notin {K!Idle, K!Asked, K!Failed}
  /\ \A u : K!Told(u).user = u
  /\ \A u : u # NoUser => K!Told(u) # K!Nobody
  BY DEF K!Idle, K!Asked, K!Failed, K!Answer, K!Told, K!Nobody

(* Every step of the browser and of the server keeps the accounts shown and *)
(* on their way those of the session, while no requests overlap.            *)
LEMMA AccountNext == AccountInv /\ [K!Next]_console => AccountInv'
<1> SUFFICES ASSUME AccountInv, [K!Next]_console, ~kOverlapped' PROVE Waiting' /\ (ended \/ OfSession)'
  BY DEF AccountInv
<1> USE DEF K!Settled, K!Answered
<1>0. CASE UNCHANGED <<session, account, loading, asked, ended, kOverlapped>>
  BY <1>0 DEF AccountInv, Waiting, OfSession
<1>1. ASSUME NEW q \in {"initial", "refresh"}, K!AnswerAccount(q) PROVE Waiting' /\ (ended \/ OfSession)'
  BY <1>1, AnswerShapes DEF K!AnswerAccount, K!Settle, K!server, AccountInv, Waiting, OfSession
<1>2. ASSUME NEW u \in K!Users, K!AnswerLogin(u) PROVE Waiting' /\ (ended \/ OfSession)'
  BY <1>2, AnswerShapes DEF K!AnswerLogin, K!Settle, AccountInv, Waiting, OfSession
<1>3. ASSUME K!AnswerLogout PROVE Waiting' /\ (ended \/ OfSession)'
  BY <1>3, AnswerShapes DEF K!AnswerLogout, K!Settle, AccountInv, Waiting, OfSession
<1>4. ASSUME NEW q \in DOMAIN asked, K!Lose(q) PROVE Waiting' /\ (ended \/ OfSession)'
  BY <1>4, AnswerShapes DEF K!Lose, K!Settle, K!server, AccountInv, Waiting, OfSession
<1>5. ASSUME K!LandInitial PROVE Waiting' /\ (ended \/ OfSession)'
  BY <1>5, AnswerShapes DEF K!LandInitial, K!Settle, K!server, AccountInv, Waiting, OfSession
<1>6. ASSUME K!LandRefresh PROVE Waiting' /\ (ended \/ OfSession)'
  BY <1>6, AnswerShapes
     DEF K!LandRefresh, K!Settle, K!server, K!Nobody, AccountInv, Waiting, OfSession
<1>7. ASSUME K!LandLogin PROVE Waiting' /\ (ended \/ OfSession)'
  BY <1>7, AnswerShapes DEF K!LandLogin, K!Settle, K!server, AccountInv, Waiting, OfSession
<1>8. ASSUME K!LandLogout PROVE Waiting' /\ (ended \/ OfSession)'
  BY <1>8, AnswerShapes DEF K!LandLogout, K!Settle, K!server, AccountInv, Waiting, OfSession
<1>9. ASSUME K!AskLogin PROVE Waiting' /\ (ended \/ OfSession)'
  BY <1>9, AnswerShapes DEF K!AskLogin, K!Settle, K!server, AccountInv, Waiting, OfSession
<1>10. ASSUME K!AskLogout PROVE Waiting' /\ (ended \/ OfSession)'
  BY <1>10, AnswerShapes DEF K!AskLogout, K!Settle, K!server, AccountInv, Waiting, OfSession
<1>11. ASSUME K!ChangeAccount PROVE Waiting' /\ (ended \/ OfSession)'
  BY <1>11, AnswerShapes DEF K!ChangeAccount, K!Settle, AccountInv, Waiting, OfSession
<1>12. ASSUME K!End PROVE Waiting' /\ (ended \/ OfSession)'
  BY <1>12 DEF K!End, AccountInv, Waiting
<1>13. ASSUME NEW c, NEW p, K!Ask(c) \/ K!Serve \/ K!Follow(p) \/ K!Revoke
       PROVE  UNCHANGED <<session, account, loading, asked, ended, kOverlapped>>
  BY <1>13 DEF K!Ask, K!Serve, K!Follow, K!Revoke, K!auth
<1> QED
  BY <1>0, <1>1, <1>2, <1>3, <1>4, <1>5, <1>6, <1>7, <1>8, <1>9, <1>10, <1>11, <1>12, <1>13
     DEF K!Next, K!Browser, K!Server, console

(* The account the console shows is that of its session, with the provisos  *)
(* of AccountIsOfSession.                                                   *)
THEOREM AccountCorrect == ServicesSpec => []AccountIsOfSession
<1>1. ServicesInit => AccountInv
  BY AccountInit DEF ServicesInit
<1>2. AccountInv /\ [ServicesNext]_services => AccountInv'
  BY AccountNext DEF ServicesNext, services
<1>3. AccountInv => AccountIsOfSession
  BY DEF AccountInv, OfSession, AccountIsOfSession, K!AccountIsOfSession
<1> QED
  BY <1>1, <1>2, <1>3, PTL DEF ServicesSpec

-----------------------------------------------------------------------------
(* What the console offers.                                                *)

(* What a function of a client asks for, a route demands.                   *)
LEMMA DemandOf ==
  ASSUME NEW client \in K!Clients, NEW ask \in DOMAIN client, NEW permission,
         <<client[ask], permission>> \in K!Routes
  PROVE  K!Demands(ask, permission)
  BY DEF K!Demands

(* The permissions the routes of the dictionaries and taxonomies demand.    *)
LEMMA MetadataDemands ==
  /\ \A c \in K!MetadataSelections \union
       {"fetchMetadataSummary", "fetchMetadataDictionaries", "fetchTaxonomies"} :
       K!Demands(c, "metadata.read")
  /\ \A c \in K!SubmitDictionary \union K!SubmitItem \union K!SubmitTaxonomy \union K!SubmitTerm :
       K!Demands(c, "metadata.write")
<1>1. K!MetadataClient \in K!Clients
      /\ K!DictionaryRoutes \subseteq K!Routes /\ K!TaxonomyRoutes \subseteq K!Routes
  BY DEF K!Clients, K!Routes
<1> USE DEF K!MetadataClient, K!DictionaryRoutes, K!TaxonomyRoutes, K!Guarded
<1>2. ASSUME NEW c \in K!MetadataSelections \union
             {"fetchMetadataSummary", "fetchMetadataDictionaries", "fetchTaxonomies"}
      PROVE  K!Demands(c, "metadata.read")
  BY <1>1, DemandOf DEF K!MetadataSelections
<1>3. ASSUME NEW c \in K!SubmitDictionary \union K!SubmitItem PROVE K!Demands(c, "metadata.write")
  BY <1>1, DemandOf DEF K!SubmitDictionary, K!SubmitItem
<1>4. ASSUME NEW c \in K!SubmitTaxonomy \union K!SubmitTerm PROVE K!Demands(c, "metadata.write")
  BY <1>1, DemandOf DEF K!SubmitTaxonomy, K!SubmitTerm
<1> QED
  BY <1>2, <1>3, <1>4

(* The permissions the routes of data exchange and search demand.           *)
LEMMA ExchangeDemands ==
  /\ \A c \in {"fetchExchangeDatasets", "fetchExchangeRuns", "exportExchangeDataset"} :
       K!Demands(c, "data_exchange.read")
  /\ \A c \in K!SubmitImport : K!Demands(c, "data_exchange.write")
  /\ K!Demands("searchResources", "search.use")
<1>1. K!ExchangeClient \in K!Clients
      /\ K!ExchangeRoutes \subseteq K!Routes /\ K!SearchRoutes \subseteq K!Routes
  BY DEF K!Clients, K!Routes
<1> QED
  BY <1>1, DemandOf
     DEF K!ExchangeClient, K!ExchangeRoutes, K!SearchRoutes, K!Guarded, K!SubmitImport

(* The permissions the routes of the integrations demand.                   *)
LEMMA IntegrationDemands ==
  \A c \in K!IntegrationLoads \union K!IntegrationDetails : K!Demands(c, "integrations.read")
<1>1. K!IntegrationClient \in K!Clients
      /\ K!IntegrationRoutes \subseteq K!Routes /\ K!StorageRoutes \subseteq K!Routes
  BY DEF K!Clients, K!Routes
<1> QED
  BY <1>1, DemandOf
     DEF K!IntegrationClient, K!IntegrationRoutes, K!StorageRoutes, K!Guarded,
         K!IntegrationLoads, K!IntegrationDetails

(* The permissions the routes of accounts and roles demand.                 *)
LEMMA AccessDemands ==
  /\ K!Demands("fetchAccessAccounts", "iam.accounts.read")
  /\ \A c \in K!SubmitAccount \union {"resendAccessAccountInvitation"} :
       K!Demands(c, "iam.accounts.write")
  /\ \A c \in K!SubmitRole : K!Demands(c, "iam.roles.write")
<1>1. K!AccessClient \in K!Clients /\ K!RoleClient \in K!Clients /\ K!AccessRoutes \subseteq K!Routes
  BY DEF K!Clients, K!Routes
<1> QED
  BY <1>1, DemandOf
     DEF K!AccessClient, K!RoleClient, K!AccessRoutes, K!Guarded, K!SubmitAccount, K!SubmitRole

(* The routes of one's own account demand a session and no permission.      *)
LEMMA AccountDemands ==
  \A c \in K!AccountLoads \union K!AccountActions : K!Demands(c, K!Session)
<1>1. K!AccountClient \in K!Clients /\ K!AuthClient \in K!Clients
      /\ K!AccountRoutes \subseteq K!Routes /\ K!AuthRoutes \subseteq K!Routes
  BY DEF K!Clients, K!Routes
<1> QED
  BY <1>1, DemandOf
     DEF K!AccountClient, K!AuthClient, K!AccountRoutes, K!AuthRoutes, K!Guarded,
         K!AccountLoads, K!AccountActions

(* The permissions the routes of the media library demand.                  *)
LEMMA AssetDemands ==
  /\ \A c \in K!AssetLoads \union {"fetchAssetAccessUrl"} : K!Demands(c, "assets.read")
  /\ \A c \in K!Upload : K!Demands(c, "assets.write")
  /\ \A c \in K!Operate \ {"fetchAssetAccessUrl"} : K!Demands(c, "assets.manage")
<1>1. K!AssetClient \in K!Clients /\ K!AssetRoutes \subseteq K!Routes
  BY DEF K!Clients, K!Routes
<1> QED
  BY <1>1, DemandOf
     DEF K!AssetClient, K!AssetRoutes, K!Guarded, K!AssetLoads, K!Upload, K!Operate

(* The permissions the routes of the job queue demand.                      *)
LEMMA JobDemands ==
  /\ \A c \in K!OperationLoads \union K!OperationsSummary : K!Demands(c, "jobs.read")
<1>1. K!JobClient \in K!Clients /\ K!SystemClient \in K!Clients /\ K!JobRoutes \subseteq K!Routes
  BY DEF K!Clients, K!Routes
<1> QED
  BY <1>1, DemandOf
     DEF K!JobClient, K!SystemClient, K!JobRoutes, K!Guarded, K!OperationLoads,
         K!OperationsSummary

(* The permissions the routes of observability and runtime demand.          *)
LEMMA SystemDemands ==
  /\ \A c \in K!ObservabilityLoads : K!Demands(c, "observability.read")
  /\ K!Demands("fetchRuntime", "system.runtime.read")
<1>1. K!SystemClient \in K!Clients
      /\ K!ObservabilityRoutes \subseteq K!Routes /\ K!RuntimeRoutes \subseteq K!Routes
  BY DEF K!Clients, K!Routes
<1> QED
  BY <1>1, DemandOf
     DEF K!SystemClient, K!ObservabilityRoutes, K!RuntimeRoutes, K!Guarded, K!ObservabilityLoads

(* The permissions the routes of notifications demand.                      *)
LEMMA NotificationDemands ==
  /\ \A c \in K!NotificationActions \union {"fetchMyNotifications", "fetchUnreadNotificationCount"} :
       K!Demands(c, K!Session)
  /\ \A c \in {"fetchAdminNotifications", "fetchNotificationDeliveries"} :
       K!Demands(c, "notifications.read")
  /\ \A c \in K!AnnouncementDialog : K!Demands(c, "notifications.manage")
<1>1. K!NotificationClient \in K!Clients /\ K!NotificationRoutes \subseteq K!Routes
  BY DEF K!Clients, K!Routes
<1> QED
  BY <1>1, DemandOf
     DEF K!NotificationClient, K!NotificationRoutes, K!Guarded, K!NotificationActions,
         K!AnnouncementDialog

(* The permissions the routes of settings, presentation and audit demand.   *)
LEMMA SettingDemands ==
  /\ \A c \in K!PresentationLoads : K!Demands(c, "presentation.read")
  /\ \A c \in K!SubmitPresentation : K!Demands(c, "presentation.write")
  /\ \A c \in {"fetchSystemSettings", "fetchSystemSettingHistory"} :
       K!Demands(c, "system.settings.read")
  /\ \A c \in K!SettingDialogs : K!Demands(c, "system.settings.write")
  /\ \A c \in K!AuditLoads : K!Demands(c, "audit.read")
<1>1. K!SettingClient \in K!Clients
      /\ K!PresentationRoutes \subseteq K!Routes /\ K!SettingRoutes \subseteq K!Routes
      /\ K!AuditRoutes \subseteq K!Routes
  BY DEF K!Clients, K!Routes
<1> QED
  BY <1>1, DemandOf
     DEF K!SettingClient, K!PresentationRoutes, K!SettingRoutes, K!AuditRoutes, K!Guarded,
         K!PresentationLoads, K!SubmitPresentation, K!SettingDialogs, K!AuditLoads

(* The permissions the routes of the content demand.                        *)
LEMMA CmsDemands ==
  /\ \A c \in {"listContents", "getContent", "listVersions", "listRedirects"} :
       K!Demands(c, "cms.read")
  /\ \A c \in {"createContent", "updateContent", "createRedirect", "updateRedirect", "deleteRedirect"} :
       K!Demands(c, "cms.write")
  /\ \A c \in {"updateStatus", "scheduleContent"} : K!Demands(c, "cms.publish")
<1>1. K!CmsClient \in K!Clients /\ K!CmsRoutes \subseteq K!Routes
  BY DEF K!Clients, K!Routes
<1> USE DEF K!CmsClient, K!CmsRoutes, K!Guarded
<1>2. \A c \in {"listContents", "getContent", "listVersions", "listRedirects"} :
        K!Demands(c, "cms.read")
  BY <1>1, DemandOf
<1>3. \A c \in {"createContent", "updateContent", "createRedirect", "updateRedirect", "deleteRedirect"} :
        K!Demands(c, "cms.write")
  BY <1>1, DemandOf
<1>4. \A c \in {"updateStatus", "scheduleContent"} : K!Demands(c, "cms.publish")
  BY <1>1, DemandOf
<1> QED
  BY <1>2, <1>3, <1>4

(* The permissions that the pages demand.                                  *)
LEMMA PagesAre ==
  /\ DOMAIN K!Pages = (DOMAIN K!FramePages) \union (DOMAIN K!ApplicationPages)
  /\ \A p \in DOMAIN K!FramePages : K!Pages[p] = K!FramePages[p]
  /\ \A p \in DOMAIN K!ApplicationPages : K!Pages[p] = K!ApplicationPages[p]
  BY DEF K!Pages, K!FramePages, K!ApplicationPages

(* Whatever permissions the console knows of, the server answers those who  *)
(* have them whatever a page asks, but for what the page shows everybody.   *)
THEOREM OfferedIsAnswered ==
  ASSUME NEW p \in DOMAIN K!Pages, NEW known, K!Pages[p] \in known,
         NEW c \in K!Asks(p, known)
  PROVE  K!Answers(c, known) \/ <<p, c>> \in K!Ungated
<1> DEFINE Goal == K!Answers(c, known) \/ <<p, c>> \in K!Ungated
<1>1. ASSUME NEW permission \in known \union {K!Session}, K!Demands(c, permission) PROVE Goal
  BY <1>1 DEF K!Answers
<1> SUFFICES Goal
  OBVIOUS
<1> HIDE DEF Goal
<1> USE DEF K!When
<1>2. CASE c \in K!ShellLoads(known) \union K!GlobalSearch(known)
  BY <1>1, <1>2, NotificationDemands, SettingDemands, ExchangeDemands
     DEF K!ShellLoads, K!GlobalSearch, K!PresentationLoads
<1>3. CASE p = "metadata" /\ c \in K!PageAsks(p, known)
  <2>1. "metadata.read" \in known
    BY <1>3, PagesAre DEF K!FramePages
  <2> QED
    BY <1>1, <1>3, <2>1, MetadataDemands, ExchangeDemands
       DEF K!PageAsks, K!MetadataLoads, K!MetadataRows, K!MetadataSections, K!DictionaryDialog,
           K!ItemDialog, K!TaxonomyDialog, K!TermDialog, K!ImportDialog, K!MetadataSelections
<1>4. CASE p = "integrations" /\ c \in K!PageAsks(p, known)
  <2>1. "integrations.read" \in known
    BY <1>4, PagesAre DEF K!FramePages
  <2>2. \/ c \in K!IntegrationLoads \union K!IntegrationDetails
        \/ c \in K!SubmitConnection \union K!SubmitTests \union K!OperateConnection
    BY <1>4 DEF K!PageAsks, K!IntegrationSections, K!ConnectionDialog, K!ConnectionRows,
                K!TestDialogs, K!IntegrationDetails
  <2> QED
    BY <1>1, <1>4, <2>1, <2>2, IntegrationDemands DEF K!Ungated, Goal
<1>5. CASE p = "access" /\ c \in K!PageAsks(p, known)
  <2>1. "iam.accounts.read" \in known
    BY <1>5, PagesAre DEF K!FramePages
  <2> QED
    BY <1>1, <1>5, <2>1, AccessDemands
       DEF K!PageAsks, K!AccessLoads, K!AccessRows, K!AccessSections, K!AccountDialog,
           K!RoleDialog, K!Ungated, Goal
<1>6. CASE p = "account" /\ c \in K!PageAsks(p, known)
  BY <1>1, <1>6, AccountDemands DEF K!PageAsks, K!AccountForms, K!AssetPicker, K!Ungated, Goal
<1>7. CASE p = "assets" /\ c \in K!PageAsks(p, known)
  <2>1. "assets.read" \in known
    BY <1>7, PagesAre DEF K!FramePages
  <2> QED
    BY <1>1, <1>7, <2>1, AssetDemands DEF K!PageAsks, K!UploadForm, K!AssetRows
<1>8. CASE p = "audit" /\ c \in K!PageAsks(p, known)
  <2>1. "audit.read" \in known
    BY <1>8, PagesAre DEF K!FramePages
  <2> QED
    BY <1>1, <1>8, <2>1, SettingDemands DEF K!PageAsks
<1>9. CASE p = "operations" /\ c \in K!PageAsks(p, known)
  <2>1. "jobs.read" \in known
    BY <1>9, PagesAre DEF K!FramePages
  <2> QED
    BY <1>1, <1>9, <2>1, JobDemands DEF K!PageAsks, K!Ungated, Goal
<1>10. CASE p = "observability" /\ c \in K!PageAsks(p, known)
  <2>1. "observability.read" \in known
    BY <1>10, PagesAre DEF K!FramePages
  <2> QED
    BY <1>1, <1>10, <2>1, SystemDemands DEF K!PageAsks, K!Ungated, Goal
<1>11. CASE p = "notifications" /\ c \in K!PageAsks(p, known)
  BY <1>1, <1>11, NotificationDemands
     DEF K!PageAsks, K!NotificationLoads, K!NotificationSections
<1>12. CASE p = "presentation" /\ c \in K!PageAsks(p, known)
  <2>1. "presentation.read" \in known
    BY <1>12, PagesAre DEF K!FramePages
  <2> QED
    BY <1>1, <1>12, <2>1, SettingDemands
       DEF K!PageAsks, K!PresentationForm, K!AssetPicker, K!Ungated, Goal
<1>13. CASE p = "settings" /\ c \in K!PageAsks(p, known)
  BY <1>1, <1>13, SettingDemands DEF K!PageAsks, K!SettingLoads, K!SettingRows
<1>14. CASE p = "system" /\ c \in K!PageAsks(p, known)
  <2>1. "system.runtime.read" \in known
    BY <1>14, PagesAre DEF K!FramePages
  <2> QED
    BY <1>1, <1>14, <2>1, SystemDemands, JobDemands
       DEF K!PageAsks, K!SystemLoads, K!ObservabilityLoads
<1>15. CASE p = "cms" /\ c \in K!PageAsks(p, known)
  <2>1. "cms.read" \in known
    BY <1>15, PagesAre DEF K!ApplicationPages
  <2>2. \/ c \in {"listContents", "getContent", "listVersions", "listRedirects"}
        \/ /\ "cms.write" \in known
           /\ c \in {"createContent", "updateContent", "createRedirect", "updateRedirect", "deleteRedirect"}
        \/ "cms.publish" \in known /\ c \in {"updateStatus", "scheduleContent"}
        \/ c \in {"listAssets", "getPresentation", "listTaxonomies", "listTaxonomyTerms"}
    BY <1>15 DEF K!PageAsks, K!ListLoads, K!ListRows, K!RedirectManager, K!EditorLoads,
                 K!EditorFields, K!EditorActions, K!EditorSave, K!AssetPicker
  <2> QED
    BY <1>1, <1>15, <2>1, <2>2, CmsDemands DEF K!Ungated, Goal
<1>16. CASE p \in {"help", "home"} /\ c \in K!PageAsks(p, known)
  BY <1>16 DEF K!PageAsks
<1>17. p \in {"system", "access", "integrations", "assets", "operations", "observability",
              "notifications", "metadata", "audit", "presentation", "account", "settings", "help",
              "home", "cms"}
  BY PagesAre DEF K!FramePages, K!ApplicationPages
<1> QED
  BY <1>2, <1>3, <1>4, <1>5, <1>6, <1>7, <1>8, <1>9, <1>10, <1>11, <1>12, <1>13, <1>14, <1>15,
     <1>16, <1>17 DEF K!Asks

(* A link of a page leads to a page that those may open to whom it is       *)
(* shown, but for the links that are shown to everybody.                    *)
THEOREM LinkedIsOpen ==
  ASSUME NEW p \in DOMAIN K!Pages, NEW known, {"admin.access", K!Pages[p]} \subseteq known,
         NEW q \in K!Links(p, known)
  PROVE  K!Pages[q] \in known \/ <<p, q>> \in K!Ungated
<1>1. /\ \A x \in {"home", "help", "account", "settings"} : K!Pages[x] = "admin.access"
      /\ K!Pages["notifications"] = "notifications.read"
      /\ K!Pages["system"] = "system.runtime.read"
  BY PagesAre DEF K!FramePages, K!ApplicationPages
<1>2. CASE q \in K!ShellLinks(known)
  BY <1>1, <1>2 DEF K!ShellLinks, K!Navigation, K!Allowed, K!When
<1>3. CASE p = "help" /\ q \in K!Workflows
  BY <1>3 DEF K!Ungated
<1>4. CASE p = "home" /\ q \in K!Workspaces
  BY <1>1, <1>4 DEF K!Ungated, K!Workspaces
<1>5. CASE q \in K!SettingAreas(known) \union K!ManagementLinks(known)
  BY <1>5 DEF K!SettingAreas, K!ManagementLinks, K!Allowed
<1> QED
  BY <1>2, <1>3, <1>4, <1>5 DEF K!Links

(* What the search finds may be opened by those it was searched for.        *)
LEMMA FoundIsOpen ==
  /\ \A known : \A q \in K!Found(known) : K!Pages[q] \in known
  /\ \A more, known : known \subseteq more => K!Found(known) \subseteq K!Found(more)
<1>1. \A s \in K!SearchSources : K!Pages[s.page] = s.permission
  BY PagesAre DEF K!SearchSources, K!FramePages, K!ApplicationPages
<1> QED
  BY <1>1 DEF K!Found

-----------------------------------------------------------------------------
(* Accounts are granted the permissions g, or none any more, and that is    *)
(* what the console has been told, wherever it keeps it.                   *)
ToldOf(known, g) == known \in {g, {}}

AllTold(g) ==
  /\ \A u \in K!Users : ToldOf(granted[u], g)
  /\ ToldOf(account.known, g)
  /\ \A q \in DOMAIN asked : K!Answered(q) => ToldOf(asked[q].account.known, g)
  /\ call # K!NoCall => ToldOf(call.known, g)

(* A page asks what it offers, and results lead where they may.            *)
ShownInv ==
  /\ granted = [u \in K!Users |-> granted[u]]
  /\ asked = [q \in {"initial", "refresh", "login", "logout"} |-> asked[q]]
  /\ session \in K!Users \cup {NoUser}
  /\ page \in DOMAIN K!Pages
  /\ \E g : AllTold(g)
  /\ call # K!NoCall =>
       /\ call.page \in DOMAIN K!Pages
       /\ {"admin.access", K!Pages[call.page]} \subseteq call.known
       /\ call.what \in K!Asks(call.page, call.known)
  /\ found.pages \subseteq K!Found(found.known)
  /\ K!ShownIsAllowed

(* At first the browser is told of no account and no page is filled.        *)
LEMMA ShownInit == K!Init => ShownInv
<1> SUFFICES ASSUME K!Init PROVE ShownInv
  OBVIOUS
<1>1. PICK g : granted = [u \in K!Users |-> g]
  BY DEF K!Init
<1>2. AllTold(g)
  BY <1>1 DEF K!Init, AllTold, ToldOf, K!Answered, K!Settled, K!Idle, K!Asked, K!Failed,
              K!Nobody
<1>3. session \in K!Users \cup {NoUser}
  BY DEF K!Init, K!Users
<1> QED
  BY <1>1, <1>2, <1>3 DEF K!Init, ShownInv, K!NoResults, K!ShownIsAllowed

(* An answer, a loss and the landing of an answer.                          *)
LEMMA SettledTold ==
  ASSUME ShownInv, NEW g, AllTold(g), NEW q \in DOMAIN asked, NEW answer,
         K!Settle(q, answer),
         answer \in {K!Idle, K!Asked, K!Failed} \/ ToldOf(answer.account.known, g)
  PROVE  /\ asked' = [r \in {"initial", "refresh", "login", "logout"} |-> asked'[r]]
         /\ \A r \in DOMAIN asked' : K!Answered(r)' => ToldOf(asked'[r].account.known, g)
  BY DEF ShownInv, AllTold, K!Settle, K!Answered, K!Settled

(* What the browser is told of an account is what was granted to its user.  *)
LEMMA ToldShapes ==
  /\ K!Nobody.known = {}
  /\ \A u : K!Told(u).known = granted[u]
  /\ \A a : K!Answer(a).account = a
  BY DEF K!Nobody, K!Told, K!Answer

(* A question about the account, its answer and its landing tell the        *)
(* browser only what was granted.                                           *)
LEMMA QuestionTold ==
  ASSUME ShownInv, NEW g, AllTold(g),
         \/ \E q \in {"initial", "refresh"} : K!AnswerAccount(q)
         \/ \E u \in K!Users : K!AnswerLogin(u)
         \/ K!AnswerLogout
         \/ \E q \in DOMAIN asked : K!Lose(q)
         \/ K!LandInitial \/ K!LandRefresh \/ K!LandLogin \/ K!LandLogout
         \/ K!AskLogin \/ K!AskLogout \/ K!ChangeAccount
  PROVE  ShownInv'
<1> DEFINE Kept == /\ granted' = granted /\ session' \in K!Users \cup {NoUser} /\ page' = page
                   /\ call' = call /\ found' \in {found, K!NoResults} /\ refused' = {}
                   /\ ToldOf(account'.known, g)
           Landed == \E q \in DOMAIN asked : \E answer :
                       /\ K!Settle(q, answer)
                       /\ answer \in {K!Idle, K!Asked, K!Failed} \/ ToldOf(answer.account.known, g)
<1>a. DOMAIN asked = {"initial", "refresh", "login", "logout"}
  BY DEF ShownInv
<1>1. SUFFICES Kept /\ Landed
  <2>0. PICK q \in DOMAIN asked : \E answer :
          /\ K!Settle(q, answer)
          /\ answer \in {K!Idle, K!Asked, K!Failed} \/ ToldOf(answer.account.known, g)
    BY <1>1
  <2>1. PICK answer :
          /\ K!Settle(q, answer)
          /\ answer \in {K!Idle, K!Asked, K!Failed} \/ ToldOf(answer.account.known, g)
    BY <2>0
  <2>2. /\ asked' = [r \in {"initial", "refresh", "login", "logout"} |-> asked'[r]]
        /\ \A r \in DOMAIN asked' : K!Answered(r)' => ToldOf(asked'[r].account.known, g)
    BY <2>1, SettledTold
  <2>3. AllTold(g)'
    BY <1>1, <2>2 DEF AllTold
  <2>4. found'.pages \subseteq K!Found(found'.known)
    BY <1>1 DEF ShownInv, K!NoResults
  <2> QED
    BY <1>1, <2>2, <2>3, <2>4 DEF ShownInv, K!ShownIsAllowed
<1> USE DEF K!Quiet, K!server
<1>2. ASSUME NEW q \in {"initial", "refresh"}, K!AnswerAccount(q) PROVE Kept /\ Landed
  <2>1. session # NoUser => ToldOf(K!Answer(K!Told(session)).account.known, g)
    BY ToldShapes DEF ShownInv, AllTold
  <2> QED
    BY <1>a, <1>2, <2>1 DEF K!AnswerAccount, ShownInv, AllTold
<1>3. ASSUME NEW u \in K!Users, K!AnswerLogin(u) PROVE Kept /\ Landed
  <2>1. ToldOf(K!Answer(K!Told(u)).account.known, g)
    BY ToldShapes DEF AllTold
  <2> QED
    BY <1>a, <1>3, <2>1 DEF K!AnswerLogin, AllTold
<1>4. ASSUME K!AnswerLogout PROVE Kept /\ Landed
  <2>1. ToldOf(K!Answer(K!Nobody).account.known, g)
    BY ToldShapes DEF ToldOf
  <2> QED
    BY <1>a, <1>4, <2>1 DEF K!AnswerLogout, AllTold
<1>5. ASSUME NEW q \in DOMAIN asked, K!Lose(q) PROVE Kept /\ Landed
  BY <1>a, <1>5 DEF K!Lose, ShownInv, AllTold
<1>6. ASSUME K!LandInitial \/ K!LandRefresh \/ K!LandLogin \/ K!LandLogout PROVE Kept /\ Landed
  <2>1. ToldOf(account'.known, g)
    BY <1>a, <1>6, ToldShapes
       DEF K!LandInitial, K!LandRefresh, K!LandLogin, K!LandLogout, AllTold, ToldOf
  <2> QED
    BY <1>a, <1>6, <2>1 DEF K!LandInitial, K!LandRefresh, K!LandLogin, K!LandLogout, ShownInv
<1>7. ASSUME K!AskLogin \/ K!AskLogout \/ K!ChangeAccount PROVE Kept /\ Landed
  BY <1>a, <1>7 DEF K!AskLogin, K!AskLogout, K!ChangeAccount, ShownInv, AllTold
<1> QED
  BY <1>2, <1>3, <1>4, <1>5, <1>6, <1>7

(* A page asks what it offers.                                              *)
LEMMA AskShown == ASSUME ShownInv, NEW c, K!Ask(c) PROVE ShownInv'
<1>1. PICK g : AllTold(g)
  BY DEF ShownInv
<1>2. /\ call'.page = page /\ call'.what = c /\ call'.known = account.known
      /\ UNCHANGED <<granted, session, asked, account, page, found>> /\ refused' = {}
  BY DEF K!Ask, K!auth
<1>3. AllTold(g)'
  BY <1>1, <1>2 DEF AllTold, K!Answered, K!Settled
<1>4. /\ {"admin.access", K!Pages[page]} \subseteq account.known
      /\ c \in K!Asks(page, account.known)
  BY DEF K!Ask, K!Mounted, K!Entered
<1> QED
  BY <1>2, <1>3, <1>4 DEF ShownInv, K!ShownIsAllowed

(* The server answers what it was asked.                                    *)
LEMMA ServeShown == ASSUME ShownInv, K!Serve PROVE ShownInv'
<1>1. PICK g : AllTold(g)
  BY DEF ShownInv
<1> DEFINE may == IF session = NoUser THEN {} ELSE granted[session]
           answered == session # NoUser /\ K!Answers(call.what, may)
<1>2. /\ call # K!NoCall /\ call' = K!NoCall
      /\ UNCHANGED <<granted, session, asked, account, page>>
      /\ \/ found' = found
         \/ found' = [known |-> call.known, pages |-> K!Found(may)]
      /\ \/ refused' = {}
         \/ ~answered /\ call.known = may /\ refused' = {<<call.page, call.what>>}
  BY DEF K!Serve, K!auth
<1>3. AllTold(g)'
  BY <1>1, <1>2 DEF AllTold, K!Answered, K!Settled
<1>4. may \subseteq call.known
  BY <1>1, <1>2 DEF AllTold, ToldOf, ShownInv
<1>5. found'.pages \subseteq K!Found(found'.known)
  <2> HIDE DEF may
  <2> QED
    BY <1>2, <1>4, FoundIsOpen DEF ShownInv
<1>6. ~answered /\ call.known = may => <<call.page, call.what>> \in K!Ungated
  <2> SUFFICES ASSUME ~answered, call.known = may PROVE <<call.page, call.what>> \in K!Ungated
    OBVIOUS
  <2>1. session # NoUser
    BY <1>2 DEF ShownInv
  <2>2. ~K!Answers(call.what, call.known)
    BY <2>1
  <2> QED
    BY <1>2, <2>2, OfferedIsAnswered DEF ShownInv
<1> HIDE DEF answered, may
<1>7. K!ShownIsAllowed'
  BY <1>2, <1>6 DEF K!ShownIsAllowed
<1> QED
  BY <1>2, <1>3, <1>5, <1>7 DEF ShownInv

(* A link leads where its page may lead.                                    *)
LEMMA FollowShown == ASSUME ShownInv, NEW p \in DOMAIN K!Pages, K!Follow(p) PROVE ShownInv'
<1>1. PICK g : AllTold(g)
  BY DEF ShownInv
<1>2. /\ UNCHANGED <<granted, session, asked, account, call>>
      /\ page' = p /\ found' = K!NoResults
      /\ {"admin.access", K!Pages[page]} \subseteq account.known
      /\ \/ refused' = {}
         \/ /\ refused' = {<<page, p>>}
            /\ K!Pages[p] \notin account.known
            /\ \/ p \in K!Links(page, account.known)
               \/ p \in found.pages /\ found.known = account.known
  BY DEF K!Follow, K!auth, K!Mounted, K!Entered
<1>3. AllTold(g)'
  BY <1>1, <1>2 DEF AllTold, K!Answered, K!Settled
<1>4. K!ShownIsAllowed'
  <2>1. p \in found.pages /\ found.known = account.known => K!Pages[p] \in account.known
    BY FoundIsOpen DEF ShownInv
  <2>2. p \in K!Links(page, account.known) /\ K!Pages[p] \notin account.known
          => <<page, p>> \in K!Ungated
    BY <1>2, LinkedIsOpen DEF ShownInv
  <2> QED
    BY <1>2, <2>1, <2>2 DEF K!ShownIsAllowed
<1> QED
  BY <1>2, <1>3, <1>4 DEF ShownInv, K!NoResults

(* Every step of the browser and of the server keeps what a page shows      *)
(* allowed.                                                                 *)
LEMMA ShownNext == ShownInv /\ [K!Next]_console => ShownInv'
<1> SUFFICES ASSUME ShownInv, [K!Next]_console PROVE ShownInv'
  OBVIOUS
<1>1. PICK g : AllTold(g)
  BY DEF ShownInv
<1>2. ASSUME K!Revoke PROVE ShownInv'
  <2>1. /\ granted' = [granted EXCEPT ![First] = {}]
        /\ UNCHANGED <<session, asked, account, call, page, found>> /\ refused' = {}
    BY <1>2 DEF K!Revoke, K!Quiet
  <2>2. granted' = [u \in K!Users |-> granted'[u]] /\ \A u \in K!Users : ToldOf(granted'[u], g)
    BY <1>1, <2>1 DEF ShownInv, AllTold, ToldOf
  <2>3. AllTold(g)'
    BY <1>1, <2>1, <2>2 DEF AllTold, K!Answered, K!Settled
  <2> QED
    BY <2>1, <2>2, <2>3 DEF ShownInv, K!ShownIsAllowed
<1>3. ASSUME K!End PROVE ShownInv'
  <2>1. /\ UNCHANGED <<granted, asked, account, call, page, found>>
        /\ session' = NoUser /\ refused' = {}
    BY <1>3 DEF K!End, K!Quiet
  <2>2. AllTold(g)'
    BY <1>1, <2>1 DEF AllTold, K!Answered, K!Settled
  <2> QED
    BY <2>1, <2>2 DEF ShownInv, K!ShownIsAllowed
<1>4. CASE UNCHANGED console
  <2>1. AllTold(g)'
    BY <1>1, <1>4 DEF console, AllTold, K!Answered, K!Settled
  <2> QED
    BY <1>4, <2>1 DEF console, ShownInv, K!ShownIsAllowed
<1>5. ASSUME K!Next PROVE ShownInv'
  BY <1>1, <1>2, <1>3, <1>5, QuestionTold, AskShown, ServeShown, FollowShown
     DEF K!Next, K!Browser, K!Server
<1> QED
  BY <1>4, <1>5 DEF console

(* Nothing that the console shows is refused, whatever the permissions and  *)
(* the order of answers, but what it shows to everybody.                    *)
THEOREM ShownCorrect == ServicesSpec => []ShownIsAllowed
<1>1. ServicesInit => ShownInv
  BY ShownInit DEF ServicesInit
<1>2. ShownInv /\ [ServicesNext]_services => ShownInv'
  BY ShownNext DEF ServicesNext, services
<1>3. ShownInv => ShownIsAllowed
  BY DEF ShownInv, ShownIsAllowed
<1> QED
  BY <1>1, <1>2, <1>3, PTL DEF ServicesSpec

-----------------------------------------------------------------------------
(* The editor of entries.                                                  *)

Sent(r) ==
  /\ r.what \in {"save", "order"} /\ r.step \in {"asked", "answered", "created"}
  /\ r.target \in E!Addresses /\ r.target = r.at
  /\ r.step = "asked" => r.draft.from \subseteq {r.at}
  /\ r.what = "order" \/ r.step # "asked" => r.target \in Entries
  /\ r.step = "created" => r.what = "save"

(* What the mounted editor waits for is of the address it shows, ...        *)
OfAddress(r) ==
  /\ at # List
  /\ r.step = "created" => at = New
  /\ r.step # "created" => r.at = at

(* ... and so is what it holds.                                             *)
ServerInv ==
  /\ \A e \in Entries : text[e] \subseteq {e} /\ orders[e] \subseteq {e}
  /\ DOMAIN text = Entries /\ DOMAIN orders = Entries

FormInv ==
  /\ at \in E!Addresses \cup {List} /\ loads \subseteq {at} \cap Entries
  /\ draft.from \subseteq {at} \ {List}
  /\ content # NoEntry => content = at /\ content \in Entries

RequestsInv ==
  /\ \A r \in requests : Sent(r) /\ (r.mine => OfAddress(r))
  /\ \A r, q \in requests :
       r.mine /\ q.mine /\ r.what = "save" /\ q.what = "save" => r = q

EditorInv == ServerInv /\ FormInv /\ RequestsInv

(* At first the editor shows the list and no request is under way.          *)
LEMMA EditorInit == E!Init => EditorInv
  BY EditorAssumption DEF E!Init, EditorInv, ServerInv, FormInv, RequestsInv, E!EmptyDraft

(* Every step of an editor that was never given another entry's address     *)
(* keeps its form and its requests at their own.                            *)
LEMMA EditorNext == (~moved => EditorInv) /\ [E!Next]_editor => (~moved' => EditorInv')
<1> SUFFICES ASSUME ~moved => EditorInv, [E!Next]_editor, ~moved' PROVE EditorInv'
  OBVIOUS
<1>m. ~moved /\ EditorInv
  <2>1. ASSUME NEW p, E!Open(p) \/ E!Move(p) \/ E!Leave PROVE ~moved
    BY <2>1 DEF E!Open, E!Move, E!Leave
  <2>2. ASSUME NEW e, NEW s, E!Load(e) \/ E!LoadFails(e) \/ E!Type(s) \/ E!Save \/ E!Order
        PROVE  moved' = moved
    BY <2>2 DEF E!Load, E!LoadFails, E!Type, E!Save, E!Order
  <2>3. ASSUME NEW r, NEW e, E!Serve(r, e) \/ E!Fail(r) \/ E!Land(r) PROVE moved' = moved
    BY <2>3 DEF E!Serve, E!Fail, E!Land
  <2>4. ASSUME NEW r, E!LandCreated(r), moved PROVE moved'
    BY <2>4, Zenon DEF E!LandCreated
  <2>5. CASE UNCHANGED editor
    BY <2>5 DEF editor
  <2>6. CASE E!Next
    BY <2>1, <2>2, <2>3, <2>4, <2>6 DEF E!Next
  <2> QED
    BY <2>5, <2>6
<1>0. CASE UNCHANGED editor
  BY <1>0, <1>m DEF editor, EditorInv, ServerInv, FormInv, RequestsInv, Sent, OfAddress
<1>1. ASSUME NEW p \in E!Addresses, E!Open(p) PROVE EditorInv'
  <2>1. \A r \in requests : ~r.mine
    BY <1>1, <1>m DEF E!Open, EditorInv, RequestsInv, OfAddress
  <2>2. ServerInv' /\ FormInv'
    BY <1>1, <1>m, EditorAssumption
       DEF E!Open, E!server, EditorInv, ServerInv, FormInv, E!Addresses
  <2>3. RequestsInv'
    BY <1>1, <1>m, <2>1 DEF E!Open, EditorInv, RequestsInv, Sent
  <2> QED
    BY <2>2, <2>3 DEF EditorInv
<1>2. ASSUME E!Leave PROVE EditorInv'
  <2>1. ServerInv' /\ FormInv'
    BY <1>2, <1>m DEF E!Leave, E!server, EditorInv, ServerInv, FormInv, E!EmptyDraft
  <2>2. ASSUME NEW q \in requests' PROVE Sent(q) /\ ~q.mine
    <3>1. PICK r \in requests :
            q = E!Request(r.what, r.target, r.at, r.draft, FALSE, r.step)
      BY <1>2 DEF E!Leave, E!Orphaned
    <3>2. ~q.mine
      BY <3>1, Zenon DEF E!Request
    <3>3. /\ q.what = r.what /\ q.target = r.target /\ q.at = r.at
          /\ q.draft = r.draft /\ q.step = r.step
      BY <3>1, Zenon DEF E!Request
    <3>4. Sent(r)
      BY <1>m DEF EditorInv, RequestsInv
    <3> QED
      BY <3>2, <3>3, <3>4 DEF Sent
  <2> QED
    BY <2>1, <2>2 DEF EditorInv, RequestsInv, Sent
<1>3. ASSUME NEW e \in Entries, E!Load(e) PROVE EditorInv'
  <2>1. e = at
    BY <1>3, <1>m DEF E!Load, EditorInv, FormInv
  <2>2. ServerInv' /\ FormInv'
    BY <1>3, <1>m, <2>1, EditorAssumption
       DEF E!Load, E!server, EditorInv, ServerInv, FormInv
  <2>3. RequestsInv'
    BY <1>3, <1>m DEF E!Load, EditorInv, RequestsInv, Sent, OfAddress
  <2> QED
    BY <2>2, <2>3 DEF EditorInv
<1>4. ASSUME NEW e \in Entries, E!LoadFails(e) PROVE EditorInv'
  BY <1>4, <1>m
     DEF E!LoadFails, E!server, EditorInv, ServerInv, FormInv, RequestsInv, Sent, OfAddress
<1>5. ASSUME NEW s, E!Type(s) PROVE EditorInv'
  <2>1. draft'.from = draft.from \cup {at} /\ at # List
    BY <1>5 DEF E!Type
  <2> QED
    BY <1>5, <1>m, <2>1
       DEF E!Type, E!server, EditorInv, ServerInv, FormInv, RequestsInv, Sent, OfAddress
<1>6. ASSUME NEW what \in {"save", "order"}, NEW target, NEW form,
             E!Send(what, target, form), UNCHANGED <<text, orders, exists, at, draft, content, loads, moved>>,
             target = at, form.from \subseteq {at}, what = "order" => target \in Entries,
             what = "save" => ~\E r \in requests : r.mine /\ r.what = "save"
      PROVE  EditorInv'
  <2> DEFINE n == E!Request(what, target, at, form, TRUE, "asked")
  <2>1. requests' = requests \cup {n} /\ at # List
    BY <1>6 DEF E!Send
  <2>2. /\ n.what = what /\ n.target = target /\ n.at = at /\ n.draft = form /\ n.step = "asked"
        /\ n.mine
    BY Zenon DEF E!Request
  <2> HIDE DEF n
  <2>3. Sent(n) /\ OfAddress(n)
    BY <1>6, <1>m, <2>1, <2>2 DEF Sent, OfAddress, EditorInv, FormInv
  <2>4. RequestsInv'
    <3>1. \A r \in requests' : Sent(r) /\ (r.mine => OfAddress(r)')
      BY <1>6, <1>m, <2>1, <2>3 DEF EditorInv, RequestsInv, OfAddress
    <3>2. \A r, q \in requests' :
            r.mine /\ q.mine /\ r.what = "save" /\ q.what = "save" => r = q
      BY <1>6, <1>m, <2>1, <2>2 DEF EditorInv, RequestsInv
    <3> QED
      BY <3>1, <3>2 DEF RequestsInv, Sent
  <2> QED
    BY <1>6, <1>m, <2>4 DEF EditorInv, ServerInv, FormInv
<1>7. ASSUME E!Save PROVE EditorInv'
  BY <1>6, <1>7, <1>m DEF E!Save, E!server, EditorInv, FormInv
<1>8. ASSUME E!Order PROVE EditorInv'
  BY <1>6, <1>8, <1>m DEF E!Order, E!server, EditorInv, FormInv, E!EmptyDraft
<1>9. ASSUME NEW r \in requests, NEW e \in Entries, E!Serve(r, e) PROVE EditorInv'
  <2> DEFINE step == IF r.target = New THEN "created" ELSE "answered"
             n == E!Request(r.what, e, e, E!EmptyDraft, r.mine, step)
  <2>1. Sent(r) /\ r.step = "asked" /\ (r.target = New \/ r.target = e)
    BY <1>9, <1>m DEF E!Serve, EditorInv, RequestsInv
  <2>2. requests' = (requests \ {r}) \cup {n}
    BY <1>9 DEF E!Serve, E!Replace
  <2>3. /\ n.what = r.what /\ n.target = e /\ n.at = e /\ n.step = step
        /\ n.mine = r.mine
    BY Zenon DEF E!Request
  <2> HIDE DEF n
  <2>4. Sent(n) /\ (r.mine => OfAddress(n))
    BY <1>m, <2>1, <2>3, EditorAssumption
       DEF Sent, OfAddress, EditorInv, RequestsInv, E!Addresses
  <2>5. RequestsInv'
    <3>1. \A q \in requests' : Sent(q) /\ (q.mine => OfAddress(q)')
      BY <1>9, <1>m, <2>2, <2>3, <2>4 DEF E!Serve, EditorInv, RequestsInv, OfAddress
    <3>2. \A p, q \in requests' :
            p.mine /\ q.mine /\ p.what = "save" /\ q.what = "save" => p = q
      BY <1>m, <2>2, <2>3 DEF EditorInv, RequestsInv
    <3> QED
      BY <3>1, <3>2 DEF RequestsInv, Sent
  <2>6. ServerInv'
    <3>1. E!Becoming(e, r.draft.from) \subseteq {e} \/ r.target # New
      BY <2>1 DEF Sent, E!Becoming
    <3>2. r.target # New => r.draft.from \subseteq {e} /\ r.at = e
      BY <2>1 DEF Sent
    <3>3. r.what = "order" => r.at = e
      BY <2>1, EditorAssumption DEF Sent
    <3>4. /\ text' = IF r.what = "save"
                       THEN [text EXCEPT ![e] = IF r.target = New THEN E!Becoming(e, r.draft.from)
                                                                  ELSE r.draft.from]
                       ELSE text
          /\ orders' = IF r.what = "order" THEN [orders EXCEPT ![e] = orders[e] \cup {r.at}]
                                           ELSE orders
      BY <1>9 DEF E!Serve
    <3> QED
      BY <1>m, <3>1, <3>2, <3>3, <3>4 DEF EditorInv, ServerInv
  <2> QED
    BY <1>9, <1>m, <2>5, <2>6 DEF E!Serve, EditorInv, FormInv
<1>10. ASSUME NEW r \in requests, E!Fail(r) PROVE EditorInv'
  BY <1>10, <1>m
     DEF E!Fail, E!server, EditorInv, ServerInv, FormInv, RequestsInv, Sent, OfAddress
<1>11. ASSUME NEW r \in requests, E!Land(r) PROVE EditorInv'
  <2>1. content' = IF r.mine THEN r.target ELSE content
    BY <1>11 DEF E!Land, E!Keep
  <2>2. Sent(r) /\ r.step = "answered" /\ (r.mine => r.target = at)
    BY <1>11, <1>m DEF E!Land, EditorInv, RequestsInv, OfAddress, Sent
  <2> QED
    BY <1>11, <1>m, <2>1, <2>2
       DEF E!Land, E!server, EditorInv, ServerInv, FormInv, RequestsInv, Sent, OfAddress
<1>12. ASSUME NEW r \in requests, E!LandCreated(r) PROVE EditorInv'
  <2>1. /\ Sent(r) /\ r.step = "created" /\ r.what = "save" /\ r.target \in Entries
        /\ (r.mine => at = New)
    BY <1>12, <1>m DEF E!LandCreated, EditorInv, RequestsInv, OfAddress, Sent
  <2>2. (r.mine /\ at = New) \/ (~r.mine /\ at \in {List, r.target})
    BY <1>12, <2>1 DEF E!LandCreated
  <2>3. /\ at' = r.target /\ requests' = requests \ {r}
        /\ loads' = IF at = r.target THEN loads ELSE loads \cup {r.target}
        /\ content' = IF r.mine THEN r.target ELSE content
        /\ UNCHANGED <<text, orders>>
    BY <1>12 DEF E!LandCreated, E!Keep, E!server
  <2>4. ServerInv'
    BY <1>m, <2>3 DEF EditorInv, ServerInv
  <2>5. CASE r.mine /\ at = New
    <3>1. draft'.from = E!Becoming(r.target, draft.from)
      BY <1>12, <2>5 DEF E!LandCreated
    <3>2. FormInv'
      BY <1>m, <2>1, <2>3, <2>5, <3>1, EditorAssumption
         DEF EditorInv, FormInv, E!Becoming, E!Addresses
    <3>3. ASSUME NEW q \in requests' PROVE ~q.mine
      BY <1>m, <2>1, <2>3, <2>5, <3>3, EditorAssumption
         DEF EditorInv, RequestsInv, OfAddress, Sent
    <3> QED
      BY <1>m, <2>3, <2>4, <3>2, <3>3 DEF EditorInv, RequestsInv, Sent
  <2>6. CASE ~r.mine /\ at \in {List, r.target}
    <3>1. draft' = draft
      BY <1>12, <2>6 DEF E!LandCreated
    <3>2. FormInv'
      BY <1>m, <2>1, <2>3, <2>6, <3>1, EditorAssumption
         DEF EditorInv, FormInv, E!Addresses
    <3>3. ASSUME NEW q \in requests', q.mine PROVE OfAddress(q)'
      BY <1>m, <2>1, <2>3, <2>6, <3>3, EditorAssumption
         DEF EditorInv, RequestsInv, OfAddress
    <3> QED
      BY <1>m, <2>3, <2>4, <3>2, <3>3 DEF EditorInv, RequestsInv, Sent
  <2> QED
    BY <2>2, <2>5, <2>6
<1>13. ASSUME NEW p \in E!Addresses, E!Move(p) PROVE FALSE
  BY <1>13 DEF E!Move
<1> QED
  BY <1>0, <1>1, <1>2, <1>3, <1>4, <1>5, <1>7, <1>8, <1>9, <1>10, <1>11, <1>12, <1>13
     DEF E!Next, editor

(* An entry's text and orders were given at its own address, whatever       *)
(* answers come late, until a mounted editor is given another one.          *)
THEOREM DoneCorrect == ServicesSpec => []DoneAtItsAddress
<1>1. ServicesInit => (~moved => EditorInv)
  BY EditorInit DEF ServicesInit
<1>2. (~moved => EditorInv) /\ [ServicesNext]_services => (~moved => EditorInv)'
  BY EditorNext DEF ServicesNext, services
<1>3. (~moved => EditorInv) => DoneAtItsAddress
  BY DEF EditorInv, ServerInv, DoneAtItsAddress, E!DoneAtItsAddress
<1> QED
  BY <1>1, <1>2, <1>3, PTL DEF ServicesSpec

-----------------------------------------------------------------------------
(* Redirects.                                                              *)

(* The instance of Redirects counts as the library does.                    *)
LEMMA RedirectCount == /\ \A S : R!Cardinality(S) = Cardinality(S)
  BY DEF R!Cardinality, Cardinality

(* The rows other than id that redirect a path, and where they lead.       *)
Via(v, id) == {i \in R!Rows \ {id} : redirect[i].enabled /\ redirect[i].source = v}
Onward(v, id) == IF Via(v, id) = {} THEN v ELSE redirect[CHOOSE i \in Via(v, id) : TRUE].target
Paths(start) == {start} \cup {redirect[i].target : i \in R!Rows}

(* R!Walk is the function that its definition describes.                   *)
LEMMA WalkSteps ==
  ASSUME NEW start, NEW id, NEW N \in Nat, N = Cardinality(R!Rows)
  PROVE  /\ R!Walk(start, id) \in [0..N -> Paths(start)]
         /\ R!Walk(start, id)[0] = start
         /\ \A n \in 1..N : R!Walk(start, id)[n] = Onward(R!Walk(start, id)[n - 1], id)
<1> DEFINE walk == R!Walk(start, id)
           V == Paths(start)
           along == [x \in (1..N) \X V |-> Onward(x[2], id)]
<1>1. along \in [(1..N) \X V -> V]
  BY DEF Onward, Via, Paths
<1>2. start \in V
  BY DEF Paths
<1>3. \E f : Iterates(f, V, start, N, along)
  <2> HIDE DEF V, along
  <2> QED
    BY <1>1, <1>2, Iteration
<1>4. PICK f : Iterates(f, V, start, N, along)
  BY <1>3
<1>5. f = [n \in 0..N |-> IF n = 0 THEN start ELSE Onward(f[n - 1], id)]
  <2>1. \A n \in 0..N : n # 0 => n \in 1..N /\ <<n, f[n-1]>> \in (1..N) \X V
    BY <1>4 DEF Iterates
  <2> QED
    BY <1>4, <2>1 DEF Iterates
<1>6. walk = [n \in 0..N |-> IF n = 0 THEN start ELSE Onward(walk[n - 1], id)]
  <2>1. R!Cardinality(R!Rows) = N
    BY RedirectCount
  <2>2. walk = CHOOSE g : g = [n \in 0..N |-> IF n = 0 THEN start ELSE Onward(g[n - 1], id)]
    BY <2>1 DEF R!Walk, Onward, Via
  <2> HIDE DEF walk
  <2> QED
    BY <1>5, <2>2
<1>7. walk[0] = start /\ \A n \in 1..N : walk[n] = Onward(walk[n - 1], id)
  <2> HIDE DEF walk
  <2> QED
    BY <1>6
<1>8. walk \in [0..N -> V]
  <2> DEFINE inside == {n \in 0..N : walk[n] \in V}
  <2>1. 0..N \subseteq inside
    <3>1. 0 \in inside
      BY <1>2, <1>7
    <3>2. ASSUME NEW n \in 1..N, n - 1 \in inside PROVE n \in inside
      <4>1. walk[n - 1] \in V /\ walk[n] = Onward(walk[n - 1], id)
        BY <1>7, <3>2
      <4> QED
        BY <4>1 DEF Onward, Via, Paths
    <3> HIDE DEF inside
    <3> QED
      BY <3>1, <3>2, UpTo
  <2> HIDE DEF walk, V
  <2> QED
    BY <1>6, <2>1
<1> QED
  BY <1>7, <1>8

Addresses == {x.target : x \in RedirectInputs}

(* The enabled rows other than id lead from no path of S out of S.         *)
Closed(S, id) ==
  \A i \in R!Rows \ {id} :
    redirect[i].enabled /\ redirect[i].source \in S => redirect[i].target \in S

(* What a request has validated: the target leads to paths that do not     *)
(* include the source.                                                     *)
Apart(p) ==
  \E S \in SUBSET Addresses :
    p.input.target \in S /\ p.input.source \notin S /\ Closed(S, p.id)

LoopFree ==
  \A loop \in (SUBSET {i \in R!Rows : redirect[i].enabled}) \ {{}} :
    \E i \in loop : \A j \in loop : redirect[i].target # redirect[j].source

SourcesDiffer ==
  \A i, j \in R!Rows : redirect[i].source = redirect[j].source => i = j

RedirectInv ==
  /\ R!TypeOK
  /\ IsFiniteSet(R!Rows)
  /\ SourcesDiffer
  /\ rOverlapped \/ /\ LoopFree
                    /\ \A r \in Requests \ rStale : rPending[r] # R!Nothing => Apart(rPending[r])

(* The paths of a walk after which no other comes are closed.              *)
LEMMA WalkCloses ==
  ASSUME R!TypeOK, SourcesDiffer, NEW start \in Addresses, NEW id,
         NEW N \in Nat, N = Cardinality(R!Rows), NEW n \in 0..N,
         \/ Via(R!Walk(start, id)[n], id) = {}
         \/ \E i \in Via(R!Walk(start, id)[n], id), m \in 0..n :
              redirect[i].target = R!Walk(start, id)[m]
  PROVE  LET S == {R!Walk(start, id)[m] : m \in 0..n}
         IN  S \subseteq Addresses /\ Closed(S, id)
<1> DEFINE walk == R!Walk(start, id)
           S == {walk[m] : m \in 0..n}
<1>1. /\ walk \in [0..N -> Paths(start)]
      /\ walk[0] = start
      /\ \A m \in 1..N : walk[m] = Onward(walk[m - 1], id)
  BY WalkSteps
<1> HIDE DEF walk
<1>2. Paths(start) \subseteq Addresses
  <2>1. \A i \in R!Rows : redirect[i] \in RedirectInputs
    BY DEF R!TypeOK, R!Rows
  <2> QED
    BY <2>1 DEF Paths, Addresses
<1>3. S \subseteq Addresses
  BY <1>1, <1>2
<1>4. ASSUME NEW i \in R!Rows \ {id}, redirect[i].enabled, redirect[i].source \in S
      PROVE  redirect[i].target \in S
  <2>1. PICK m \in 0..n : redirect[i].source = walk[m]
    BY <1>4
  <2>2. i \in Via(walk[m], id) /\ \A j \in Via(walk[m], id) : j = i
    BY <1>4, <2>1 DEF Via, SourcesDiffer
  <2>3. CASE m = n
    BY <2>2, <2>3 DEF walk
  <2>4. CASE m # n
    <3>1. m + 1 \in 1..N /\ m + 1 \in 0..n /\ (m + 1) - 1 = m
      BY <2>4
    <3>2. walk[m + 1] = Onward(walk[m], id)
      BY <3>1, <1>1
    <3>3. (CHOOSE j \in Via(walk[m], id) : TRUE) = i
      BY <2>2
    <3>4. walk[m + 1] = redirect[i].target
      BY <2>2, <3>2, <3>3 DEF Onward
    <3> QED
      BY <3>1, <3>4
  <2> QED
    BY <2>3, <2>4
<1> QED
  BY <1>3, <1>4 DEF Closed, walk

(* A walk that does not find the source within as many steps as there are  *)
(* rows never does: it has ended, or it has come back to a path.           *)
THEOREM ValidatedIsApart ==
  ASSUME R!TypeOK, SourcesDiffer, IsFiniteSet(R!Rows),
         NEW input, input.target \in Addresses, NEW id, ~R!ClosesLoop(input, id)
  PROVE  \E S \in SUBSET Addresses : input.target \in S /\ input.source \notin S /\ Closed(S, id)
<1> DEFINE N == Cardinality(R!Rows)
           start == input.target
           walk == R!Walk(start, id)
<1>n. N \in Nat
  BY FS_CardinalityType
<1>0. \A n \in 0..N : walk[n] # input.source
  <2>1. R!Cardinality(R!Rows) = N
    BY RedirectCount
  <2> QED
    BY <2>1 DEF R!ClosesLoop
<1>1. walk[0] = start
  BY <1>n, WalkSteps
<1>2. \A m \in 1..N : walk[m] = Onward(walk[m - 1], id)
  BY <1>n, WalkSteps
<1>3. SUFFICES \E n \in 0..N : \/ Via(walk[n], id) = {}
                               \/ \E i \in Via(walk[n], id), m \in 0..n : redirect[i].target = walk[m]
  <2>1. PICK n \in 0..N : \/ Via(walk[n], id) = {}
                          \/ \E i \in Via(walk[n], id), m \in 0..n : redirect[i].target = walk[m]
    BY <1>3
  <2> DEFINE S == {walk[m] : m \in 0..n}
  <2>2. S \subseteq Addresses /\ Closed(S, id)
    BY <1>n, <2>1, WalkCloses
  <2>3. start \in S
    <3>1. 0 \in 0..n
      BY <1>n
    <3> QED
      BY <1>1, <3>1
  <2>4. input.source \notin S
    BY <1>n, <1>0
  <2> QED
    BY <2>2, <2>3, <2>4
<1>4. SUFFICES ASSUME \A n \in 0..N : Via(walk[n], id) # {}
               PROVE  \E n \in 0..N : \E i \in Via(walk[n], id), m \in 0..n : redirect[i].target = walk[m]
  OBVIOUS
<1> DEFINE row == [n \in 0..N |-> CHOOSE i \in Via(walk[n], id) : TRUE]
<1>5. \A n \in 0..N : row[n] \in Via(walk[n], id)
  BY <1>4
<1>6. row \in [0..N -> R!Rows]
  BY <1>5 DEF Via
<1>7. PICK a \in 0..N, b \in 0..N : a # b /\ row[a] = row[b]
  <2>1. IsFiniteSet(0..N) /\ Cardinality(0..N) = N + 1
    BY <1>n, FS_Interval
  <2>2. Cardinality(R!Rows) < Cardinality(0..N)
    BY <1>n, <2>1
  <2> HIDE DEF row, N
  <2>3. \E a, b \in 0..N : a # b /\ row[a] = row[b]
    BY <1>6, <2>1, <2>2, FS_PigeonHole
  <2> QED
    BY <2>3
<1>8. PICK c \in 0..N, d \in 0..N : c < d /\ row[c] = row[d]
  <2>1. a < b \/ b < a
    BY <1>7, <1>n
  <2> QED
    BY <1>7, <2>1
<1>9. walk[c] = walk[d]
  <2>1. row[c] \in Via(walk[c], id) /\ row[d] \in Via(walk[d], id)
    BY <1>5
  <2> HIDE DEF row, walk
  <2> QED
    BY <1>8, <2>1 DEF Via
<1>10. d \in 1..N /\ d - 1 \in 0..N /\ c \in 0..(d - 1)
  BY <1>8, <1>n
<1>11. walk[d] = redirect[row[d - 1]].target
  <2>1. walk[d] = Onward(walk[d - 1], id)
    BY <1>2, <1>10
  <2>2. Via(walk[d - 1], id) # {}
    BY <1>4, <1>10
  <2>3. row[d - 1] = CHOOSE i \in Via(walk[d - 1], id) : TRUE
    BY <1>10
  <2> QED
    BY <2>1, <2>2, <2>3 DEF Onward
<1>12. row[d - 1] \in Via(walk[d - 1], id)
  BY <1>5, <1>10
<1> QED
  BY <1>9, <1>10, <1>11, <1>12

(* What a request for a redirect carries: its input, and the redirect it    *)
(* writes.                                                                  *)
LEMMA PendingShape ==
  ASSUME R!TypeOK, NEW r \in Requests, rPending[r] # R!Nothing
  PROVE  /\ rPending[r].input \in RedirectInputs
         /\ rPending[r].op = "create" => rPending[r].id = "new"
         /\ rPending[r].op = "update" => rPending[r].id \in RedirectIds
BY DEF R!TypeOK, R!Nothing

(* A loop through a row that was written apart would leave a loop behind   *)
(* when the row is taken out of it.                                        *)
LEMMA WriteKeepsLoopFree ==
  ASSUME R!TypeOK, LoopFree, NEW id \in RedirectIds, NEW input \in RedirectInputs,
         redirect' = [redirect EXCEPT ![id] = input],
         NEW S, input.target \in S, input.source \notin S, Closed(S, id)
  PROVE  LoopFree'
<1>1. /\ redirect'[id] = input
      /\ \A i \in RedirectIds \ {id} : redirect'[i] = redirect[i]
  BY DEF R!TypeOK
<1>2. \A i \in R!Rows' \ {id} : i \in R!Rows /\ redirect'[i] = redirect[i]
  BY <1>1 DEF R!Rows
<1> SUFFICES ASSUME NEW loop \in (SUBSET {i \in R!Rows' : redirect'[i].enabled}) \ {{}},
                    \A i \in loop : \E j \in loop : redirect'[i].target = redirect'[j].source
             PROVE  FALSE
  BY DEF LoopFree
<1>3. ASSUME NEW rest \in SUBSET (loop \ {id}), rest # {},
             \A i \in rest : \E j \in rest : redirect'[i].target = redirect'[j].source
      PROVE  FALSE
  <2>1. rest \in (SUBSET {i \in R!Rows : redirect[i].enabled}) \ {{}}
    BY <1>2, <1>3
  <2>2. \A i \in rest : redirect'[i] = redirect[i]
    BY <1>2
  <2>3. PICK i \in rest : \A j \in rest : redirect[i].target # redirect[j].source
    BY <2>1 DEF LoopFree
  <2> QED
    BY <1>3, <2>2, <2>3
<1>4. CASE id \notin loop
  BY <1>3, <1>4
<1>5. CASE id \in loop
  <2> DEFINE rest == {i \in loop \ {id} : redirect'[i].source \in S}
  <2>1. \A i \in loop : redirect'[i].target \in S => \E j \in rest : redirect'[i].target = redirect'[j].source
    BY <1>1
  <2>2. rest # {}
    BY <1>1, <1>5, <2>1
  <2>3. \A i \in rest : redirect'[i].target \in S
    BY <1>2 DEF Closed
  <2>4. \A i \in rest : \E j \in rest : redirect'[i].target = redirect'[j].source
    BY <2>1, <2>3
  <2> HIDE DEF rest
  <2>5. rest \in SUBSET (loop \ {id})
    BY DEF rest
  <2> QED
    BY <1>3, <2>2, <2>4, <2>5
<1> QED
  BY <1>4, <1>5

(* At first there is no redirect and no request.                            *)
LEMMA RedirectInit == R!Init => RedirectInv
<1> SUFFICES ASSUME R!Init PROVE RedirectInv
  OBVIOUS
<1>1. R!Rows = {}
  BY DEF R!Init, R!Rows
<1>2. R!TypeOK
  BY DEF R!Init, R!TypeOK
<1>3. IsFiniteSet(R!Rows)
  BY <1>1, FS_EmptySet
<1> QED
  BY <1>1, <1>2, <1>3 DEF R!Init, RedirectInv, SourcesDiffer, LoopFree

(* A request that begins writes no redirect.                                *)
LEMMA RedirectBegin ==
  ASSUME RedirectInv, NEW r \in Requests, NEW op, NEW id, NEW input \in RedirectInputs,
         R!Begin(r, op, id, input), R!TypeOK'
  PROVE  RedirectInv'
<1> DEFINE p == [op |-> op, id |-> id, input |-> input]
<1>1. rPending' = [rPending EXCEPT ![r] = p] /\ UNCHANGED <<redirect, rStale, rOverlapped>>
  BY DEF R!Begin
<1>3. Apart(p)
  <2>1. input.target \in Addresses
    BY DEF Addresses
  <2>2. \E S \in SUBSET Addresses : input.target \in S /\ input.source \notin S /\ Closed(S, id)
    BY <2>1, ValidatedIsApart DEF R!Begin, RedirectInv
  <2> QED
    BY <2>2 DEF Apart
<1>4. \A q \in Requests : rPending'[q] = IF q = r THEN p ELSE rPending[q]
  BY <1>1 DEF RedirectInv, R!TypeOK
<1>5. /\ UNCHANGED <<R!Rows, SourcesDiffer, LoopFree>>
      /\ \A q : Apart(q) => Apart(q)'
  BY <1>1 DEF R!Rows, SourcesDiffer, LoopFree, Apart, Closed
<1>6. rOverlapped' \/ \A q \in Requests \ rStale' : rPending'[q] # R!Nothing => Apart(rPending[q])'
  BY <1>1, <1>3, <1>4, <1>5 DEF RedirectInv, Apart, Closed, R!Rows
<1> QED
  BY <1>1, <1>5, <1>6 DEF RedirectInv

(* A redirect whose target does not lead to its source is written without a *)
(* loop.                                                                    *)
LEMMA RedirectWrite ==
  ASSUME RedirectInv, NEW r \in Requests, NEW id \in RedirectIds, R!Write(r, id),
         rPending[r] # R!Nothing, ~R!Duplicate(rPending[r].input, id),
         Apart(rPending[r]) =>
           \E S : rPending[r].input.target \in S /\ rPending[r].input.source \notin S /\ Closed(S, id)
  PROVE  RedirectInv'
<1> DEFINE input == rPending[r].input
<1>0. R!TypeOK /\ input \in RedirectInputs
  BY PendingShape DEF RedirectInv
<1>1. /\ redirect' = [redirect EXCEPT ![id] = input]
      /\ rPending' = [rPending EXCEPT ![r] = R!Nothing]
      /\ rOverlapped' = (rOverlapped \/ r \in rStale)
      /\ rStale' = {q \in Requests \ {r} : rPending[q] # R!Nothing}
  BY DEF R!Write
<1>2. R!TypeOK'
  BY <1>0, <1>1 DEF R!TypeOK
<1>3. /\ redirect'[id] = input
      /\ \A i \in RedirectIds \ {id} : redirect'[i] = redirect[i]
  BY <1>0, <1>1 DEF R!TypeOK
<1>4. R!Rows' \subseteq R!Rows \cup {id}
  BY <1>3 DEF R!Rows
<1>5. IsFiniteSet(R!Rows')
  <2>1. IsFiniteSet(R!Rows \cup {id})
    BY FS_AddElement DEF RedirectInv
  <2> QED
    BY <1>4, <2>1, FS_Subset
<1>6. SourcesDiffer'
  <2>1. \A i \in R!Rows' \ {id} : i \in R!Rows /\ redirect'[i] = redirect[i] /\ redirect[i].source # input.source
    BY <1>3, <1>4 DEF R!Duplicate, R!Rows
  <2>2. \A i, j \in R!Rows' \ {id} : redirect'[i].source = redirect'[j].source => i = j
    BY <2>1 DEF RedirectInv, SourcesDiffer
  <2> QED
    BY <2>1, <2>2, <1>3 DEF SourcesDiffer
<1>7. rOverlapped' \/ LoopFree'
  <2> SUFFICES ASSUME ~rOverlapped, r \notin rStale PROVE LoopFree'
    BY <1>1
  <2>1. LoopFree /\ Apart(rPending[r])
    BY DEF RedirectInv
  <2>2. PICK S : input.target \in S /\ input.source \notin S /\ Closed(S, id)
    BY <2>1
  <2> HIDE DEF input
  <2> QED
    BY <1>0, <1>1, <2>1, <2>2, WriteKeepsLoopFree
<1>8. \A q \in Requests \ rStale' : rPending'[q] = R!Nothing
  BY <1>0, <1>1 DEF R!TypeOK
<1> QED
  BY <1>2, <1>5, <1>6, <1>7, <1>8 DEF RedirectInv

(* Every step of a request for a redirect keeps the invariant.              *)
LEMMA RedirectNext == RedirectInv /\ [R!Next]_redirects => RedirectInv'
<1> SUFFICES ASSUME RedirectInv, [R!Next]_redirects PROVE RedirectInv'
  OBVIOUS
<1>t. R!TypeOK
  BY DEF RedirectInv
<1>0. CASE UNCHANGED redirects
  BY <1>0 DEF redirects, RedirectInv, R!TypeOK, R!Rows, SourcesDiffer, LoopFree, Apart, Closed
<1>1. ASSUME NEW r \in Requests, NEW input \in RedirectInputs, R!BeginCreate(r, input)
      PROVE  RedirectInv'
  <2>1. R!Begin(r, "create", "new", input)
    BY <1>1 DEF R!BeginCreate
  <2>2. R!TypeOK'
    BY <1>t, <2>1 DEF R!Begin, R!TypeOK
  <2> QED
    BY <2>1, <2>2, RedirectBegin
<1>2. ASSUME NEW r \in Requests, NEW id \in RedirectIds, NEW input \in RedirectInputs,
             R!BeginUpdate(r, id, input)
      PROVE  RedirectInv'
  <2>1. R!Begin(r, "update", id, input)
    BY <1>2 DEF R!BeginUpdate
  <2>2. R!TypeOK'
    BY <1>t, <2>1 DEF R!Begin, R!TypeOK
  <2> QED
    BY <2>1, <2>2, RedirectBegin
<1>3. ASSUME NEW r \in Requests, R!CreateRedirect(r) PROVE RedirectInv'
  <2>1. rPending[r] # R!Nothing /\ rPending[r].id = "new"
    BY <1>3, <1>t, PendingShape DEF R!CreateRedirect, R!Nothing
  <2>2. PICK id \in RedirectIds \ R!Rows : R!Write(r, id)
    BY <1>3 DEF R!CreateRedirect
  <2>3. R!Rows \ {id} = R!Rows /\ R!Rows \ {"new"} = R!Rows
    BY <2>2, RedirectsAssumption DEF R!Rows
  <2>4. ~R!Duplicate(rPending[r].input, id)
    BY <1>3, <2>3 DEF R!CreateRedirect, R!Duplicate
  <2>5. \A S : Closed(S, "new") => Closed(S, id)
    BY <2>3 DEF Closed
  <2> QED
    BY <2>1, <2>2, <2>4, <2>5, RedirectWrite DEF Apart
<1>4. ASSUME NEW r \in Requests, R!UpdateRedirect(r) PROVE RedirectInv'
  <2>1. rPending[r] # R!Nothing /\ rPending[r].id \in RedirectIds
    BY <1>4 DEF R!UpdateRedirect, R!Nothing, R!Rows
  <2> QED
    BY <1>4, <2>1, RedirectWrite DEF R!UpdateRedirect, Apart
<1>5. ASSUME NEW r \in Requests, R!Abandon(r) PROVE RedirectInv'
  <2>1. /\ rPending' = [rPending EXCEPT ![r] = R!Nothing]
        /\ rStale' = rStale \ {r}
        /\ UNCHANGED <<redirect, rOverlapped>>
    BY <1>5 DEF R!Abandon
  <2>2. R!TypeOK'
    BY <1>t, <2>1 DEF R!TypeOK
  <2>3. \A q \in Requests \ rStale' :
          rPending'[q] = R!Nothing \/ (q \notin rStale /\ rPending'[q] = rPending[q])
    BY <1>t, <2>1 DEF R!TypeOK
  <2>4. /\ R!Rows' = R!Rows /\ (SourcesDiffer => SourcesDiffer') /\ (LoopFree => LoopFree')
    BY <2>1 DEF R!Rows, SourcesDiffer, LoopFree
  <2>5. rOverlapped' \/ \A q \in Requests \ rStale' : rPending'[q] # R!Nothing => Apart(rPending[q])'
    BY <2>1, <2>3, <2>4 DEF RedirectInv, Apart, Closed
  <2> QED
    BY <2>1, <2>2, <2>4, <2>5 DEF RedirectInv
<1>6. ASSUME NEW id \in RedirectIds, R!DeleteRedirect(id) PROVE RedirectInv'
  <2>1. redirect' = [redirect EXCEPT ![id] = R!Absent] /\ UNCHANGED <<rPending, rStale, rOverlapped>>
    BY <1>6 DEF R!DeleteRedirect
  <2>2. R!TypeOK'
    BY <1>t, <2>1 DEF R!TypeOK
  <2>3. R!Rows' \subseteq R!Rows /\ \A i \in R!Rows' : redirect'[i] = redirect[i]
    BY <1>t, <2>1 DEF R!TypeOK, R!Rows
  <2>4. IsFiniteSet(R!Rows')
    BY <2>3, FS_Subset DEF RedirectInv
  <2>5. SourcesDiffer => SourcesDiffer'
    BY <2>3 DEF SourcesDiffer
  <2>6. LoopFree => LoopFree'
    <3> SUFFICES ASSUME LoopFree,
                        NEW loop \in (SUBSET {i \in R!Rows' : redirect'[i].enabled}) \ {{}}
                 PROVE  \E i \in loop : \A j \in loop : redirect'[i].target # redirect'[j].source
      BY DEF LoopFree
    <3>1. loop \in (SUBSET {i \in R!Rows : redirect[i].enabled}) \ {{}}
      BY <2>3
    <3>2. PICK i \in loop : \A j \in loop : redirect[i].target # redirect[j].source
      BY <3>1 DEF LoopFree
    <3> QED
      BY <2>3, <3>2
  <2>7. \A q \in Requests : Apart(rPending[q]) => Apart(rPending[q])'
    BY <2>1, <2>3 DEF Apart, Closed
  <2> QED
    BY <2>1, <2>2, <2>4, <2>5, <2>6, <2>7 DEF RedirectInv
<1> QED
  BY <1>0, <1>1, <1>2, <1>3, <1>4, <1>5, <1>6 DEF R!Next, redirects, R!vars

(* As long as no request wrote what another one's write had overtaken, the *)
(* enabled redirects form no loop.                                         *)
THEOREM NoLoopCorrect == ServicesSpec => []NoLoop
<1>1. ServicesInit => RedirectInv
  BY RedirectInit DEF ServicesInit
<1>2. RedirectInv /\ [ServicesNext]_services => RedirectInv'
  BY RedirectNext DEF ServicesNext, services
<1>3. RedirectInv => NoLoop
  BY DEF RedirectInv, LoopFree, NoLoop, R!NoLoop
<1> QED
  BY <1>1, <1>2, <1>3, PTL DEF ServicesSpec

-----------------------------------------------------------------------------
(* The types of the parts, from their invariants.                          *)

(* Every variable of Connections has its type.                             *)
THEOREM ConnectionsTyped == ServicesSpec => []C!TypeOK
<1>1. ServicesInit => ConnectionInv
  BY ConnectionInit DEF ServicesInit
<1>2. ConnectionInv /\ [ServicesNext]_services => ConnectionInv'
  BY ConnectionNext DEF ServicesNext, services
<1>3. ConnectionInv => C!TypeOK
  BY DEF ConnectionInv
<1> QED
  BY <1>1, <1>2, <1>3, PTL DEF ServicesSpec

(* Every variable of Redirects has its type.                               *)
THEOREM RedirectsTyped == ServicesSpec => []R!TypeOK
<1>1. ServicesInit => RedirectInv
  BY RedirectInit DEF ServicesInit
<1>2. RedirectInv /\ [ServicesNext]_services => RedirectInv'
  BY RedirectNext DEF ServicesNext, services
<1>3. RedirectInv => R!TypeOK
  BY DEF RedirectInv
<1> QED
  BY <1>1, <1>2, <1>3, PTL DEF ServicesSpec

(* Every variable of Dictionary has its type: only a request that is under  *)
(* way has been overtaken.                                                 *)
DictionaryHistory ==
  dStale \subseteq {r \in Requests : dRequest[r] # D!Idle} /\ dOverlapped \in BOOLEAN

(* Every step keeps an overtaken request one that is under way.             *)
LEMMA DictionaryHistoryNext ==
  ASSUME DictionaryInv, DictionaryHistory, [D!Next]_items PROVE DictionaryHistory'
<1> USE DEF DictionaryHistory
<1>t. DOMAIN dRequest = Requests
  BY DEF DictionaryInv, DictionaryTypes
<1>0. CASE UNCHANGED items
  BY <1>0 DEF items
<1>1. ASSUME NEW r \in Requests, NEW s, D!Become(r, s), s.op # "idle",
             dStale' = dStale, dOverlapped' = dOverlapped
      PROVE  DictionaryHistory'
  BY <1>t, <1>1 DEF D!Become, D!Idle
<1>2. ASSUME NEW r \in Requests, D!Written(r) PROVE DictionaryHistory'
  BY <1>t, <1>2 DEF D!Written, D!Become
<1>3. ASSUME NEW r \in Requests, D!Abandon(r) PROVE DictionaryHistory'
  BY <1>t, <1>3 DEF D!Abandon, D!Become
<1>4. ASSUME NEW r \in Requests, NEW op \in {"create", "update"}, NEW i \in Items, NEW v \in D!Values,
             D!BeginItem(r, op, i, v)
      PROVE  DictionaryHistory'
  BY <1>1, <1>4 DEF D!BeginItem, D!history
<1>5. ASSUME NEW r \in Requests, NEW type \in D!Types, D!BeginUpdate(r, type)
      PROVE  DictionaryHistory'
  BY <1>1, <1>5 DEF D!BeginUpdate, D!history
<1>6. ASSUME NEW r \in Requests, NEW document \in ItemDocuments, D!BeginImport(r, document)
      PROVE  DictionaryHistory'
  BY <1>1, <1>6 DEF D!BeginImport, D!history
<1> QED
  BY <1>0, <1>2, <1>3, <1>4, <1>5, <1>6 DEF D!Next, D!WriteItem, D!UpdateDictionary, D!Import

(* Every variable of Dictionary has its type in every state of the          *)
(* services.                                                                *)
THEOREM DictionaryTyped == ServicesSpec => []D!TypeOK
<1> DEFINE Inv == DictionaryInv /\ DictionaryHistory
<1>1. ServicesInit => Inv
  BY DictionaryInit DEF ServicesInit, D!Init, DictionaryHistory
<1>2. Inv /\ [ServicesNext]_services => Inv'
  <2> SUFFICES ASSUME Inv, [D!Next]_items PROVE Inv'
    BY DEF ServicesNext, services
  <2> QED
    BY DictionaryNext, DictionaryHistoryNext
<1>3. Inv => D!TypeOK
  BY DEF DictionaryInv, DictionaryTypes, DictionaryHistory, D!TypeOK
<1> QED
  BY <1>1, <1>2, <1>3, PTL DEF ServicesSpec

(* Every variable of Taxonomy has its type: a walk moves among the terms    *)
(* there are, whatever is written while it goes on.                        *)
TaxonomyHistory ==
  /\ taxonomy \in T!Taxonomies
  /\ \A r \in Requests : tRequest[r].op = "walk" => tRequest[r].cursor \in Places
  /\ \A r \in Requests : tRequest[r].op = "update" /\ "kind" \in DOMAIN tRequest[r].change =>
       tRequest[r].change["kind"] \in {"tag", "category"}
  /\ tStale \subseteq {r \in Requests : tRequest[r] # T!Idle}
  /\ tOverlapped \in BOOLEAN

(* A request that goes on at one of the terms keeps its walk among them.    *)
LEMMA TaxonomyBegun ==
  ASSUME TaxonomyInv, TaxonomyHistory, NEW r \in Requests, NEW s, T!Become(r, s), s.op # "idle",
         s.op = "walk" => s.cursor \in Places,
         s.op = "update" /\ "kind" \in DOMAIN s.change => s.change["kind"] \in {"tag", "category"},
         UNCHANGED <<taxonomy, parent, tStale, tOverlapped>>
  PROVE  TaxonomyHistory'
<1>1. DOMAIN tRequest = Requests /\ tRequest' = [tRequest EXCEPT ![r] = s]
  BY DEF TaxonomyInv, TaxonomyTypes, T!Become
<1>2. Places' = Places
  BY DEF Places, T!Present
<1> QED
  BY <1>1, <1>2 DEF TaxonomyHistory, T!Idle

(* A request that ends leaves the walks of the others among the terms.      *)
LEMMA TaxonomyEnded ==
  ASSUME TaxonomyInv, TaxonomyHistory, NEW r \in Requests, T!Become(r, T!Idle),
         taxonomy' \in T!Taxonomies, Places \subseteq Places',
         tStale' \subseteq {q \in Requests \ {r} : tRequest[q] # T!Idle},
         tOverlapped' \in BOOLEAN
  PROVE  TaxonomyHistory'
<1>1. DOMAIN tRequest = Requests /\ tRequest' = [tRequest EXCEPT ![r] = T!Idle]
  BY DEF TaxonomyInv, TaxonomyTypes, T!Become
<1>2. \A q \in Requests : tRequest'[q] = IF q = r THEN T!Idle ELSE tRequest[q]
  BY <1>1
<1>3. T!Idle.op = "idle"
  BY DEF T!Idle
<1> QED
  BY <1>2, <1>3 DEF TaxonomyHistory

(* Every step keeps the walks among the terms.                              *)
LEMMA TaxonomyHistoryNext ==
  ASSUME TaxonomyInv, TaxonomyHistory, [T!Next]_terms PROVE TaxonomyHistory'
<1>t. /\ DOMAIN tRequest = Requests
      /\ parent \in [Terms -> Terms \cup {T!Root, T!Absent}]
      /\ \A t \in T!Present : parent[t] \in Places
      /\ \A r \in Requests : TermRequest(tRequest[r])
  BY DEF TaxonomyInv, TaxonomyTypes
<1>r. T!Root # T!Absent /\ Terms \cap {T!Root, T!Absent} = {}
  BY DocumentsAssumption DEF T!Root, T!Absent
<1>0. CASE UNCHANGED terms
  BY <1>0 DEF terms, TaxonomyHistory, Places, T!Present
<1>1. ASSUME NEW r \in Requests, NEW t \in Terms, NEW p \in Terms \cup {T!Root},
             T!BeginCreateTerm(r, t, p)
      PROVE  TaxonomyHistory'
  BY <1>1, TaxonomyBegun DEF T!BeginCreateTerm, T!history, T!tables
<1>2. ASSUME NEW r \in Requests, NEW t \in Terms, NEW p \in Terms \cup {T!Root},
             T!BeginMoveTerm(r, t, p)
      PROVE  TaxonomyHistory'
  <2>1. p \in Places
    BY <1>2 DEF T!BeginMoveTerm, T!ParentAllowed, Places
  <2> QED
    BY <1>2, <2>1, TaxonomyBegun DEF T!BeginMoveTerm, T!history, T!tables
<1>3. ASSUME NEW r \in Requests, T!Walk(r) PROVE TaxonomyHistory'
  <2> DEFINE s == [tRequest[r] EXCEPT !.cursor = parent[@]]
  <2>1. tRequest[r].op = "walk" /\ tRequest[r].cursor \in T!Present
    BY <1>3 DEF T!Walk, TaxonomyHistory, Places
  <2>2. s.op = "walk" /\ s.cursor = parent[tRequest[r].cursor]
    BY <1>t, <2>1 DEF TermRequest
  <2> HIDE DEF s
  <2>3. T!Become(r, s) /\ UNCHANGED <<taxonomy, parent, tStale, tOverlapped>>
    BY <1>3 DEF T!Walk, T!history, T!tables, s
  <2> QED
    BY <1>t, <2>1, <2>2, <2>3, TaxonomyBegun
<1>4. ASSUME NEW r \in Requests, NEW change \in T!Changes, T!BeginUpdateTaxonomy(r, change)
      PROVE  TaxonomyHistory'
  <2>1. T!Changed(change) \in T!Taxonomies
    BY <1>4 DEF T!BeginUpdateTaxonomy
  <2>2. "kind" \in DOMAIN change => change["kind"] \in {"tag", "category"}
    BY <2>1 DEF T!Changed, T!Taxonomies
  <2> QED
    BY <1>4, <2>2, TaxonomyBegun DEF T!BeginUpdateTaxonomy, T!history, T!tables
<1>5. ASSUME NEW r \in Requests, NEW document \in TermDocuments, T!BeginImport(r, document)
      PROVE  TaxonomyHistory'
  BY <1>5, TaxonomyBegun DEF T!BeginImport, T!history, T!tables
<1>6. ASSUME NEW r \in Requests, T!Refuse(r) PROVE TaxonomyHistory'
  <2>1. Places' = Places
    BY <1>6 DEF T!Refuse, T!tables, Places, T!Present
  <2> QED
    BY <1>6, <2>1, TaxonomyEnded DEF T!Refuse, T!tables, TaxonomyHistory
<1>7. ASSUME NEW r \in Requests, T!Written(r), taxonomy' \in T!Taxonomies, Places \subseteq Places'
      PROVE  TaxonomyHistory'
  BY <1>7, TaxonomyEnded DEF T!Written, TaxonomyHistory
<1>8. ASSUME NEW r \in Requests, T!CreateTerm(r) \/ T!MoveTerm(r) PROVE TaxonomyHistory'
  <2>1. /\ tRequest[r].parent \in Places
        /\ parent' = [parent EXCEPT ![tRequest[r].term] = tRequest[r].parent]
        /\ taxonomy' = taxonomy /\ T!Written(r)
    BY <1>8, <1>t DEF T!CreateTerm, T!MoveTerm, TermRequest
  <2>2. Places \subseteq Places'
    BY <1>t, <1>r, <2>1 DEF Places, T!Present
  <2> QED
    BY <1>7, <2>1, <2>2 DEF TaxonomyHistory
<1>9. ASSUME NEW r \in Requests, T!UpdateTaxonomy(r) PROVE TaxonomyHistory'
  <2> DEFINE change == tRequest[r].change
  <2>1. /\ tRequest[r].op = "update"
        /\ taxonomy' = T!Changed(change) /\ parent' = parent /\ T!Written(r)
    BY <1>9 DEF T!UpdateTaxonomy
  <2>2. /\ "kind" \in DOMAIN change => change["kind"] \in {"tag", "category"}
        /\ "shape" \in DOMAIN change => change["shape"] \in {"flat", "tree"}
    BY <1>t, <2>1 DEF TaxonomyHistory, TermRequest
  <2>3. taxonomy.kind \in {"tag", "category"} /\ taxonomy.shape \in {"flat", "tree"}
    BY DEF TaxonomyHistory, T!Taxonomies
  <2>4. taxonomy' \in T!Taxonomies
    BY <2>1, <2>2, <2>3 DEF T!Changed, T!Taxonomies
  <2>5. Places' = Places
    BY <2>1 DEF Places, T!Present
  <2> QED
    BY <1>7, <2>1, <2>4, <2>5
<1>10. ASSUME NEW r \in Requests, T!Import(r) PROVE TaxonomyHistory'
  <2> DEFINE new == tRequest[r].parents
  <2>1. /\ DOMAIN new \subseteq Terms
        /\ \A t \in DOMAIN new : new[t] \in Terms \cup {T!Root}
        /\ parent' = [t \in Terms |-> IF t \in DOMAIN new THEN new[t] ELSE parent[t]]
        /\ taxonomy' = taxonomy /\ T!Written(r)
    BY <1>10, <1>t DEF T!Import, TermRequest
  <2>2. Places \subseteq Places'
    BY <1>r, <2>1 DEF Places, T!Present
  <2> QED
    BY <1>7, <2>1, <2>2 DEF TaxonomyHistory
<1> QED
  BY <1>0, <1>1, <1>2, <1>3, <1>4, <1>5, <1>6, <1>8, <1>9, <1>10 DEF T!Next, T!RefuseMove, T!Abandon

(* Every variable of Taxonomy has its type in every state of the services.  *)
THEOREM TaxonomyTyped == ServicesSpec => []T!TypeOK
<1> DEFINE Inv == TaxonomyInv /\ TaxonomyHistory
<1>1. ServicesInit => Inv
  <2> SUFFICES ASSUME T!Init PROVE Inv
    BY DEF ServicesInit
  <2>1. T!Idle.op = "idle"
    BY DEF T!Idle
  <2>2. \A r \in Requests : tRequest[r] = T!Idle
    BY DEF T!Init
  <2> QED
    BY <2>1, <2>2, TaxonomyInit DEF T!Init, TaxonomyHistory
<1>2. Inv /\ [ServicesNext]_services => Inv'
  <2> SUFFICES ASSUME Inv, [T!Next]_terms PROVE Inv'
    BY DEF ServicesNext, services
  <2> QED
    BY TaxonomyNext, TaxonomyHistoryNext
<1>3. Inv => T!TypeOK
  BY DEF TaxonomyInv, TaxonomyTypes, TaxonomyHistory, TermRequest, Places, T!TypeOK
<1> QED
  BY <1>1, <1>2, <1>3, PTL DEF ServicesSpec
=============================================================================
