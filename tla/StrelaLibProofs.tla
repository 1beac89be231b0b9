-------------------------- MODULE StrelaLibProofs --------------------------
(***************************************************************************)
(* Theorems about StrelaLib, for any number of slots, of descriptors, of   *)
(* submissions and of entries in /dev/accel.                               *)
(*                                                                         *)
(* The first three rest on LibInv: the slots, the descriptors of the       *)
(* process and the driver's jobs belong together, which has to be known in *)
(* both directions, since strela_job_slot_finish polls a descriptor to     *)
(* learn about a job.  It holds as long as no export of a fence fails,     *)
(* which MCLibExport shows to be necessary.                                *)
(*                                                                         *)
(* The last rests on WaitOk, a bound on how long the driver can be busy    *)
(* after strela_execute has waited, and not on LibInv: an export may fail. *)
(***************************************************************************)
EXTENDS StrelaLib, TLAPS

\* A slot of the library and a job of the driver.
SlotType == [phase : {"FREE", "CONFIGURED", "SUBMITTED", "DONE"},
             fence_fd : Fds \cup {NoFd},
             fence : Nat,
             status : {"none", "pending", "ok", "failed"}]
JobType == [slot : Slots, state : {"pending", "ok", "failed"}]

\* A slot r that has a job.
HasJob(r) == r.phase \in {"SUBMITTED", "DONE"}

\* A slot i with contents r: the job it has is the driver's and its own, and the
\* descriptor of the job's fence is open on it; it has none before it is submitted.
SlotOk(i, r, t, j) ==
  /\ HasJob(r) => /\ r.fence_fd \in Fds
                  /\ r.fence \in DOMAIN j
                  /\ t[r.fence_fd] = r.fence
                  /\ j[r.fence].slot = i
  /\ r.phase = "CONFIGURED" => r.fence_fd = NoFd
  /\ r.phase = "DONE" => /\ j[r.fence].state # "pending"
                         /\ r.status = j[r.fence].state

\* The slots s, the descriptors t and the jobs j belong together.
SlotsOk(s, t, j) ==
  /\ s \in [Slots -> SlotType]
  /\ t \in [Fds -> Int]
  /\ j \in Seq(JobType)
  /\ \A i \in Slots : SlotOk(i, s[i], t, j)
  /\ \A k \in DOMAIN j :
       j[k].state = "pending" => /\ s[j[k].slot].phase = "SUBMITTED"
                                 /\ s[j[k].slot].fence = k
  /\ \A f \in Fds :
       t[f] > 0 => \E i \in Slots : HasJob(s[i]) /\ s[i].fence_fd = f /\ s[i].fence = t[f]

\* The device, the search for it and their descriptors belong together.
DeviceOk ==
  /\ initialized \in BOOLEAN /\ dev_fd \in Fds
  /\ search \in {"no", "count", "init"} \cup DOMAIN InitSteps
  /\ dir \in Fds \cup {NoFd} /\ entry \in Fds \cup {NoFd}
  /\ Searching <=> dir # NoFd
  /\ search = "no" => entry = NoFd
  /\ search \in DOMAIN InitSteps => entry # NoFd
  /\ search \notin {"no", "count"} => ~ initialized
  /\ initialized => dev_fd # entry

\* The descriptors that are not of fences are the ones the library knows.
TableOk ==
  /\ fd[0] = Stdin
  /\ \A f \in Fds : fd[f] = Dir <=> f = dir
  /\ \A f \in Fds : fd[f] = Accel <=> (initialized /\ f = dev_fd) \/ f = entry

\* So are the mappings, while the device is being opened too.
MapsOk ==
  maps = IF initialized THEN Mappings
         ELSE IF search \in {"tensors_handle", "tensors"} THEN {"kernels"} ELSE {}

\* strela_execute waits for a submitted job of an open device.
ExecuteOk ==
  /\ compat \in Slots \cup {Invalid}
  /\ executing = "waiting" => /\ compat \in Slots
                              /\ slot[compat].phase = "SUBMITTED"
  /\ search # "no" => executing = "no"
  /\ ~ initialized => executing = "no"

\* Inductive for the steps of LibNext when no export fails.
LibInv ==
  /\ ~ aborted
  /\ SlotsOk(slot, fd, jobs)
  /\ DeviceOk
  /\ TableOk
  /\ MapsOk
  /\ ExecuteOk
  /\ ~ initialized => jobs = <<>>

-----------------------------------------------------------------------------
(* Slots, descriptors and jobs: what each change does to SlotsOk. *)

\* The type of the driver's jobs, one by one.
LEMMA JobsAre ==
  ASSUME NEW j \in Seq(JobType), NEW k \in DOMAIN j
  PROVE  /\ j[k] \in JobType /\ j[k].slot \in Slots
         /\ j[k].state \in {"pending", "ok", "failed"}
         /\ k \in Nat /\ k > 0
<1>1. j[k] \in JobType /\ k \in Nat /\ k > 0
  OBVIOUS
<1> QED  BY <1>1, Zenon DEF JobType

\* A slot without a job may become any slot without one, as strela_job_config does.
LEMMA ConfigureKeeps ==
  ASSUME NEW s, NEW t, NEW j, SlotsOk(s, t, j),
         NEW i \in Slots, ~ HasJob(s[i]),
         NEW r \in SlotType, ~ HasJob(r), r.phase = "CONFIGURED" => r.fence_fd = NoFd
  PROVE  SlotsOk([s EXCEPT ![i] = r], t, j)
<1> DEFINE u == [s EXCEPT ![i] = r]
<1>1. /\ s \in [Slots -> SlotType] /\ t \in [Fds -> Int] /\ j \in Seq(JobType)
      /\ \A a \in Slots : SlotOk(a, s[a], t, j)
  BY Zenon DEF SlotsOk
<1>2. u \in [Slots -> SlotType] /\ u[i] = r /\ \A a \in Slots \ {i} : u[a] = s[a]
  BY <1>1, Zenon
<1> HIDE DEF u
<1>3. \A a \in Slots : SlotOk(a, u[a], t, j)
  <2>1. SlotOk(i, u[i], t, j)
    BY <1>2, Zenon DEF SlotOk, HasJob
  <2> QED  BY <2>1, <1>1, <1>2, Zenon
<1>4. ASSUME NEW k \in DOMAIN j, j[k].state = "pending"
      PROVE  u[j[k].slot].phase = "SUBMITTED" /\ u[j[k].slot].fence = k
  <2>1. j[k].slot \in Slots
    BY <1>1, JobsAre, Zenon
  <2>2. s[j[k].slot].phase = "SUBMITTED" /\ s[j[k].slot].fence = k
    BY <1>4, Zenon DEF SlotsOk
  <2>3. j[k].slot # i
    BY <2>2, Zenon DEF HasJob
  <2> QED  BY <2>1, <2>2, <2>3, <1>2, Zenon
<1>5. ASSUME NEW f \in Fds, t[f] > 0
      PROVE  \E a \in Slots : HasJob(u[a]) /\ u[a].fence_fd = f /\ u[a].fence = t[f]
  <2>1. PICK a \in Slots : HasJob(s[a]) /\ s[a].fence_fd = f /\ s[a].fence = t[f]
    BY <1>5, Zenon DEF SlotsOk
  <2>2. a # i
    BY <2>1, Zenon
  <2> QED  BY <2>1, <2>2, <1>2, Zenon
<1> QED  BY <1>1, <1>2, <1>3, <1>4, <1>5, Zenon DEF SlotsOk, u

\* What strela_job_slot_release needs: of slots that have finished no descriptor is
\* bad, so that the library does not abort.
LEMMA NoBadCloses ==
  ASSUME SlotsOk(slot, fd, jobs), NEW S \in SUBSET Slots, \A i \in S : InUse(i)
  PROVE  BadCloses(S) = {}
<1> SUFFICES ASSUME NEW i \in BadCloses(S) PROVE FALSE
  BY Zenon
<1>1. i \in S /\ i \in Slots /\ slot[i].fence_fd # NoFd /\ InUse(i)
  BY Zenon DEF BadCloses
<1>2. slot[i] \in SlotType /\ SlotOk(i, slot[i], fd, jobs) /\ jobs \in Seq(JobType)
  BY <1>1, Zenon DEF SlotsOk
<1>3. HasJob(slot[i])
  BY <1>1, <1>2, Zenon DEF InUse, SlotOk, SlotType, HasJob
<1>4. /\ slot[i].fence \in DOMAIN jobs /\ fd[slot[i].fence_fd] = slot[i].fence
      /\ jobs[slot[i].fence].slot = i
  BY <1>2, <1>3, Zenon DEF SlotOk
<1>5. fd[slot[i].fence_fd] # Closed
  BY <1>4, <1>2 DEF Closed
<1>6. PICK k \in S \ {i} : slot[k].fence_fd = slot[i].fence_fd
  BY <1>5, Zenon DEF BadCloses
<1>7. slot[k] \in SlotType /\ SlotOk(k, slot[k], fd, jobs) /\ InUse(k)
  BY <1>6, Zenon DEF SlotsOk
<1>8. HasJob(slot[k])
  BY <1>1, <1>6, <1>7, Zenon DEF InUse, SlotOk, SlotType, HasJob
<1>9. fd[slot[k].fence_fd] = slot[k].fence /\ jobs[slot[k].fence].slot = k
  BY <1>7, <1>8, Zenon DEF SlotOk
<1> QED  BY <1>4, <1>6, <1>9, Zenon

\* A descriptor that is closed with the slots of S was that of the job of one of them.
LEMMA FdsOfIs ==
  ASSUME SlotsOk(slot, fd, jobs), NEW S \in SUBSET Slots, \A i \in S : InUse(i),
         NEW f \in FdsOf(S)
  PROVE  \E i \in S : HasJob(slot[i]) /\ slot[i].fence_fd = f /\ fd[f] = slot[i].fence
<1>1. PICK i \in S : f = slot[i].fence_fd /\ f # NoFd
  BY Zenon DEF FdsOf
<1>2. slot[i] \in SlotType /\ SlotOk(i, slot[i], fd, jobs) /\ InUse(i)
  BY Zenon DEF SlotsOk
<1>3. HasJob(slot[i])
  BY <1>1, <1>2, Zenon DEF InUse, SlotOk, SlotType, HasJob
<1>4. fd[f] = slot[i].fence
  BY <1>1, <1>2, <1>3, Zenon DEF SlotOk
<1> QED  BY <1>1, <1>3, <1>4, Zenon

\* strela_job_slot_release of slots whose jobs have ended.
LEMMA ReleaseKeeps ==
  ASSUME SlotsOk(slot, fd, jobs), NEW S \in SUBSET Slots,
         \A i \in S : InUse(i) /\ Finished(i)
  PROVE  /\ BadCloses(S) = {}
         /\ SlotsOk(Released(S), CloseFds(S), jobs)
<1>1. BadCloses(S) = {}
  BY NoBadCloses, Zenon
<1>2. PICK s : s = Released(S)
  BY Zenon
<1>3. PICK t : t = CloseFds(S)
  BY Zenon
<1>4. /\ slot \in [Slots -> SlotType] /\ fd \in [Fds -> Int] /\ jobs \in Seq(JobType)
      /\ \A a \in Slots : SlotOk(a, slot[a], fd, jobs)
  BY Zenon DEF SlotsOk
<1>5. s = [i \in Slots |-> IF i \in S THEN FreeSlot ELSE slot[i]]
  BY <1>1, <1>2, Zenon DEF Released
<1>6. FreeSlot \in SlotType /\ ~ HasJob(FreeSlot) /\ FreeSlot.phase = "FREE"
  BY Zenon DEF FreeSlot, ZeroSlot, SlotType, HasJob, NoJob
<1>7. s \in [Slots -> SlotType] /\ \A a \in Slots : s[a] = IF a \in S THEN FreeSlot ELSE slot[a]
  BY <1>4, <1>5, <1>6, Zenon
<1>8. t \in [Fds -> Int] /\ \A f \in Fds : t[f] = IF f \in FdsOf(S) THEN Closed ELSE fd[f]
  BY <1>3, <1>4 DEF CloseFds, Closed
<1>9. \A a \in Slots : SlotOk(a, s[a], t, jobs)
  <2> SUFFICES ASSUME NEW a \in Slots PROVE SlotOk(a, s[a], t, jobs)
    BY Zenon
  <2>1. CASE a \in S
    BY <2>1, <1>6, <1>7, Zenon DEF SlotOk
  <2>2. CASE a \notin S
    <3>1. s[a] = slot[a] /\ SlotOk(a, slot[a], fd, jobs)
      BY <2>2, <1>7, <1>4, Zenon
    <3>2. ASSUME HasJob(slot[a]) PROVE slot[a].fence_fd \in Fds /\ slot[a].fence_fd \notin FdsOf(S)
      <4>1. /\ slot[a].fence_fd \in Fds /\ fd[slot[a].fence_fd] = slot[a].fence
            /\ jobs[slot[a].fence].slot = a
        BY <3>1, <3>2, Zenon DEF SlotOk
      <4>2. SUFFICES ASSUME slot[a].fence_fd \in FdsOf(S) PROVE FALSE
        BY <4>1, Zenon
      <4>3. PICK b \in S : HasJob(slot[b]) /\ fd[slot[a].fence_fd] = slot[b].fence
        BY <4>2, FdsOfIs, Zenon
      <4>4. jobs[slot[b].fence].slot = b
        BY <4>3, <1>4, Zenon DEF SlotOk
      <4> QED  BY <4>1, <4>3, <4>4, <2>2, Zenon
    <3>3. HasJob(slot[a]) => t[slot[a].fence_fd] = fd[slot[a].fence_fd]
      BY <3>2, <1>8, Zenon
    <3> QED  BY <3>1, <3>3, Zenon DEF SlotOk
  <2> QED  BY <2>1, <2>2, Zenon
<1>10. ASSUME NEW k \in DOMAIN jobs, jobs[k].state = "pending"
       PROVE  s[jobs[k].slot].phase = "SUBMITTED" /\ s[jobs[k].slot].fence = k
  <2>1. PICK i \in Slots : i = jobs[k].slot
    BY <1>4, JobsAre, Zenon
  <2>2. slot[i].phase = "SUBMITTED" /\ slot[i].fence = k
    BY <2>1, <1>10, Zenon DEF SlotsOk
  <2>3. i \notin S
    <3> SUFFICES ASSUME i \in S PROVE FALSE
      BY Zenon
    <3>1. Finished(i)
      BY Zenon
    <3>2. SlotOk(i, slot[i], fd, jobs) /\ HasJob(slot[i])
      BY <2>2, <1>4, Zenon DEF HasJob
    <3>3. slot[i].fence_fd \in Fds /\ fd[slot[i].fence_fd] = k
      BY <3>2, <2>2, Zenon DEF SlotOk
    <3>4. slot[i].fence_fd # NoFd
      BY <3>3, LibAssumption DEF Fds, NoFd
    <3>5. Polled(slot[i].fence_fd)
      BY <3>1, <2>2, <3>4, Zenon DEF Finished
    <3> QED  BY <3>5, <3>3, <1>10, Zenon DEF Polled, Ended
  <2> QED  BY <2>1, <2>2, <2>3, <1>7, Zenon
<1>11. ASSUME NEW f \in Fds, t[f] > 0
       PROVE  \E a \in Slots : HasJob(s[a]) /\ s[a].fence_fd = f /\ s[a].fence = t[f]
  <2>1. f \notin FdsOf(S) /\ t[f] = fd[f]
    BY <1>11, <1>8 DEF Closed
  <2>2. PICK a \in Slots : HasJob(slot[a]) /\ slot[a].fence_fd = f /\ slot[a].fence = fd[f]
    BY <1>11, <2>1, Zenon DEF SlotsOk
  <2>3. a \notin S
    <3>1. f # NoFd
      BY LibAssumption DEF Fds, NoFd
    <3> QED  BY <2>1, <2>2, <3>1, Zenon DEF FdsOf
  <2> QED  BY <2>1, <2>2, <2>3, <1>7, Zenon
<1>12. SlotsOk(s, t, jobs)
  BY <1>4, <1>7, <1>8, <1>9, <1>10, <1>11, Zenon DEF SlotsOk
<1> QED  BY <1>1, <1>2, <1>3, <1>12, Zenon

\* strela_job_submit: a slot without a job gets the next one, and its fence a
\* descriptor that was closed.
LEMMA SubmitKeeps ==
  ASSUME NEW s, NEW t, NEW j, SlotsOk(s, t, j),
         NEW i \in Slots, ~ HasJob(s[i]),
         NEW f \in Fds, t[f] = Closed,
         NEW r \in SlotType, r.phase = "SUBMITTED", r.fence_fd = f, r.fence = Len(j) + 1
  PROVE  SlotsOk([s EXCEPT ![i] = r], [t EXCEPT ![f] = Len(j) + 1],
                 Append(j, [slot |-> i, state |-> "pending"]))
<1> DEFINE new == [slot |-> i, state |-> "pending"]
<1>1. /\ s \in [Slots -> SlotType] /\ t \in [Fds -> Int] /\ j \in Seq(JobType)
      /\ \A a \in Slots : SlotOk(a, s[a], t, j)
  BY Zenon DEF SlotsOk
<1>2. PICK n \in Nat : n = Len(j) /\ DOMAIN j = 1 .. n
  BY <1>1
<1>3. PICK w : w = Append(j, new)
  BY Zenon
<1>4. new \in JobType /\ new.slot = i /\ new.state = "pending"
  BY Zenon DEF JobType
<1> HIDE DEF new
<1>5. /\ w \in Seq(JobType) /\ DOMAIN w = 1 .. n + 1
      /\ w[n + 1] = new /\ \A k \in 1 .. n : w[k] = j[k]
  BY <1>1, <1>2, <1>3, <1>4
<1>6. PICK u : u = [s EXCEPT ![i] = r]
  BY Zenon
<1>7. u \in [Slots -> SlotType] /\ u[i] = r /\ \A a \in Slots \ {i} : u[a] = s[a]
  BY <1>1, <1>6, Zenon
<1>8. PICK v : v = [t EXCEPT ![f] = n + 1]
  BY Zenon
<1>9. v \in [Fds -> Int] /\ v[f] = n + 1 /\ \A g \in Fds \ {f} : v[g] = t[g]
  BY <1>1, <1>8
<1>10. HasJob(r)
  BY Zenon DEF HasJob
<1>11. ASSUME NEW a \in Slots, a # i PROVE SlotOk(a, u[a], v, w)
  <2>1. u[a] = s[a] /\ SlotOk(a, s[a], t, j)
    BY <1>11, <1>1, <1>7, Zenon
  <2>2. ASSUME HasJob(s[a])
        PROVE  /\ s[a].fence_fd \in Fds /\ s[a].fence \in DOMAIN w
               /\ v[s[a].fence_fd] = s[a].fence /\ w[s[a].fence] = j[s[a].fence]
    <3>1. s[a].fence_fd \in Fds /\ s[a].fence \in 1 .. n /\ t[s[a].fence_fd] = s[a].fence
      BY <2>1, <2>2, <1>2, Zenon DEF SlotOk
    <3>2. s[a].fence_fd # f
      BY <3>1 DEF Closed
    <3>3. v[s[a].fence_fd] = s[a].fence
      BY <3>1, <3>2, <1>9, Zenon
    <3> QED  BY <3>1, <3>3, <1>5
  <2>3. s[a].phase = "DONE" => HasJob(s[a])
    BY Zenon DEF HasJob
  <2> QED  BY <2>1, <2>2, <2>3, Zenon DEF SlotOk
<1>12. SlotOk(i, u[i], v, w)
  <2>1. n + 1 \in DOMAIN w /\ r.fence = n + 1
    BY <1>2, <1>5
  <2> QED  BY <2>1, <1>4, <1>5, <1>7, <1>9, Zenon DEF SlotOk
<1>13. ASSUME NEW k \in DOMAIN w, w[k].state = "pending"
       PROVE  u[w[k].slot].phase = "SUBMITTED" /\ u[w[k].slot].fence = k
  <2>1. CASE k = n + 1
    BY <2>1, <1>2, <1>4, <1>5, <1>7, Zenon
  <2>2. CASE k # n + 1
    <3>1. k \in DOMAIN j /\ w[k] = j[k]
      BY <2>2, <1>2, <1>5
    <3>2. j[k].slot \in Slots
      BY <3>1, <1>1, JobsAre, Zenon
    <3>3. s[j[k].slot].phase = "SUBMITTED" /\ s[j[k].slot].fence = k
      BY <3>1, <1>13 DEF SlotsOk
    <3>4. j[k].slot # i
      BY <3>3, Zenon DEF HasJob
    <3> QED  BY <3>1, <3>2, <3>3, <3>4, <1>7, Zenon
  <2> QED  BY <2>1, <2>2, Zenon
<1>14. ASSUME NEW g \in Fds, v[g] > 0
       PROVE  \E a \in Slots : HasJob(u[a]) /\ u[a].fence_fd = g /\ u[a].fence = v[g]
  <2>1. CASE g = f
    BY <2>1, <1>2, <1>7, <1>9, <1>10, Zenon
  <2>2. CASE g # f
    <3>1. v[g] = t[g]
      BY <2>2, <1>9, Zenon
    <3>2. PICK a \in Slots : HasJob(s[a]) /\ s[a].fence_fd = g /\ s[a].fence = t[g]
      BY <3>1, <1>14, Zenon DEF SlotsOk
    <3>3. a # i
      BY <3>2, Zenon
    <3> QED  BY <3>1, <3>2, <3>3, <1>7, Zenon
  <2> QED  BY <2>1, <2>2, Zenon
<1>15. SlotsOk(u, v, w)
  BY <1>5, <1>7, <1>9, <1>11, <1>12, <1>13, <1>14 DEF SlotsOk
<1> QED  BY <1>2, <1>3, <1>6, <1>8, <1>15, Zenon DEF new

\* The jobs after one of them has ended.
LEMMA EndedJobs ==
  ASSUME NEW j \in Seq(JobType), NEW k \in DOMAIN j, NEW x \in {"ok", "failed"},
         NEW w, w = [j EXCEPT ![k].state = x]
  PROVE  /\ w \in Seq(JobType) /\ DOMAIN w = DOMAIN j
         /\ w[k].state = x /\ w[k].slot = j[k].slot
         /\ \A a \in DOMAIN j \ {k} : w[a] = j[a]
<1>1. PICK r : r = [j[k] EXCEPT !.state = x]
  BY Zenon
<1>2. r \in JobType /\ r.slot = j[k].slot /\ r.state = x
  <2>1. j[k] \in JobType
    BY JobsAre, Zenon
  <2> QED  BY <2>1, <1>1, Zenon DEF JobType
<1>3. w = [j EXCEPT ![k] = r]
  BY <1>1, Zenon
<1>4. w \in Seq(JobType) /\ DOMAIN w = DOMAIN j
  BY <1>2, <1>3
<1>5. w[k] = r /\ \A a \in DOMAIN j \ {k} : w[a] = j[a]
  BY <1>3, Zenon
<1> QED  BY <1>2, <1>4, <1>5, Zenon

\* The driver ends a job.
LEMMA EndKeeps ==
  ASSUME NEW s, NEW t, NEW j, SlotsOk(s, t, j),
         NEW k \in DOMAIN j, j[k].state = "pending", NEW x \in {"ok", "failed"}
  PROVE  SlotsOk(s, t, [j EXCEPT ![k].state = x])
<1>1. /\ s \in [Slots -> SlotType] /\ t \in [Fds -> Int] /\ j \in Seq(JobType)
      /\ \A a \in Slots : SlotOk(a, s[a], t, j)
  BY Zenon DEF SlotsOk
<1>2. PICK w : w = [j EXCEPT ![k].state = x]
  BY Zenon
<1>3. /\ w \in Seq(JobType) /\ DOMAIN w = DOMAIN j
      /\ w[k].state = x /\ w[k].slot = j[k].slot
      /\ \A a \in DOMAIN j \ {k} : w[a] = j[a]
  <2>1. j \in Seq(JobType)
    BY <1>1, Zenon
  <2> QED  BY <1>2, <2>1, EndedJobs
<1>4. ASSUME NEW a \in Slots PROVE SlotOk(a, s[a], t, w)
  <2>1. SlotOk(a, s[a], t, j)
    BY <1>1, Zenon
  <2>2. \A b \in DOMAIN j : w[b].slot = j[b].slot
    BY <1>3, Zenon
  <2>3. s[a].phase = "DONE" => s[a].fence # k /\ s[a].fence \in DOMAIN j
    BY <2>1, Zenon DEF SlotOk, HasJob
  <2> QED  BY <2>1, <2>2, <2>3, <1>3, Zenon DEF SlotOk
<1>5. ASSUME NEW a \in DOMAIN w, w[a].state = "pending"
      PROVE  s[w[a].slot].phase = "SUBMITTED" /\ s[w[a].slot].fence = a
  <2>1. a # k /\ a \in DOMAIN j
    BY <1>5, <1>3, Zenon
  <2> QED  BY <2>1, <1>3, <1>5 DEF SlotsOk
<1>6. SlotsOk(s, t, w)
  BY <1>1, <1>3, <1>4, <1>5, Zenon DEF SlotsOk
<1> QED  BY <1>2, <1>6, Zenon

\* strela_job_update finds that the job of a slot has ended.
LEMMA UpdateKeeps ==
  ASSUME NEW s, NEW t, NEW j, SlotsOk(s, t, j),
         NEW i \in Slots, s[i].phase = "SUBMITTED", j[s[i].fence].state # "pending"
  PROVE  SlotsOk([s EXCEPT ![i].phase = "DONE", ![i].status = j[s[i].fence].state], t, j)
<1>1. /\ s \in [Slots -> SlotType] /\ t \in [Fds -> Int] /\ j \in Seq(JobType)
      /\ \A a \in Slots : SlotOk(a, s[a], t, j)
  BY Zenon DEF SlotsOk
<1>2. s[i] \in SlotType /\ HasJob(s[i]) /\ SlotOk(i, s[i], t, j)
  BY <1>1, Zenon DEF HasJob
<1>3. PICK x \in {"pending", "ok", "failed"} : x = j[s[i].fence].state
  BY <1>1, <1>2, JobsAre, Zenon DEF SlotOk
<1>4. PICK r : r = [s[i] EXCEPT !.phase = "DONE", !.status = x]
  BY Zenon
<1>5. /\ r \in SlotType /\ r.phase = "DONE" /\ r.status = x
      /\ r.fence = s[i].fence /\ r.fence_fd = s[i].fence_fd
  BY <1>2, <1>4, Zenon DEF SlotType
<1>6. PICK u : u = [s EXCEPT ![i] = r]
  BY Zenon
<1>7. u \in [Slots -> SlotType] /\ u[i] = r /\ \A a \in Slots \ {i} : u[a] = s[a]
  BY <1>1, <1>5, <1>6, Zenon
<1>8. HasJob(r)
  BY <1>5, Zenon DEF HasJob
<1>9. SlotOk(i, u[i], t, j)
  BY <1>2, <1>3, <1>5, <1>7, Zenon DEF SlotOk
<1>10. ASSUME NEW k \in DOMAIN j, j[k].state = "pending"
       PROVE  u[j[k].slot].phase = "SUBMITTED" /\ u[j[k].slot].fence = k
  <2>1. j[k].slot \in Slots
    BY <1>1, JobsAre, Zenon
  <2>2. s[j[k].slot].phase = "SUBMITTED" /\ s[j[k].slot].fence = k
    BY <1>10, Zenon DEF SlotsOk
  <2>3. j[k].slot # i
    BY <2>2, <1>10, Zenon
  <2> QED  BY <2>1, <2>2, <2>3, <1>7, Zenon
<1>11. ASSUME NEW f \in Fds, t[f] > 0
       PROVE  \E a \in Slots : HasJob(u[a]) /\ u[a].fence_fd = f /\ u[a].fence = t[f]
  <2>1. PICK a \in Slots : HasJob(s[a]) /\ s[a].fence_fd = f /\ s[a].fence = t[f]
    BY <1>11, Zenon DEF SlotsOk
  <2> QED  BY <2>1, <1>5, <1>7, <1>8, Zenon
<1>12. SlotsOk(u, t, j)
  BY <1>1, <1>7, <1>9, <1>10, <1>11 DEF SlotsOk
<1> QED  BY <1>3, <1>4, <1>6, <1>12, Zenon

\* A descriptor that is not of a job is opened on something else, or closed.
LEMMA OtherFdKeeps ==
  ASSUME NEW s, NEW t, NEW j, SlotsOk(s, t, j),
         NEW f \in Fds, t[f] <= 0, NEW x \in Int, x <= 0
  PROVE  SlotsOk(s, [t EXCEPT ![f] = x], j)
<1>1. /\ s \in [Slots -> SlotType] /\ t \in [Fds -> Int] /\ j \in Seq(JobType)
      /\ \A a \in Slots : SlotOk(a, s[a], t, j)
  BY Zenon DEF SlotsOk
<1>2. PICK u : u = [t EXCEPT ![f] = x]
  BY Zenon
<1>3. u \in [Fds -> Int] /\ u[f] = x /\ \A g \in Fds \ {f} : u[g] = t[g]
  BY <1>1, <1>2, Zenon
<1>4. ASSUME NEW a \in Slots PROVE SlotOk(a, s[a], u, j)
  <2>1. SlotOk(a, s[a], t, j)
    BY <1>1, Zenon
  <2>2. ASSUME HasJob(s[a]) PROVE u[s[a].fence_fd] = t[s[a].fence_fd]
    <3>1. s[a].fence_fd \in Fds /\ s[a].fence \in DOMAIN j /\ t[s[a].fence_fd] = s[a].fence
      BY <2>1, <2>2, Zenon DEF SlotOk
    <3>2. t[s[a].fence_fd] > 0
      BY <3>1, <1>1, JobsAre, Zenon
    <3>3. s[a].fence_fd # f
      BY <3>2, <1>1
    <3> QED  BY <3>1, <3>3, <1>3, Zenon
  <2> QED  BY <2>1, <2>2, Zenon DEF SlotOk
<1>5. ASSUME NEW g \in Fds, u[g] > 0
      PROVE  \E a \in Slots : HasJob(s[a]) /\ s[a].fence_fd = g /\ s[a].fence = u[g]
  <2>1. u[g] = t[g]
    BY <1>3, <1>5
  <2> QED  BY <2>1, <1>5 DEF SlotsOk
<1>6. \A k \in DOMAIN j :
        j[k].state = "pending" => s[j[k].slot].phase = "SUBMITTED" /\ s[j[k].slot].fence = k
  BY Zenon DEF SlotsOk
<1>7. SlotsOk(s, u, j)
  BY <1>1, <1>3, <1>4, <1>5, <1>6, Zenon DEF SlotsOk
<1> QED  BY <1>2, <1>7, Zenon

\* A device that was just opened, or closed, has no jobs.
LEMMA NoJobsIsOk ==
  ASSUME NEW t \in [Fds -> Int], \A f \in Fds : t[f] <= 0
  PROVE  SlotsOk([i \in Slots |-> ZeroSlot], t, <<>>)
<1>1. ZeroSlot \in SlotType /\ ~ HasJob(ZeroSlot) /\ ZeroSlot.phase = "FREE"
  BY LibAssumption DEF ZeroSlot, SlotType, HasJob, NoJob, Fds
<1>2. PICK s : s = [i \in Slots |-> ZeroSlot]
  BY Zenon
<1>3. s \in [Slots -> SlotType] /\ \A i \in Slots : s[i] = ZeroSlot
  BY <1>1, <1>2, Zenon
<1>4. \A i \in Slots : SlotOk(i, s[i], t, <<>>)
  BY <1>1, <1>3, Zenon DEF SlotOk
<1>5. <<>> \in Seq(JobType) /\ DOMAIN <<>> = {}
  OBVIOUS
<1>6. \A f \in Fds : ~ (t[f] > 0)
  OBVIOUS
<1>7. SlotsOk(s, t, <<>>)
  BY <1>3, <1>4, <1>5, <1>6, Zenon DEF SlotsOk
<1> QED  BY <1>2, <1>7, Zenon

-----------------------------------------------------------------------------
(* The steps. *)

\* The tables t and u differ only in descriptors of jobs, closed or opened since.
SameButJobs(t, u) ==
  \A f \in Fds : u[f] # t[f] => t[f] >= 0 /\ (u[f] >= 0 \/ u[f] = Leaked)

\* Such tables agree about standard input, /dev/accel and its entries.
LEMMA SameSpecials ==
  ASSUME NEW t, NEW u, SameButJobs(t, u), NEW f \in Fds, NEW x \in {Stdin, Dir, Accel}
  PROVE  u[f] = x <=> t[f] = x
<1>1. CASE u[f] = t[f]
  BY <1>1, Zenon
<1>2. CASE u[f] # t[f]
  <2>1. t[f] >= 0 /\ (u[f] >= 0 \/ u[f] = Leaked)
    BY <1>2, Zenon DEF SameButJobs
  <2> QED  BY <2>1 DEF Stdin, Dir, Accel, Leaked
<1> QED  BY <1>1, <1>2, Zenon

\* A call on jobs keeps the descriptors of the device and of the search.
LEMMA TableKeeps ==
  ASSUME TableOk, SameButJobs(fd, fd'), UNCHANGED <<initialized, dev_fd, searchVars>>
  PROVE  TableOk'
<1>1. \A f \in Fds : \A x \in {Stdin, Dir, Accel} : fd'[f] = x <=> fd[f] = x
  BY SameSpecials, Zenon
<1>2. 0 \in Fds
  BY LibAssumption DEF Fds
<1>3. fd'[0] = Stdin
  BY <1>1, <1>2, Zenon DEF TableOk
<1>4. \A f \in Fds : fd'[f] = Dir <=> f = dir'
  BY <1>1, Zenon DEF TableOk, searchVars
<1>5. \A f \in Fds : fd'[f] = Accel <=> (initialized' /\ f = dev_fd') \/ f = entry'
  BY <1>1, Zenon DEF TableOk, searchVars
<1> QED  BY <1>3, <1>4, <1>5, Zenon DEF TableOk

\* What is left to show of a call on the jobs of an open device.
LEMMA CallKeeps ==
  ASSUME LibInv, UNCHANGED <<deviceVars, searchVars>>, initialized,
         ~ aborted', SlotsOk(slot, fd, jobs)', SameButJobs(fd, fd'), ExecuteOk'
  PROVE  LibInv'
<1>1. DeviceOk /\ TableOk /\ MapsOk
  BY Zenon DEF LibInv
<1>2. UNCHANGED <<initialized, dev_fd, maps, search, dir, entry, count>>
  BY Zenon DEF deviceVars, searchVars
<1>3. DeviceOk'
  BY <1>1, <1>2, Zenon DEF DeviceOk, Searching
<1>4. TableOk'
  BY <1>1, TableKeeps, Zenon DEF deviceVars
<1>5. MapsOk'
  BY <1>1, <1>2, Zenon DEF MapsOk
<1> QED  BY <1>2, <1>3, <1>4, <1>5, Zenon DEF LibInv

\* Closing the descriptors of slots leaves the others as they are.
LEMMA CloseFdsIs ==
  ASSUME SlotsOk(slot, fd, jobs), NEW S \in SUBSET Slots, \A i \in S : InUse(i)
  PROVE  SameButJobs(fd, CloseFds(S))
<1> SUFFICES ASSUME NEW f \in Fds, CloseFds(S)[f] # fd[f]
             PROVE  fd[f] >= 0 /\ CloseFds(S)[f] >= 0
  BY Zenon DEF SameButJobs
<1>1. CloseFds(S)[f] = (IF f \in FdsOf(S) THEN Closed ELSE fd[f])
  BY Zenon DEF CloseFds
<1>2. f \in FdsOf(S) /\ CloseFds(S)[f] = 0
  BY <1>1, Zenon DEF Closed
<1>3. PICK i \in S : HasJob(slot[i]) /\ fd[f] = slot[i].fence
  BY <1>2, FdsOfIs
<1>4. slot[i].fence \in Nat
  BY <1>3 DEF SlotsOk, SlotType
<1> QED  BY <1>2, <1>3, <1>4

\* strela_job_slot_release of every slot of S.
LEMMA ReleaseStep ==
  ASSUME SlotsOk(slot, fd, jobs), NEW S \in SUBSET Slots, Release(S), UNCHANGED jobs
  PROVE  /\ ~ aborted'
         /\ SlotsOk(slot, fd, jobs)'
         /\ SameButJobs(fd, fd')
<1>1. PICK taken \in SUBSET Slots : taken = {i \in S : InUse(i)}
  BY Zenon
<1>2. /\ \A i \in taken : InUse(i) /\ Finished(i)
      /\ fd' = CloseFds(taken) /\ aborted' = (BadCloses(taken) # {})
      /\ slot' = Released(taken)
  BY <1>1, Zenon DEF Release
<1>3. BadCloses(taken) = {} /\ SlotsOk(Released(taken), CloseFds(taken), jobs)
  BY <1>2, ReleaseKeeps, Zenon
<1>4. SameButJobs(fd, CloseFds(taken))
  BY <1>2, CloseFdsIs, Zenon
<1> QED  BY <1>2, <1>3, <1>4, Zenon

\* strela_job_free, strela_job_free_all and strela_dev_init of an open device.
LEMMA FreeKeeps ==
  ASSUME LibInv, NEW S \in SUBSET Slots, Release(S), initialized, executing = "no",
         UNCHANGED <<deviceVars, searchVars, compat, jobs, executing>>
  PROVE  LibInv'
<1>1. SlotsOk(slot, fd, jobs) /\ ExecuteOk
  BY Zenon DEF LibInv
<1>2. ~ aborted' /\ SlotsOk(slot, fd, jobs)' /\ SameButJobs(fd, fd')
  BY <1>1, ReleaseStep, Zenon
<1>3. ExecuteOk'
  BY <1>1, Zenon DEF ExecuteOk, searchVars
<1> QED  BY <1>2, <1>3, CallKeeps, Zenon

\* The slot that strela_job_config fills in has no job.
LEMMA ConfiguredIs ==
  /\ ConfiguredSlot \in SlotType /\ ~ HasJob(ConfiguredSlot)
  /\ ConfiguredSlot.fence_fd = NoFd
BY Zenon DEF ConfiguredSlot, FreeSlot, ZeroSlot, SlotType, HasJob, NoJob

\* strela_job_config
LEMMA JobConfigKeeps ==
  ASSUME LibInv, JobConfig, executing = "no", UNCHANGED searchVars
  PROVE  LibInv'
<1>1. SlotsOk(slot, fd, jobs) /\ ExecuteOk /\ ~ aborted
  BY Zenon DEF LibInv
<1>2. PICK i \in Slots : /\ IsFirst(i, FreeSlots({}))
                        /\ slot' = [slot EXCEPT ![i] = ConfiguredSlot]
  BY Zenon DEF JobConfig
<1>3. /\ initialized /\ UNCHANGED deviceVars
      /\ UNCHANGED <<compat, aborted, fd, jobs, executing>>
  BY Zenon DEF JobConfig, Ok, timeVars
<1>4. ~ HasJob(slot[i])
  BY <1>2, Zenon DEF IsFirst, FreeSlots, InUse, HasJob
<1>5. SlotsOk([slot EXCEPT ![i] = ConfiguredSlot], fd, jobs)
  BY <1>1, <1>4, ConfigureKeeps, ConfiguredIs, Zenon
<1>6. SlotsOk(slot, fd, jobs)' /\ SameButJobs(fd, fd')
  BY <1>2, <1>3, <1>5, Zenon DEF SameButJobs
<1>7. ExecuteOk'
  BY <1>1, <1>3, Zenon DEF ExecuteOk, searchVars
<1> QED  BY <1>1, <1>3, <1>6, <1>7, CallKeeps, Zenon

\* strela_config
LEMMA StrelaConfigKeeps ==
  ASSUME LibInv, StrelaConfig, executing = "no", UNCHANGED searchVars
  PROVE  LibInv'
<1>1. SlotsOk(slot, fd, jobs) /\ ExecuteOk /\ ~ aborted
  BY Zenon DEF LibInv
<1>2. initialized /\ UNCHANGED <<deviceVars, jobs, executing>>
  BY Zenon DEF StrelaConfig, timeVars
<1>3. CASE /\ ~ Ok /\ compat' = Invalid
           /\ UNCHANGED <<slot, aborted, fd>>
  <2>1. SlotsOk(slot, fd, jobs)' /\ SameButJobs(fd, fd')
    BY <1>1, <1>2, <1>3, Zenon DEF SameButJobs
  <2>2. ExecuteOk'
    BY <1>1, <1>2, <1>3, Zenon DEF ExecuteOk, searchVars
  <2> QED  BY <1>1, <1>2, <1>3, <2>1, <2>2, CallKeeps, Zenon
<1>4. CASE Ok
  <2>1. PICK old \in SUBSET Slots : old = IF compat = Invalid THEN {} ELSE {compat}
    BY <1>1, Zenon DEF ExecuteOk
  <2>2. PICK taken \in SUBSET Slots : taken = {i \in old : InUse(i)}
    BY Zenon
  <2>3. /\ \A i \in taken : InUse(i) /\ Finished(i)
        /\ fd' = CloseFds(taken) /\ aborted' = (BadCloses(taken) # {})
        /\ \/ /\ IsFirst(compat', FreeSlots(old))
              /\ slot' = [Released(taken) EXCEPT ![compat'] = ConfiguredSlot]
           \/ slot' = Released(taken) /\ compat' = Invalid
    BY <1>4, <2>1, <2>2, Zenon DEF StrelaConfig
  <2>4. BadCloses(taken) = {} /\ SlotsOk(Released(taken), CloseFds(taken), jobs)
    BY <1>1, <2>3, ReleaseKeeps, Zenon
  <2>5. SameButJobs(fd, fd')
    BY <1>1, <2>3, CloseFdsIs, Zenon
  <2>6. CASE slot' = Released(taken) /\ compat' = Invalid
    <3>1. SlotsOk(slot, fd, jobs)' /\ ~ aborted'
      BY <1>2, <2>3, <2>4, <2>6, Zenon
    <3>2. ExecuteOk'
      BY <1>1, <1>2, <2>6, Zenon DEF ExecuteOk, searchVars
    <3> QED  BY <1>2, <2>5, <3>1, <3>2, CallKeeps, Zenon
  <2>7. CASE /\ IsFirst(compat', FreeSlots(old))
             /\ slot' = [Released(taken) EXCEPT ![compat'] = ConfiguredSlot]
    <3>1. PICK c \in Slots : c = compat' /\ (~ InUse(c) \/ c \in old)
      BY <2>7, Zenon DEF IsFirst, FreeSlots
    <3>2. Released(taken)[c] = IF c \in taken THEN FreeSlot ELSE slot[c]
      BY <2>4, Zenon DEF Released
    <3>3. ~ HasJob(Released(taken)[c])
      <4>1. CASE c \in taken
        BY <4>1, <3>2, Zenon DEF FreeSlot, ZeroSlot, HasJob
      <4>2. CASE c \notin taken
        BY <4>2, <3>1, <3>2, <2>2, Zenon DEF InUse, HasJob
      <4> QED  BY <4>1, <4>2, Zenon
    <3>4. SlotsOk([Released(taken) EXCEPT ![c] = ConfiguredSlot], CloseFds(taken), jobs)
      BY <2>4, <3>3, ConfigureKeeps, ConfiguredIs, Zenon
    <3>5. SlotsOk(slot, fd, jobs)' /\ ~ aborted'
      BY <1>2, <2>3, <2>4, <2>7, <3>1, <3>4, Zenon
    <3>6. ExecuteOk'
      BY <1>1, <1>2, <3>1, Zenon DEF ExecuteOk, searchVars
    <3> QED  BY <1>2, <2>5, <3>5, <3>6, CallKeeps, Zenon
  <2> QED  BY <2>3, <2>6, <2>7, Zenon
<1> QED  BY <1>3, <1>4, Zenon DEF StrelaConfig

\* strela_job_submit, when the export of the fence does not fail.
LEMMA SubmitStep ==
  ASSUME SlotsOk(slot, fd, jobs), ~ ExportMayFail, NEW i \in Slots, Submit(i)
  PROVE  /\ ~ aborted'
         /\ SlotsOk(slot, fd, jobs)'
         /\ SameButJobs(fd, fd')
         /\ slot'[i].phase = "SUBMITTED"
<1>1. /\ slot[i].phase \in {"CONFIGURED", "DONE"}
      /\ jobs' = Append(jobs, [slot |-> i, state |-> "pending"])
      /\ aborted' = (BadCloses(Replaced(i)) # {})
  BY Zenon DEF Submit
<1>2. PICK f \in Fds :
        /\ IsNewFd(f, CloseFds(Replaced(i)))
        /\ slot' = [slot EXCEPT ![i].phase = "SUBMITTED", ![i].fence = Len(jobs) + 1,
                                ![i].fence_fd = f]
        /\ fd' = [CloseFds(Replaced(i)) EXCEPT ![f] = Len(jobs) + 1]
  BY Zenon DEF Submit
<1>3. slot \in [Slots -> SlotType] /\ fd \in [Fds -> Int] /\ jobs \in Seq(JobType)
  BY Zenon DEF SlotsOk
<1>4. PICK k \in Nat : k = Len(jobs) + 1 /\ k > 0
  BY <1>3
<1>5. PICK r : r = [slot[i] EXCEPT !.phase = "SUBMITTED", !.fence = k, !.fence_fd = f]
  BY Zenon
<1>6. r \in SlotType /\ r.phase = "SUBMITTED" /\ r.fence = k /\ r.fence_fd = f
  BY <1>3, <1>5, Zenon DEF SlotType
<1>7. slot' = [slot EXCEPT ![i] = r]
  BY <1>2, <1>4, <1>5, Zenon
<1>8. PICK t : t = CloseFds(Replaced(i))
  BY Zenon
<1>9. /\ t[f] = Closed
      /\ fd' = [t EXCEPT ![f] = k]
  BY <1>2, <1>4, <1>8, Zenon DEF IsNewFd, IsFirst
<1>10. Replaced(i) \in SUBSET Slots /\ \A a \in Replaced(i) : InUse(a) /\ Finished(a)
  BY Zenon DEF Replaced, InUse, Finished
<1>11. BadCloses(Replaced(i)) = {} /\ SlotsOk(Released(Replaced(i)), t, jobs)
  BY <1>8, <1>10, ReleaseKeeps, Zenon
<1>12. SameButJobs(fd, t)
  BY <1>8, <1>10, CloseFdsIs, Zenon
<1>13. PICK s : s = Released(Replaced(i))
  BY Zenon
<1>14. \A a \in Slots : s[a] = IF a \in Replaced(i) THEN FreeSlot ELSE slot[a]
  BY <1>11, <1>13, Zenon DEF Released
<1>15. ~ HasJob(s[i])
  BY <1>1, <1>14, Zenon DEF Replaced, HasJob, FreeSlot, ZeroSlot
<1>16. [s EXCEPT ![i] = r] = [slot EXCEPT ![i] = r]
  <2>1. s \in [Slots -> SlotType]
    BY <1>11, <1>13, Zenon DEF SlotsOk
  <2>2. \A a \in Slots \ {i} : s[a] = slot[a]
    BY <1>14, Zenon DEF Replaced
  <2> QED  BY <2>1, <2>2, <1>3, Zenon
<1>17. SlotsOk([s EXCEPT ![i] = r], [t EXCEPT ![f] = Len(jobs) + 1],
               Append(jobs, [slot |-> i, state |-> "pending"]))
  BY <1>4, <1>6, <1>9, <1>11, <1>13, <1>15, SubmitKeeps, Zenon
<1>18. SlotsOk(slot, fd, jobs)'
  BY <1>1, <1>4, <1>7, <1>9, <1>16, <1>17, Zenon
<1>19. SameButJobs(fd, fd')
  <2> SUFFICES ASSUME NEW g \in Fds, fd'[g] # fd[g]
               PROVE  fd[g] >= 0 /\ (fd'[g] >= 0 \/ fd'[g] = Leaked)
    BY Zenon DEF SameButJobs
  <2>1. t \in [Fds -> Int]
    BY <1>11, Zenon DEF SlotsOk
  <2>2. t[g] # fd[g] => fd[g] >= 0 /\ (t[g] >= 0 \/ t[g] = Leaked)
    BY <1>12, Zenon DEF SameButJobs
  <2>3. CASE g = f
    <3>1. fd'[g] = k /\ t[g] = 0
      BY <2>1, <2>3, <1>9, Zenon DEF Closed
    <3> QED  BY <2>2, <3>1, <1>4
  <2>4. CASE g # f
    BY <2>1, <2>2, <2>4, <1>9, Zenon
  <2> QED  BY <2>3, <2>4, Zenon
<1>20. slot'[i].phase = "SUBMITTED"
  BY <1>3, <1>6, <1>7, Zenon
<1> QED  BY <1>1, <1>11, <1>18, <1>19, <1>20, Zenon

\* strela_job_submit, alone and in strela_execute.
LEMMA SubmitCallKeeps ==
  ASSUME LibInv, ~ ExportMayFail, NEW i \in Slots, Submit(i), executing = "no",
         UNCHANGED searchVars,
         executing' # "no" => i = compat /\ search = "no"
  PROVE  LibInv'
<1>1. SlotsOk(slot, fd, jobs) /\ ExecuteOk
  BY Zenon DEF LibInv
<1>2. initialized /\ UNCHANGED <<deviceVars, compat>>
  BY Zenon DEF Submit, Ok
<1>3. /\ ~ aborted' /\ SlotsOk(slot, fd, jobs)' /\ SameButJobs(fd, fd')
      /\ slot'[i].phase = "SUBMITTED"
  BY <1>1, SubmitStep, Zenon
<1>4. ExecuteOk'
  BY <1>1, <1>2, <1>3, Zenon DEF ExecuteOk, searchVars, deviceVars
<1> QED  BY <1>2, <1>3, <1>4, CallKeeps, Zenon

\* strela_job_update of a job that was submitted.
LEMMA UpdateStep ==
  ASSUME SlotsOk(slot, fd, jobs), NEW i \in Slots, slot[i].phase = "SUBMITTED", Update(i),
         UNCHANGED <<fd, jobs>>
  PROVE  SlotsOk(slot, fd, jobs)'
<1>1. SlotOk(i, slot[i], fd, jobs) /\ HasJob(slot[i])
  BY Zenon DEF SlotsOk, HasJob
<1>2. /\ slot[i].fence_fd \in Fds /\ slot[i].fence \in DOMAIN jobs
      /\ fd[slot[i].fence_fd] = slot[i].fence
  BY <1>1, Zenon DEF SlotOk
<1>3. jobs[slot[i].fence].state # "pending"
  BY <1>2, Zenon DEF Update, Polled, Ended
<1>4. slot' = [slot EXCEPT ![i].phase = "DONE", ![i].status = jobs[slot[i].fence].state]
  BY <1>2, Zenon DEF Update, Status
<1>5. SlotsOk([slot EXCEPT ![i].phase = "DONE", ![i].status = jobs[slot[i].fence].state],
              fd, jobs)
  BY <1>3, UpdateKeeps, Zenon
<1> QED  BY <1>4, <1>5, Zenon

\* strela_job_poll and strela_job_wait.
LEMMA JobUpdateKeeps ==
  ASSUME LibInv, NEW i \in Slots, JobUpdate(i), executing = "no", UNCHANGED searchVars
  PROVE  LibInv'
<1>1. SlotsOk(slot, fd, jobs) /\ ExecuteOk /\ ~ aborted
  BY Zenon DEF LibInv
<1>2. /\ initialized /\ slot[i].phase = "SUBMITTED" /\ Update(i)
      /\ UNCHANGED <<deviceVars, compat, aborted, fd, jobs, executing>>
  BY Zenon DEF JobUpdate, Ok, timeVars
<1>3. SlotsOk(slot, fd, jobs)' /\ SameButJobs(fd, fd')
  BY <1>1, <1>2, UpdateStep, Zenon DEF SameButJobs
<1>4. ExecuteOk'
  BY <1>1, <1>2, Zenon DEF ExecuteOk, searchVars
<1> QED  BY <1>1, <1>2, <1>3, <1>4, CallKeeps, Zenon

\* strela_execute returns.
LEMMA ExecuteReturnsKeeps ==
  ASSUME LibInv, ExecuteReturns, UNCHANGED searchVars
  PROVE  LibInv'
<1>1. SlotsOk(slot, fd, jobs) /\ ExecuteOk /\ ~ aborted
  BY Zenon DEF LibInv
<1>2. /\ initialized /\ compat \in Slots /\ slot[compat].phase = "SUBMITTED"
      /\ search = "no"
      /\ UNCHANGED <<deviceVars, compat, aborted, fd, jobs>>
      /\ executing' \in {"no", "pending", "interrupted"}
      /\ Update(compat) \/ UNCHANGED slot
  BY <1>1, Zenon DEF ExecuteReturns, ExecuteOk
<1>3. SlotsOk(slot, fd, jobs)'
  <2>1. CASE Update(compat)
    BY <2>1, <1>1, <1>2, UpdateStep, Zenon
  <2>2. CASE UNCHANGED slot
    BY <2>2, <1>1, <1>2, Zenon
  <2> QED  BY <1>2, <2>1, <2>2, Zenon
<1>4. SameButJobs(fd, fd')
  BY <1>2, Zenon DEF SameButJobs
<1>5. ExecuteOk'
  BY <1>1, <1>2, Zenon DEF ExecuteOk, searchVars, deviceVars
<1> QED  BY <1>1, <1>2, <1>3, <1>4, <1>5, CallKeeps, Zenon

\* Without jobs no descriptor is that of one.
LEMMA NoJobNoFd ==
  ASSUME NEW s, NEW t, NEW j, SlotsOk(s, t, j), NEW f \in Fds,
         j = <<>> \/ \A i \in Slots : ~ HasJob(s[i])
  PROVE  t[f] \in Int /\ t[f] <= 0
<1>1. t[f] \in Int
  BY Zenon DEF SlotsOk
<1> SUFFICES ASSUME t[f] > 0 PROVE FALSE
  BY <1>1
<1>2. PICK i \in Slots : HasJob(s[i])
  BY Zenon DEF SlotsOk
<1>3. SlotOk(i, s[i], t, j)
  BY Zenon DEF SlotsOk
<1>4. s[i].fence \in DOMAIN j
  BY <1>2, <1>3, Zenon DEF SlotOk
<1> QED  BY <1>2, <1>4

\* The device is closed: the table is t but for its descriptor, and no job is left.
LEMMA CloseDeviceKeeps ==
  ASSUME LibInv, initialized, NEW t \in [Fds -> Int], SameButJobs(fd, t),
         \A f \in Fds : t[f] <= 0,
         Deinit(t, dev_fd),
         search = "no", executing = "no", UNCHANGED <<searchVars, executing>>, ~ aborted',
         initialized' = FALSE, dev_fd' = 0,
         slot' = [i \in Slots |-> ZeroSlot], compat' = Invalid, jobs' = <<>>
  PROVE  LibInv'
<1>1. DeviceOk /\ TableOk /\ MapsOk
  BY Zenon DEF LibInv
<1>2. /\ dev_fd \in Fds /\ dir = NoFd /\ entry = NoFd
      /\ UNCHANGED <<search, dir, entry, count>>
  BY <1>1, Zenon DEF DeviceOk, Searching, searchVars
<1>3. /\ fd' \in [Fds -> Int] /\ fd'[dev_fd] = 0
      /\ \A f \in Fds \ {dev_fd} : fd'[f] = t[f]
  BY <1>2 DEF Deinit, Closed
<1>4. \A f \in Fds : fd'[f] <= 0
  BY <1>3
<1>5. SlotsOk(slot, fd, jobs)'
  BY <1>3, <1>4, NoJobsIsOk, Zenon
<1>6. \A f \in Fds : \A x \in {Stdin, Dir, Accel} : t[f] = x <=> fd[f] = x
  BY SameSpecials, Zenon
<1>7. 0 \in Fds /\ NoFd \notin Fds
  BY LibAssumption DEF Fds, NoFd
<1>8. fd[0] = Stdin /\ fd[dev_fd] = Accel
  BY <1>1, <1>2, Zenon DEF TableOk
<1>9. fd'[0] = Stdin
  BY <1>3, <1>6, <1>7, <1>8 DEF Stdin, Accel
<1>10. ASSUME NEW f \in Fds PROVE fd'[f] # Dir /\ fd'[f] # Accel
  <2>1. CASE f = dev_fd
    BY <2>1, <1>3 DEF Dir, Accel
  <2>2. CASE f # dev_fd
    BY <2>2, <1>1, <1>2, <1>3, <1>6, <1>7, Zenon DEF TableOk
  <2> QED  BY <2>1, <2>2, Zenon
<1>11. TableOk'
  BY <1>2, <1>7, <1>9, <1>10, Zenon DEF TableOk
<1>12. DeviceOk'
  BY <1>2, <1>7, Zenon DEF DeviceOk, Searching, InitSteps
<1>13. MapsOk'
  BY <1>1, <1>2, Zenon DEF MapsOk, Deinit
<1>14. ExecuteOk'
  BY <1>2, Zenon DEF ExecuteOk
<1> QED  BY <1>5, <1>11, <1>12, <1>13, <1>14, Zenon DEF LibInv

\* strela_dev_deinit
LEMMA DevDeinitKeeps ==
  ASSUME LibInv, DevDeinit, search = "no", executing = "no", UNCHANGED searchVars
  PROVE  LibInv'
<1>1. /\ SlotsOk(slot, fd, jobs) /\ ~ aborted /\ DeviceOk /\ TableOk /\ MapsOk
      /\ ~ initialized => jobs = <<>>
  BY Zenon DEF LibInv
<1>2. fd \in [Fds -> Int] /\ slot \in [Slots -> SlotType]
  BY <1>1, Zenon DEF SlotsOk
<1>3. /\ initialized' = FALSE /\ dev_fd' = 0
      /\ slot' = [i \in Slots |-> ZeroSlot] /\ compat' = Invalid /\ jobs' = <<>>
      /\ UNCHANGED executing
  BY Zenon DEF DevDeinit
<1>4. CASE ~ initialized /\ UNCHANGED <<fd, maps, aborted>>
  <2>1. \A f \in Fds : fd[f] <= 0
    BY <1>1, <1>4, NoJobNoFd, Zenon
  <2>2. SlotsOk(slot, fd, jobs)'
    BY <1>2, <1>3, <1>4, <2>1, NoJobsIsOk, Zenon
  <2>3. UNCHANGED <<search, dir, entry, count>>
    BY Zenon DEF searchVars
  <2>4. 0 \in Fds
    BY LibAssumption DEF Fds
  <2>5. DeviceOk'
    BY <1>1, <1>3, <1>4, <2>3, <2>4, Zenon DEF DeviceOk, Searching
  <2>6. TableOk'
    BY <1>1, <1>3, <1>4, <2>3, Zenon DEF TableOk
  <2>7. MapsOk' /\ ExecuteOk'
    BY <1>1, <1>3, <1>4, <2>3, Zenon DEF MapsOk, ExecuteOk
  <2> QED  BY <1>1, <1>3, <1>4, <2>2, <2>5, <2>6, <2>7, Zenon DEF LibInv
<1>5. CASE Ok /\ initialized
  <2>1. PICK taken \in SUBSET Slots : taken = {i \in Slots : InUse(i)}
    BY Zenon
  <2>2. /\ \A i \in taken : InUse(i) /\ Finished(i)
        /\ Deinit(CloseFds(taken), dev_fd) /\ aborted' = (BadCloses(taken) # {})
    BY <1>5, <2>1, Zenon DEF DevDeinit
  <2>3. BadCloses(taken) = {} /\ SlotsOk(Released(taken), CloseFds(taken), jobs)
    BY <1>1, <2>2, ReleaseKeeps, Zenon
  <2>4. SameButJobs(fd, CloseFds(taken))
    BY <1>1, <2>2, CloseFdsIs, Zenon
  <2>5. ASSUME NEW i \in Slots PROVE ~ HasJob(Released(taken)[i])
    <3>1. Released(taken)[i] = IF i \in taken THEN FreeSlot ELSE slot[i]
      BY <2>3, Zenon DEF Released
    <3>2. CASE i \in taken
      BY <3>1, <3>2, Zenon DEF FreeSlot, ZeroSlot, HasJob
    <3>3. CASE i \notin taken
      BY <2>1, <3>1, <3>3, Zenon DEF InUse, HasJob
    <3> QED  BY <3>2, <3>3, Zenon
  <2>6. PICK t : t = CloseFds(taken)
    BY Zenon
  <2>7. t \in [Fds -> Int] /\ \A f \in Fds : t[f] <= 0
    <3>1. t \in [Fds -> Int]
      BY <2>3, <2>6, Zenon DEF SlotsOk
    <3> QED  BY <2>3, <2>5, <2>6, <3>1, NoJobNoFd, Zenon
  <2> QED  BY <1>3, <1>5, <2>2, <2>3, <2>4, <2>6, <2>7, CloseDeviceKeeps, Zenon
<1>6. CASE initialized /\ ~ Ok
  <2>1. PICK t : t = [f \in Fds |-> IF fd[f] \in DOMAIN jobs THEN Leaked ELSE fd[f]]
    BY Zenon
  <2>2. Deinit(t, dev_fd) /\ UNCHANGED aborted
    BY <1>6, <2>1, Zenon DEF DevDeinit
  <2>3. /\ t \in [Fds -> Int]
        /\ \A f \in Fds : t[f] = IF fd[f] \in DOMAIN jobs THEN Leaked ELSE fd[f]
    BY <1>2, <2>1 DEF Leaked
  <2>4. ASSUME NEW f \in Fds PROVE fd[f] \in DOMAIN jobs <=> fd[f] > 0
    <3>1. fd[f] \in DOMAIN jobs => fd[f] > 0
      BY <1>1, JobsAre, Zenon DEF SlotsOk
    <3>2. ASSUME fd[f] > 0 PROVE fd[f] \in DOMAIN jobs
      <4>1. PICK i \in Slots : HasJob(slot[i]) /\ slot[i].fence = fd[f]
        BY <1>1, <3>2, Zenon DEF SlotsOk
      <4>2. SlotOk(i, slot[i], fd, jobs)
        BY <1>1, Zenon DEF SlotsOk
      <4> QED  BY <4>1, <4>2, Zenon DEF SlotOk
    <3> QED  BY <3>1, <3>2, Zenon
  <2>5. \A f \in Fds : t[f] <= 0
    BY <1>2, <2>3, <2>4 DEF Leaked
  <2>6. SameButJobs(fd, t)
    BY <1>2, <2>3, <2>4 DEF SameButJobs
  <2> QED  BY <1>1, <1>3, <1>6, <2>2, <2>3, <2>5, <2>6, CloseDeviceKeeps, Zenon
<1> QED  BY <1>4, <1>5, <1>6, Zenon DEF DevDeinit, Ok

\* Nothing changes but errors and time.
LEMMA IdleKeeps ==
  ASSUME LibInv, UNCHANGED <<deviceVars, jobVars, fd, executing, searchVars>>
  PROVE  LibInv'
<1>1. UNCHANGED <<initialized, dev_fd, maps, slot, compat, aborted, jobs, fd, executing,
                  search, dir, entry, count>>
  BY Zenon DEF deviceVars, jobVars, searchVars
<1>2. SlotsOk(slot, fd, jobs)'
  BY <1>1, Zenon DEF LibInv
<1>3. DeviceOk' /\ MapsOk'
  BY <1>1, Zenon DEF LibInv, DeviceOk, MapsOk, Searching
<1>4. TableOk'
  BY <1>1, Zenon DEF LibInv, TableOk
<1>5. ExecuteOk'
  BY <1>1, Zenon DEF LibInv, ExecuteOk
<1> QED  BY <1>1, <1>2, <1>3, <1>4, <1>5, Zenon DEF LibInv

\* The driver ends a job.
LEMMA JobEndsKeeps ==
  ASSUME LibInv, JobEnds, UNCHANGED searchVars
  PROVE  LibInv'
<1>1. /\ SlotsOk(slot, fd, jobs) /\ ExecuteOk /\ ~ aborted
      /\ ~ initialized => jobs = <<>>
  BY Zenon DEF LibInv
<1>3. UNCHANGED <<deviceVars, slot, compat, aborted, fd, executing>>
  BY Zenon DEF JobEnds
<1> SUFFICES ASSUME \E k \in DOMAIN jobs, x \in {"ok", "failed"} :
                      ~ Ended(k) /\ jobs' = [jobs EXCEPT ![k].state = x]
             PROVE  LibInv'
  <2>1. CASE UNCHANGED jobs
    BY <1>3, <2>1, IdleKeeps, Zenon DEF jobVars
  <2> QED  BY <2>1, Zenon DEF JobEnds
<1>2. PICK k \in DOMAIN jobs, x \in {"ok", "failed"} :
        ~ Ended(k) /\ jobs' = [jobs EXCEPT ![k].state = x]
  BY Zenon
<1>4. initialized
  BY <1>1, <1>2
<1>5. SlotsOk(slot, fd, jobs)'
  BY <1>1, <1>2, <1>3, EndKeeps, Zenon DEF Ended
<1>6. SameButJobs(fd, fd')
  BY <1>3, Zenon DEF SameButJobs
<1>7. ExecuteOk'
  BY <1>1, <1>3, Zenon DEF ExecuteOk, searchVars, deviceVars
<1> QED  BY <1>1, <1>3, <1>4, <1>5, <1>6, <1>7, CallKeeps, Zenon

-----------------------------------------------------------------------------
(* The search. *)

\* A descriptor of the search is opened on x, or closed: the jobs stay as they are.
LEMMA SearchTable ==
  ASSUME SlotsOk(slot, fd, jobs), NEW f \in Fds, fd[f] <= 0,
         NEW x \in {Closed, Accel, Dir}, fd' = [fd EXCEPT ![f] = x], UNCHANGED <<slot, jobs>>
  PROVE  /\ SlotsOk(slot, fd, jobs)'
         /\ fd'[f] = x /\ \A g \in Fds \ {f} : fd'[g] = fd[g]
<1>1. x \in Int /\ x <= 0
  BY DEF Closed, Accel, Dir
<1>2. SlotsOk(slot, [fd EXCEPT ![f] = x], jobs)
  BY <1>1, OtherFdKeeps, Zenon
<1>3. fd \in [Fds -> Int]
  BY Zenon DEF SlotsOk
<1> QED  BY <1>2, <1>3, Zenon

\* The constants that stand for what a descriptor is open on differ.
LEMMA Specials ==
  /\ Closed # Stdin /\ Closed # Accel /\ Closed # Dir
  /\ Stdin # Accel /\ Stdin # Dir /\ Accel # Dir
  /\ Closed <= 0 /\ Accel <= 0 /\ Dir <= 0
  /\ 0 \in Fds /\ NoFd \notin Fds
BY LibAssumption DEF Closed, Stdin, Accel, Dir, Fds, NoFd

\* What strela_dev_init acquires, and in which order.
LEMMA InitStepsAre ==
  /\ DOMAIN InitSteps = {"kernels_handle", "kernels", "tensors_handle", "tensors"}
  /\ InitSteps["kernels_handle"] = "kernels" /\ InitSteps["kernels"] = "tensors_handle"
  /\ InitSteps["tensors_handle"] = "tensors" /\ InitSteps["tensors"] = "no"
BY Zenon DEF InitSteps

\* During the search the jobs and the device are left alone.
LEMMA SearchKeeps ==
  ASSUME LibInv, executing = "no", UNCHANGED <<initialized, jobVars, timeVars>>,
         SlotsOk(slot, fd, jobs)', DeviceOk', TableOk', MapsOk'
  PROVE  LibInv'
<1>1. UNCHANGED <<initialized, slot, compat, aborted, jobs, executing>>
  BY Zenon DEF jobVars, timeVars
<1>2. ExecuteOk'
  BY <1>1, Zenon DEF LibInv, ExecuteOk
<1> QED  BY <1>1, <1>2 DEF LibInv

\* accel_iter_make
LEMMA OpenDirKeeps ==
  ASSUME LibInv, NEW call \in {"count", "init"}, OpenDir(call),
         executing = "no", search = "no", call = "init" => ~ initialized
  PROVE  LibInv'
<1>1. SlotsOk(slot, fd, jobs) /\ DeviceOk /\ TableOk /\ MapsOk
  BY Zenon DEF LibInv
<1>2. PICK f \in Fds : fd[f] = Closed /\ fd' = [fd EXCEPT ![f] = Dir] /\ dir' = f
  BY Zenon DEF OpenDir, IsNewFd, IsFirst
<1>3. /\ search' = call
      /\ UNCHANGED <<initialized, dev_fd, maps, slot, jobs, entry>>
      /\ UNCHANGED <<jobVars, timeVars>>
  BY Zenon DEF OpenDir, deviceVars, jobVars
<1>4. dir = NoFd /\ entry = NoFd
  BY <1>1, Zenon DEF DeviceOk, Searching
<1>5. SlotsOk(slot, fd, jobs)' /\ fd'[f] = Dir /\ \A g \in Fds \ {f} : fd'[g] = fd[g]
  BY <1>1, <1>2, <1>3, SearchTable, Specials, Zenon
<1>6. TableOk'
  BY <1>1, <1>2, <1>3, <1>4, <1>5, Specials, Zenon DEF TableOk
<1>7. DeviceOk'
  BY <1>1, <1>2, <1>3, <1>4, Specials, InitStepsAre, Zenon
     DEF DeviceOk, Searching
<1>8. MapsOk'
  BY <1>1, <1>3, Zenon DEF MapsOk
<1> QED  BY <1>3, <1>5, <1>6, <1>7, <1>8, SearchKeeps, Zenon

\* accel_openat
LEMMA OpenEntryKeeps ==
  ASSUME LibInv, OpenEntry
  PROVE  LibInv'
<1>1. SlotsOk(slot, fd, jobs) /\ DeviceOk /\ TableOk /\ MapsOk /\ ExecuteOk
  BY Zenon DEF LibInv
<1>2. PICK f \in Fds : fd[f] = Closed /\ fd' = [fd EXCEPT ![f] = Accel] /\ entry' = f
  BY Zenon DEF OpenEntry, IsNewFd, IsFirst
<1>3. /\ Searching /\ entry = NoFd
      /\ UNCHANGED <<initialized, dev_fd, maps, slot, jobs, search, dir>>
      /\ UNCHANGED <<jobVars, timeVars>>
  BY Zenon DEF OpenEntry, deviceVars, jobVars
<1>4. search \in {"count", "init"} /\ dev_fd \in Fds /\ executing = "no"
  BY <1>1, <1>3, Zenon DEF DeviceOk, Searching, ExecuteOk
<1>5. SlotsOk(slot, fd, jobs)' /\ fd'[f] = Accel /\ \A g \in Fds \ {f} : fd'[g] = fd[g]
  BY <1>1, <1>2, <1>3, SearchTable, Specials, Zenon
<1>6. TableOk'
  BY <1>1, <1>2, <1>3, <1>5, Specials, Zenon DEF TableOk
<1>7. initialized => dev_fd # f
  BY <1>1, <1>2, <1>4, Specials, Zenon DEF TableOk
<1>8. DeviceOk'
  BY <1>1, <1>2, <1>3, <1>4, <1>7, InitStepsAre, Zenon DEF DeviceOk, Searching
<1>9. MapsOk'
  BY <1>1, <1>3, Zenon DEF MapsOk
<1> QED  BY <1>3, <1>4, <1>5, <1>6, <1>8, <1>9, SearchKeeps, Zenon

\* An entry is closed again.
LEMMA CloseEntryKeeps ==
  ASSUME LibInv, CloseEntry
  PROVE  LibInv'
<1>1. SlotsOk(slot, fd, jobs) /\ DeviceOk /\ TableOk /\ MapsOk /\ ExecuteOk
  BY Zenon DEF LibInv
<1>2. /\ Searching /\ entry # NoFd /\ fd' = [fd EXCEPT ![entry] = Closed] /\ entry' = NoFd
      /\ UNCHANGED <<initialized, dev_fd, maps, slot, jobs, search, dir>>
      /\ UNCHANGED <<jobVars, timeVars>>
  BY Zenon DEF CloseEntry, deviceVars, jobVars
<1>3. search \in {"count", "init"} /\ executing = "no" /\ entry \in Fds
  BY <1>1, <1>2, Zenon DEF DeviceOk, Searching, ExecuteOk
<1>4. fd[entry] = Accel
  BY <1>1, <1>3, Zenon DEF TableOk
<1>5. SlotsOk(slot, fd, jobs)' /\ fd'[entry] = Closed /\ \A g \in Fds \ {entry} : fd'[g] = fd[g]
  BY <1>1, <1>2, <1>3, <1>4, SearchTable, Specials, Zenon
<1>6. TableOk'
  <2>1. dev_fd \in Fds /\ (initialized => dev_fd # entry)
    BY <1>1, Zenon DEF DeviceOk
  <2> QED  BY <1>1, <1>2, <1>3, <1>4, <1>5, <2>1, Specials DEF TableOk
<1>7. DeviceOk'
  BY <1>1, <1>2, <1>3, Specials, InitStepsAre, Zenon DEF DeviceOk, Searching
<1>8. MapsOk'
  BY <1>1, <1>2, Zenon DEF MapsOk
<1> QED  BY <1>2, <1>3, <1>5, <1>6, <1>7, <1>8, SearchKeeps, Zenon

\* accel_iter_close
LEMMA CloseDirIs ==
  ASSUME SlotsOk(slot, fd, jobs), DeviceOk, TableOk, Searching, CloseDir,
         UNCHANGED <<initialized, dev_fd, slot, jobs, entry>>
  PROVE  SlotsOk(slot, fd, jobs)' /\ TableOk' /\ dir' = NoFd
<1>1. dir \in Fds /\ fd[dir] = Dir
  BY Zenon DEF DeviceOk, TableOk
<1>2. fd' = [fd EXCEPT ![dir] = Closed] /\ dir' = NoFd
  BY Zenon DEF CloseDir
<1>3. SlotsOk(slot, fd, jobs)' /\ fd'[dir] = Closed /\ \A g \in Fds \ {dir} : fd'[g] = fd[g]
  BY <1>1, <1>2, SearchTable, Specials, Zenon
<1>4. TableOk'
  BY <1>1, <1>2, <1>3, Specials DEF TableOk
<1> QED  BY <1>2, <1>3, <1>4, Zenon

\* The device is found.
LEMMA FoundEntryKeeps ==
  ASSUME LibInv, FoundEntry
  PROVE  LibInv'
<1>1. SlotsOk(slot, fd, jobs) /\ DeviceOk /\ TableOk /\ MapsOk /\ ExecuteOk
  BY Zenon DEF LibInv
<1>2. /\ entry # NoFd /\ search = "init" /\ search' = "kernels_handle" /\ CloseDir
      /\ UNCHANGED <<initialized, dev_fd, maps, slot, jobs, entry>>
      /\ UNCHANGED <<jobVars, timeVars>>
  BY Zenon DEF FoundEntry, Sought, deviceVars, jobVars
<1>3. executing = "no" /\ ~ initialized
  BY <1>1, <1>2, Zenon DEF DeviceOk, ExecuteOk
<1>4. SlotsOk(slot, fd, jobs)' /\ TableOk' /\ dir' = NoFd
  BY <1>1, <1>2, CloseDirIs, Zenon DEF Searching
<1>5. DeviceOk'
  BY <1>1, <1>2, <1>3, <1>4, InitStepsAre, Zenon DEF DeviceOk, Searching
<1>6. MapsOk'
  BY <1>1, <1>2, <1>3, Zenon DEF MapsOk
<1> QED  BY <1>2, <1>3, <1>4, <1>5, <1>6, SearchKeeps, Zenon

\* No other entry is there.
LEMMA EndOfEntriesKeeps ==
  ASSUME LibInv, EndOfEntries
  PROVE  LibInv'
<1>1. SlotsOk(slot, fd, jobs) /\ DeviceOk /\ TableOk /\ MapsOk /\ ExecuteOk
  BY Zenon DEF LibInv
<1>2. /\ entry = NoFd /\ Searching /\ search' = "no" /\ CloseDir
      /\ UNCHANGED <<initialized, dev_fd, maps, slot, jobs, entry>>
      /\ UNCHANGED <<jobVars, timeVars>>
  BY Zenon DEF EndOfEntries, deviceVars, jobVars
<1>3. executing = "no" /\ search \in {"count", "init"}
  BY <1>1, <1>2, Zenon DEF ExecuteOk, Searching
<1>4. SlotsOk(slot, fd, jobs)' /\ TableOk' /\ dir' = NoFd
  BY <1>1, <1>2, CloseDirIs, Zenon
<1>5. DeviceOk'
  BY <1>1, <1>2, <1>3, <1>4, InitStepsAre, Zenon DEF DeviceOk, Searching
<1>6. MapsOk'
  BY <1>1, <1>2, <1>3, Zenon DEF MapsOk
<1> QED  BY <1>2, <1>3, <1>4, <1>5, <1>6, SearchKeeps, Zenon

\* A step of the opening succeeds.
LEMMA AcquireKeeps ==
  ASSUME LibInv, Acquire
  PROVE  LibInv'
<1>1. /\ SlotsOk(slot, fd, jobs) /\ DeviceOk /\ TableOk /\ MapsOk /\ ExecuteOk
      /\ ~ aborted
      /\ ~ initialized => jobs = <<>>
  BY Zenon DEF LibInv
<1>2. /\ search \in DOMAIN InitSteps /\ search' = InitSteps[search]
      /\ maps' = maps \cup ({search} \cap Mappings)
      /\ UNCHANGED <<aborted, fd, jobs, dir, executing>>
  BY Zenon DEF Acquire, timeVars
<1>3. /\ ~ initialized /\ executing = "no" /\ entry \in Fds /\ dir = NoFd
      /\ search \in {"kernels_handle", "kernels", "tensors_handle", "tensors"}
  BY <1>1, <1>2, InitStepsAre, Zenon DEF DeviceOk, ExecuteOk, Searching
<1>4. jobs = <<>> /\ fd \in [Fds -> Int]
  BY <1>1, <1>3, Zenon DEF SlotsOk
<1>5. CASE search = "tensors"
  <2>1. /\ search' = "no" /\ initialized' = TRUE /\ dev_fd' = entry
        /\ slot' = [i \in Slots |-> ZeroSlot] /\ compat' = Invalid /\ entry' = NoFd
    BY <1>2, <1>5, InitStepsAre, Zenon DEF Acquire
  <2>2. \A f \in Fds : fd[f] <= 0
    BY <1>1, <1>4, NoJobNoFd, Zenon
  <2>3. SlotsOk(slot, fd, jobs)'
    BY <1>2, <1>4, <2>1, <2>2, NoJobsIsOk, Zenon
  <2>4. TableOk'
    BY <1>1, <1>2, <1>3, <2>1, Specials, Zenon DEF TableOk
  <2>5. DeviceOk'
    BY <1>2, <1>3, <2>1, Specials, InitStepsAre, Zenon DEF DeviceOk, Searching
  <2>6. MapsOk'
    BY <1>1, <1>2, <1>3, <1>5, <2>1, Zenon DEF MapsOk, Mappings
  <2>7. ExecuteOk'
    BY <1>2, <1>3, <2>1, Zenon DEF ExecuteOk
  <2> QED  BY <1>1, <1>2, <2>1, <2>3, <2>4, <2>5, <2>6, <2>7, Zenon DEF LibInv
<1>6. CASE search # "tensors"
  <2>1. /\ search' # "no" /\ search' \in DOMAIN InitSteps
        /\ search' \in {"kernels", "tensors_handle", "tensors"}
    BY <1>2, <1>3, <1>6, InitStepsAre, Zenon
  <2>2. UNCHANGED <<initialized, dev_fd, slot, compat, entry>>
    BY <2>1, Zenon DEF Acquire
  <2>3. SlotsOk(slot, fd, jobs)'
    BY <1>1, <1>2, <2>2, Zenon
  <2>4. TableOk'
    BY <1>1, <1>2, <2>2, Zenon DEF TableOk
  <2>5. DeviceOk'
    BY <1>1, <1>2, <1>3, <2>1, <2>2, InitStepsAre, Zenon
       DEF DeviceOk, Searching
  <2>6. MapsOk'
    BY <1>1, <1>2, <1>3, <1>6, <2>1, <2>2, InitStepsAre, Zenon
       DEF MapsOk, Mappings
  <2>7. ExecuteOk'
    BY <1>1, <1>2, <1>3, <2>2, Zenon DEF ExecuteOk
  <2> QED  BY <1>1, <1>2, <2>2, <2>3, <2>4, <2>5, <2>6, <2>7, Zenon DEF LibInv
<1> QED  BY <1>5, <1>6, Zenon

\* A step of the opening fails.
LEMMA AcquireFailsKeeps ==
  ASSUME LibInv, AcquireFails
  PROVE  LibInv'
<1>1. SlotsOk(slot, fd, jobs) /\ DeviceOk /\ TableOk /\ MapsOk /\ ExecuteOk
  BY Zenon DEF LibInv
<1>2. /\ search \in DOMAIN InitSteps /\ search' = "no" /\ entry' = NoFd
      /\ maps' = maps \ Mappings /\ fd' = [fd EXCEPT ![entry] = Closed]
      /\ UNCHANGED <<initialized, dev_fd, slot, jobs, dir>>
      /\ UNCHANGED <<jobVars, timeVars>>
  BY Zenon DEF AcquireFails, Deinit, jobVars
<1>3. ~ initialized /\ executing = "no" /\ entry \in Fds /\ dir = NoFd
  BY <1>1, <1>2, InitStepsAre, Zenon DEF DeviceOk, ExecuteOk, Searching
<1>4. fd[entry] = Accel
  BY <1>1, <1>3, Zenon DEF TableOk
<1>5. SlotsOk(slot, fd, jobs)' /\ fd'[entry] = Closed /\ \A g \in Fds \ {entry} : fd'[g] = fd[g]
  BY <1>1, <1>2, <1>3, <1>4, SearchTable, Specials, Zenon
<1>6. TableOk'
  BY <1>1, <1>2, <1>3, <1>4, <1>5, Specials, Zenon DEF TableOk
<1>7. DeviceOk'
  BY <1>1, <1>2, <1>3, InitStepsAre, Zenon DEF DeviceOk, Searching
<1>8. MapsOk'
  BY <1>1, <1>2, <1>3, Zenon DEF MapsOk, Mappings
<1> QED  BY <1>2, <1>3, <1>5, <1>6, <1>7, <1>8, SearchKeeps, Zenon

-----------------------------------------------------------------------------
(* The theorems. *)

\* A program that has not called the library yet.
LEMMA LibInitInv == LibInit => LibInv
<1> SUFFICES ASSUME LibInit PROVE LibInv
  BY Zenon
<1>1. /\ initialized = FALSE /\ aborted = FALSE /\ dev_fd = 0 /\ maps = {}
      /\ slot = [i \in Slots |-> ZeroSlot] /\ compat = Invalid /\ jobs = <<>>
      /\ executing = "no" /\ search = "no" /\ dir = NoFd /\ entry = NoFd
  BY Zenon DEF LibInit
<1>2. /\ fd \in [Fds -> Int] /\ \A f \in Fds : fd[f] <= 0
      /\ \A f \in Fds : fd[f] # Dir /\ fd[f] # Accel
      /\ fd[0] = Stdin
  BY Specials DEF LibInit, Stdin, Closed, Dir, Accel
<1>3. SlotsOk(slot, fd, jobs)
  BY <1>1, <1>2, NoJobsIsOk, Zenon
<1>4. DeviceOk
  BY <1>1, Specials, InitStepsAre, Zenon DEF DeviceOk, Searching
<1>5. TableOk
  BY <1>1, <1>2, Specials, Zenon DEF TableOk
<1>6. MapsOk /\ ExecuteOk
  BY <1>1, Zenon DEF MapsOk, ExecuteOk
<1> QED  BY <1>1, <1>3, <1>4, <1>5, <1>6, Zenon DEF LibInv

\* The program ends and another is begun.
LEMMA ProcessEndsKeeps ==
  ASSUME LibInv, ProcessEnds, UNCHANGED searchVars
  PROVE  LibInv'
<1>1. /\ initialized' = FALSE /\ dev_fd' = 0 /\ maps' = {}
      /\ slot' = [i \in Slots |-> ZeroSlot] /\ compat' = Invalid /\ jobs' = <<>>
      /\ executing' = "no" /\ aborted' = aborted
      /\ fd' = [f \in Fds |-> IF f = 0 THEN Stdin ELSE Closed]
  BY Zenon DEF ProcessEnds
<1>2. search' = "no" /\ dir' = NoFd /\ entry' = NoFd
  <2>1. search = "no"
    BY Zenon DEF ProcessEnds, LibInv, ExecuteOk
  <2> QED  BY <2>1, Zenon DEF LibInv, DeviceOk, Searching, searchVars
<1>3. /\ fd' \in [Fds -> Int] /\ \A f \in Fds : fd'[f] <= 0
      /\ \A f \in Fds : fd'[f] # Dir /\ fd'[f] # Accel
      /\ fd'[0] = Stdin
  BY <1>1, Specials DEF Stdin, Closed, Dir, Accel
<1>4. SlotsOk(slot, fd, jobs)'
  BY <1>1, <1>3, NoJobsIsOk, Zenon
<1>5. DeviceOk'
  BY <1>1, <1>2, Specials, InitStepsAre, Zenon DEF DeviceOk, Searching
<1>6. TableOk'
  BY <1>1, <1>2, <1>3, Specials, Zenon DEF TableOk
<1>7. MapsOk' /\ ExecuteOk'
  BY <1>1, <1>2, Zenon DEF MapsOk, ExecuteOk
<1> QED  BY <1>1, <1>4, <1>5, <1>6, <1>7, Zenon DEF LibInv

\* When strela_job_slot_finish has returned for every slot, the driver has no job.
LEMMA AllFinished ==
  ASSUME LibInv, \A i \in Slots : InUse(i) => Finished(i)
  PROVE  Unfinished = {}
<1> SUFFICES ASSUME NEW k \in DOMAIN jobs, jobs[k].state = "pending" PROVE FALSE
  BY Zenon DEF Unfinished, Ended
<1>1. SlotsOk(slot, fd, jobs)
  BY Zenon DEF LibInv
<1>2. PICK i \in Slots : i = jobs[k].slot
  BY <1>1, JobsAre, Zenon DEF SlotsOk
<1>3. slot[i].phase = "SUBMITTED" /\ slot[i].fence = k /\ SlotOk(i, slot[i], fd, jobs)
  BY <1>1, <1>2, Zenon DEF SlotsOk
<1>4. slot[i].fence_fd \in Fds /\ fd[slot[i].fence_fd] = k
  BY <1>3, Zenon DEF SlotOk, HasJob
<1>5. Finished(i) /\ slot[i].fence_fd # NoFd
  BY <1>3, <1>4, Specials, Zenon DEF InUse
<1> QED  BY <1>3, <1>4, <1>5, Zenon DEF Finished, Polled, Ended

\* strela_dev_deinit does not leave the device with a job unless an error stands.
LEMMA OrphanStep ==
  ASSUME LibInv, orphan # "ok", [LibNext]_libVars
  PROVE  orphan' # "ok"
<1>1. CASE UNCHANGED orphan
  BY <1>1, Zenon
<1>2. CASE JobEnds \/ Tick \/ ExecuteReturns \/ ProcessEnds
  BY <1>2, Zenon DEF JobEnds, Tick, ExecuteReturns, ProcessEnds
<1>3. CASE DevDeinit
  <2>1. orphan' = IF Unfinished = {} THEN orphan ELSE errnum
    BY <1>3, Zenon DEF DevDeinit
  <2>2. CASE ~ initialized
    BY <2>1, <2>2 DEF LibInv, Unfinished
  <2>3. CASE Ok
    <3>1. \A i \in Slots : InUse(i) => Finished(i)
      BY <1>3, <2>3, Zenon DEF DevDeinit, Ok
    <3> QED  BY <2>1, <3>1, AllFinished, Zenon
  <2> QED  BY <2>1, <2>2, <2>3, Zenon DEF Ok
<1>4. CASE JobCall
  <2>1. DevDeinit \/ UNCHANGED orphan
    BY <1>4, Zenon DEF JobCall, JobConfig, FailedCall, ResetErr, JobFreeAll,
       StrelaConfig, Execute, DevReinit, JobFree, JobSubmit, JobUpdate, timeVars
  <2> QED  BY <1>1, <1>3, <2>1, Zenon
<1>5. CASE \/ UNCHANGED libVars \/ DevCount \/ DevInit \/ OpenEntry \/ CloseEntry
           \/ FoundEntry \/ EndOfEntries \/ Acquire \/ AcquireFails
  BY <1>1, <1>5, Zenon DEF libVars, DevCount, DevInit, OpenDir, OpenEntry, CloseEntry,
     FoundEntry, EndOfEntries, Acquire, AcquireFails, timeVars
<1> QED  BY <1>2, <1>4, <1>5, Zenon DEF LibNext

\* A call that does not read /dev/accel.
LEMMA JobCallKeeps ==
  ASSUME ~ ExportMayFail, LibInv, JobCall, executing = "no", search = "no",
         UNCHANGED searchVars
  PROVE  LibInv'
<1>1. CASE JobConfig
  BY <1>1, JobConfigKeeps, Zenon
<1>2. CASE FailedCall \/ ResetErr
  BY <1>2, IdleKeeps, Zenon DEF FailedCall, ResetErr, timeVars
<1>3. CASE JobFreeAll \/ DevReinit
  BY <1>3, FreeKeeps, Zenon DEF JobFreeAll, DevReinit, Ok, timeVars
<1>4. CASE StrelaConfig
  BY <1>4, StrelaConfigKeeps, Zenon
<1>5. CASE Execute
  <2>1. compat \in Slots /\ Submit(compat)
    BY <1>5, Zenon DEF Execute, LibInv, ExecuteOk
  <2> QED  BY <2>1, SubmitCallKeeps, Zenon
<1>6. CASE DevDeinit
  BY <1>6, DevDeinitKeeps, Zenon
<1>7. ASSUME NEW i \in Slots, JobFree(i) PROVE LibInv'
  BY <1>7, FreeKeeps, Zenon DEF JobFree, Ok, timeVars
<1>8. ASSUME NEW i \in Slots, JobSubmit(i) PROVE LibInv'
  <2>1. Submit(i) /\ UNCHANGED executing
    BY <1>8, Zenon DEF JobSubmit, timeVars
  <2> QED  BY <2>1, SubmitCallKeeps, Zenon
<1>9. ASSUME NEW i \in Slots, JobUpdate(i) PROVE LibInv'
  BY <1>9, JobUpdateKeeps, Zenon
<1> QED  BY <1>1, <1>2, <1>3, <1>4, <1>5, <1>6, <1>7, <1>8, <1>9, Zenon
            DEF JobCall

\* Every step keeps the invariant.
LEMMA LibStep ==
  ASSUME ~ ExportMayFail, LibInv, [LibNext]_libVars
  PROVE  LibInv'
<1>1. CASE UNCHANGED libVars
  BY <1>1, IdleKeeps, Zenon DEF libVars, deviceVars, jobVars, searchVars
<1>2. CASE (JobEnds \/ Tick \/ ExecuteReturns \/ ProcessEnds) /\ UNCHANGED searchVars
  <2>1. CASE JobEnds
    BY <1>2, <2>1, JobEndsKeeps, Zenon
  <2>2. CASE Tick
    BY <1>2, <2>2, IdleKeeps, Zenon DEF Tick
  <2>3. CASE ExecuteReturns
    BY <1>2, <2>3, ExecuteReturnsKeeps, Zenon
  <2>4. CASE ProcessEnds
    BY <1>2, <2>4, ProcessEndsKeeps, Zenon
  <2> QED  BY <1>2, <2>1, <2>2, <2>3, <2>4, Zenon
<1>3. CASE executing = "no" /\ search = "no" /\ JobCall /\ UNCHANGED searchVars
  BY <1>3, JobCallKeeps, Zenon
<1>4. CASE executing = "no" /\ search = "no" /\ DevCount
  BY <1>4, OpenDirKeeps, Zenon DEF DevCount
<1>5. CASE executing = "no" /\ search = "no" /\ DevInit
  <2>1. ~ initialized
    BY <1>5, Zenon DEF DevInit
  <2>2. CASE OpenDir("init")
    BY <1>5, <2>1, <2>2, OpenDirKeeps, Zenon
  <2>3. CASE UNCHANGED <<deviceVars, jobVars, fd, timeVars, searchVars>>
    BY <2>3, IdleKeeps, Zenon DEF timeVars
  <2> QED  BY <1>5, <2>2, <2>3, Zenon DEF DevInit
<1>6. CASE OpenEntry
  BY <1>6, OpenEntryKeeps, Zenon
<1>7. CASE CloseEntry
  BY <1>7, CloseEntryKeeps, Zenon
<1>8. CASE FoundEntry
  BY <1>8, FoundEntryKeeps, Zenon
<1>9. CASE EndOfEntries
  BY <1>9, EndOfEntriesKeeps, Zenon
<1>10. CASE Acquire
  BY <1>10, AcquireKeeps, Zenon
<1>11. CASE AcquireFails
  BY <1>11, AcquireFailsKeeps, Zenon
<1> QED
  BY <1>1, <1>2, <1>3, <1>4, <1>5, <1>6, <1>7, <1>8, <1>9, <1>10, <1>11, Zenon
     DEF LibNext

\* What the invariant says of jobs, results and descriptors.
LEMMA LibInvImplies ==
  ASSUME LibInv
  PROVE  /\ orphan # "ok" => FreedIsFinished
         /\ StatusIsTheJobs /\ DescriptorsAreOwned
<1>1. SlotsOk(slot, fd, jobs) /\ DeviceOk /\ TableOk /\ MapsOk /\ ~ aborted
  BY Zenon DEF LibInv
<1>2. orphan # "ok" => FreedIsFinished
  BY <1>1, Zenon DEF FreedIsFinished, SlotsOk, Ended
<1>3. ASSUME NEW i \in Slots, HasJob(slot[i])
      PROVE  /\ slot[i].fence \in DOMAIN jobs /\ slot[i].fence_fd \in Fds
             /\ fd[slot[i].fence_fd] = slot[i].fence
             /\ slot[i].phase = "DONE" => slot[i].status = jobs[slot[i].fence].state
  BY <1>1, <1>3, Zenon DEF SlotsOk, SlotOk
<1>4. StatusIsTheJobs
  BY <1>3, Zenon DEF StatusIsTheJobs, HasJob
<1>5. ASSUME NEW f \in Fds
      PROVE  fd[f] \in DOMAIN jobs <=>
               \E i \in Slots : slot[i].fence_fd = f /\ slot[i].phase \in {"SUBMITTED", "DONE"}
  <2>1. ASSUME fd[f] \in DOMAIN jobs
        PROVE  \E i \in Slots : slot[i].fence_fd = f /\ slot[i].phase \in {"SUBMITTED", "DONE"}
    <3>1. fd[f] > 0
      BY <1>1, <2>1, JobsAre, Zenon DEF SlotsOk
    <3>2. PICK i \in Slots : HasJob(slot[i]) /\ slot[i].fence_fd = f
      BY <1>1, <3>1, Zenon DEF SlotsOk
    <3> QED  BY <3>2, Zenon DEF HasJob
  <2>2. ASSUME NEW i \in Slots, slot[i].fence_fd = f, slot[i].phase \in {"SUBMITTED", "DONE"}
        PROVE  fd[f] \in DOMAIN jobs
    BY <1>3, <2>2, Zenon DEF HasJob
  <2> QED  BY <2>1, <2>2, Zenon
<1>6. \A f \in Fds : fd[f] = Dir <=> Searching /\ f = dir
  BY <1>1, Specials, Zenon DEF TableOk, DeviceOk
<1>7. \A f \in Fds :
        fd[f] = Accel <=> (initialized /\ f = dev_fd) \/ (search # "no" /\ f = entry)
  BY <1>1, Specials, Zenon DEF TableOk, DeviceOk
<1>8. search = "no" => maps = IF initialized THEN Mappings ELSE {}
  BY <1>1, Zenon DEF MapsOk
<1>9. \A i \in Slots :
        slot[i].phase \in {"SUBMITTED", "DONE"} /\ slot[i].fence_fd # NoFd =>
          fd[slot[i].fence_fd] = slot[i].fence
  BY <1>3, Zenon DEF HasJob
<1>10. DescriptorsAreOwned
  BY <1>1, <1>5, <1>6, <1>7, <1>8, <1>9, Zenon DEF DescriptorsAreOwned, TableOk
<1> QED  BY <1>2, <1>4, <1>10, Zenon

\* LibInv is an invariant when no export of a fence fails.
LEMMA LibInvHolds ==
  ASSUME ~ ExportMayFail
  PROVE  LibSpec => []LibInv
<1>1. LibInv /\ [LibNext]_libVars => LibInv'
  BY LibStep, Zenon
<1> QED  BY <1>1, LibInitInv, PTL DEF LibSpec

\* With any number of slots, descriptors and submissions, as long as no export of a
\* fence fails: a slot that was freed, reused, resubmitted or whose device was
\* reopened has no job in the driver (strela_job_slot_finish), and strela_dev_deinit
\* leaves none in it unless an error stands.
THEOREM FreedSafety ==
  ASSUME ~ ExportMayFail
  PROVE  LibSpec => []FreedIsFinished
<1>1. LibInit => orphan # "ok"
  BY Zenon DEF LibInit
<1>2. LibInv /\ orphan # "ok" /\ [LibNext]_libVars => (orphan # "ok")'
  BY OrphanStep, Zenon
<1>3. LibInv /\ orphan # "ok" => FreedIsFinished
  BY LibInvImplies, Zenon
<1> QED  BY <1>1, <1>2, <1>3, LibInvHolds, PTL DEF LibSpec

\* And what strela_job_poll reports is the outcome of the slot's last submission.
THEOREM StatusSafety ==
  ASSUME ~ ExportMayFail
  PROVE  LibSpec => []StatusIsTheJobs
<1>1. LibInv => StatusIsTheJobs
  BY LibInvImplies, Zenon
<1> QED  BY <1>1, LibInvHolds, PTL

\* And every descriptor and mapping has one owner, with any number of entries in
\* /dev/accel, whichever of them is looked for, and wherever the search or the opening
\* of the device ends.  No descriptor is closed twice, so the library does not abort.
THEOREM DescriptorSafety ==
  ASSUME ~ ExportMayFail
  PROVE  LibSpec => []DescriptorsAreOwned
<1>1. LibInv => DescriptorsAreOwned
  BY LibInvImplies, Zenon
<1> QED  BY <1>1, LibInvHolds, PTL

-----------------------------------------------------------------------------
(* The wait of strela_execute.  Here an export may fail. *)

\* The slots, the jobs and the handle of strela_config keep their types even when
\* exports fail.
CallTypes ==
  /\ slot \in [Slots -> SlotType] /\ jobs \in Seq(JobType)
  /\ compat \in Slots \cup {Invalid}

\* While strela_execute waits, what it has waited and what the driver may still need
\* for the jobs it has, each being given its timeout of which the device has spent age
\* on the first, is no more than what the driver needed at first.
WaitOk ==
  /\ age \in 0 .. JobTimeout /\ waited \in Nat /\ backlog \in Int
  /\ executing \in {"no", "waiting", "pending", "interrupted"}
  /\ search # "no" => executing = "no"
  /\ executing = "waiting" =>
       /\ compat \in Slots /\ slot[compat].fence_fd # NoFd
       /\ waited + Held * JobTimeout - age <= backlog
  /\ PendingIsLate

\* The slots the library writes.
LEMMA SlotTypes ==
  /\ ZeroSlot \in SlotType /\ FreeSlot \in SlotType /\ ConfiguredSlot \in SlotType
<1>1. ZeroSlot \in SlotType
  BY LibAssumption DEF ZeroSlot, SlotType, NoJob, Fds
<1>2. FreeSlot \in SlotType
  BY LibAssumption, Zenon DEF FreeSlot, ZeroSlot, SlotType, NoJob, Fds
<1> QED  BY <1>1, <1>2, ConfiguredIs, Zenon

\* strela_job_slot_release, also when it aborts.
LEMMA ReleasedType ==
  ASSUME CallTypes, NEW S
  PROVE  Released(S) \in [Slots -> SlotType]
<1>1. ASSUME NEW i \in Slots PROVE [slot[i] EXCEPT !.phase = "DONE"] \in SlotType
  <2>1. slot[i] \in SlotType
    BY Zenon DEF CallTypes
  <2> QED  BY <2>1, Zenon DEF SlotType
<1>2. \A i \in Slots : slot[i] \in SlotType
  BY Zenon DEF CallTypes
<1>3. FreeSlot \in SlotType
  BY SlotTypes, Zenon
<1> QED  BY <1>1, <1>2, <1>3, Zenon DEF Released

\* strela_job_submit gives the driver one job.
LEMMA SubmitType ==
  ASSUME CallTypes, NEW i \in Slots, Submit(i)
  PROVE  /\ CallTypes'
         /\ errnum' = "ok" => slot'[i].fence_fd # NoFd
<1>1. slot \in [Slots -> SlotType] /\ jobs \in Seq(JobType) /\ slot[i] \in SlotType
  BY Zenon DEF CallTypes
<1>2. UNCHANGED compat /\ jobs' = Append(jobs, [slot |-> i, state |-> "pending"])
  BY Zenon DEF Submit
<1>3. jobs' \in Seq(JobType)
  <2>1. [slot |-> i, state |-> "pending"] \in JobType
    BY Zenon DEF JobType
  <2> QED  BY <1>1, <1>2, <2>1
<1>4. PICK k \in Nat : k = Len(jobs) + 1
  BY <1>1
<1>5. ASSUME NEW f \in Fds,
             slot' = [slot EXCEPT ![i].phase = "SUBMITTED", ![i].fence = Len(jobs) + 1,
                                  ![i].fence_fd = f]
      PROVE  slot' \in [Slots -> SlotType] /\ slot'[i].fence_fd # NoFd
  <2>1. PICK r : r = [slot[i] EXCEPT !.phase = "SUBMITTED", !.fence = k, !.fence_fd = f]
    BY Zenon
  <2>2. r \in SlotType /\ r.fence_fd = f
    BY <1>1, <2>1, Zenon DEF SlotType
  <2>3. slot' = [slot EXCEPT ![i] = r]
    BY <1>4, <1>5, <2>1, Zenon
  <2> QED  BY <1>1, <2>2, <2>3, Specials, Zenon
<1>6. ASSUME slot' = [slot EXCEPT ![i].phase = "SUBMITTED", ![i].fence = Len(jobs) + 1]
      PROVE  slot' \in [Slots -> SlotType]
  <2>1. PICK r : r = [slot[i] EXCEPT !.phase = "SUBMITTED", !.fence = k]
    BY Zenon
  <2>2. r \in SlotType
    BY <1>1, <2>1, Zenon DEF SlotType
  <2>3. slot' = [slot EXCEPT ![i] = r]
    BY <1>4, <1>6, <2>1, Zenon
  <2> QED  BY <1>1, <2>2, <2>3, Zenon
<1>7. CASE \E f \in Fds :
             slot' = [slot EXCEPT ![i].phase = "SUBMITTED", ![i].fence = Len(jobs) + 1,
                                  ![i].fence_fd = f]
  <2>1. slot' \in [Slots -> SlotType] /\ slot'[i].fence_fd # NoFd
    BY <1>5, <1>7, Zenon
  <2> QED  BY <1>2, <1>3, <2>1, Zenon DEF CallTypes
<1>8. CASE /\ slot' = [slot EXCEPT ![i].phase = "SUBMITTED", ![i].fence = Len(jobs) + 1]
           /\ errnum' = "error"
  <2>1. slot' \in [Slots -> SlotType]
    BY <1>6, <1>8, Zenon
  <2> QED  BY <1>2, <1>3, <1>8, <2>1, Zenon DEF CallTypes
<1> QED  BY <1>7, <1>8, Zenon DEF Submit

\* strela_job_update.
LEMMA UpdateType ==
  ASSUME CallTypes, NEW i \in Slots, Update(i)
  PROVE  slot' \in [Slots -> SlotType]
<1>1. slot \in [Slots -> SlotType] /\ jobs \in Seq(JobType) /\ slot[i] \in SlotType
  BY Zenon DEF CallTypes
<1>2. CASE UNCHANGED slot
  BY <1>1, <1>2, Zenon
<1>3. ASSUME NEW k \in DOMAIN jobs,
             slot' = [slot EXCEPT ![i].phase = "DONE", ![i].status = Status(k)]
      PROVE  slot' \in [Slots -> SlotType]
  <2>1. PICK x \in {"pending", "ok", "failed"} : x = Status(k)
    BY <1>1, JobsAre, Zenon DEF Status
  <2>2. PICK r : r = [slot[i] EXCEPT !.phase = "DONE", !.status = x]
    BY Zenon
  <2>3. r \in SlotType
    BY <1>1, <2>1, <2>2, Zenon DEF SlotType
  <2>4. slot' = [slot EXCEPT ![i] = r]
    BY <1>3, <2>1, <2>2, Zenon
  <2> QED  BY <1>1, <2>3, <2>4, Zenon
<1> QED  BY <1>2, <1>3, Zenon DEF Update

\* A call other than strela_execute, strela_job_submit and strela_dev_deinit.
LEMMA OtherCallTypes ==
  ASSUME CallTypes,
         \/ JobConfig \/ FailedCall \/ ResetErr \/ JobFreeAll \/ StrelaConfig \/ DevReinit
         \/ \E i \in Slots : JobFree(i) \/ JobUpdate(i)
  PROVE  CallTypes'
<1>1. slot \in [Slots -> SlotType] /\ jobs \in Seq(JobType) /\ compat \in Slots \cup {Invalid}
  BY Zenon DEF CallTypes
<1>2. CASE JobConfig
  <2>1. PICK i \in Slots : slot' = [slot EXCEPT ![i] = ConfiguredSlot]
    BY <1>2, Zenon DEF JobConfig
  <2>2. slot' \in [Slots -> SlotType]
    BY <1>1, <2>1, SlotTypes, Zenon
  <2> QED  BY <1>1, <1>2, <2>2, Zenon DEF JobConfig, CallTypes
<1>3. CASE FailedCall \/ ResetErr
  BY <1>1, <1>3, Zenon DEF FailedCall, ResetErr, CallTypes, jobVars
<1>4. ASSUME NEW S, Release(S), UNCHANGED <<compat, jobs, timeVars>>
      PROVE  CallTypes'
  <2>1. slot' = Released({i \in S : InUse(i)})
    BY <1>4, Zenon DEF Release
  <2>2. slot' \in [Slots -> SlotType]
    BY <2>1, ReleasedType, Zenon
  <2> QED  BY <1>1, <1>4, <2>2, Zenon DEF CallTypes
<1>5. CASE JobFreeAll \/ DevReinit
  BY <1>4, <1>5, Zenon DEF JobFreeAll, DevReinit
<1>6. CASE \E i \in Slots : JobFree(i)
  BY <1>4, <1>6, Zenon DEF JobFree
<1>7. CASE StrelaConfig
  <2>1. UNCHANGED <<jobs, timeVars>>
    BY <1>7, Zenon DEF StrelaConfig
  <2>2. PICK old : old = IF compat = Invalid THEN {} ELSE {compat}
    BY Zenon
  <2>3. PICK s : s = Released({i \in old : InUse(i)})
    BY Zenon
  <2>4. \/ compat' = Invalid /\ slot' \in {slot, s}
        \/ IsFirst(compat', FreeSlots(old)) /\ slot' = [s EXCEPT ![compat'] = ConfiguredSlot]
    BY <1>7, <2>2, <2>3, Zenon DEF StrelaConfig
  <2>5. s \in [Slots -> SlotType]
    BY <2>3, ReleasedType, Zenon
  <2>6. CASE compat' = Invalid /\ slot' \in {slot, s}
    BY <1>1, <2>1, <2>5, <2>6, Zenon DEF CallTypes
  <2>7. CASE IsFirst(compat', FreeSlots(old)) /\ slot' = [s EXCEPT ![compat'] = ConfiguredSlot]
    <3>1. compat' \in Slots
      BY <2>7, Zenon DEF IsFirst, FreeSlots
    <3>2. slot' \in [Slots -> SlotType]
      BY <2>5, <2>7, <3>1, SlotTypes, Zenon
    <3> QED  BY <1>1, <2>1, <3>1, <3>2, Zenon DEF CallTypes
  <2> QED  BY <2>1, <2>4, <2>6, <2>7, Zenon
<1>8. CASE \E i \in Slots : JobUpdate(i)
  <2>1. UNCHANGED <<compat, jobs, timeVars>>
    BY <1>8, Zenon DEF JobUpdate
  <2>2. slot' \in [Slots -> SlotType]
    BY <1>8, UpdateType, Zenon DEF JobUpdate
  <2> QED  BY <1>1, <2>1, <2>2, Zenon DEF CallTypes
<1> QED  BY <1>2, <1>3, <1>5, <1>6, <1>7, <1>8, Zenon

\* The types of the slots, the jobs and the handle of strela_config.
LEMMA TypeStep ==
  ASSUME CallTypes, executing = "waiting" => compat \in Slots, [LibNext]_libVars
  PROVE  CallTypes'
<1>1. slot \in [Slots -> SlotType] /\ jobs \in Seq(JobType) /\ compat \in Slots \cup {Invalid}
  BY Zenon DEF CallTypes
<1>2. [i \in Slots |-> ZeroSlot] \in [Slots -> SlotType]
  BY SlotTypes, Zenon
<1>3. CASE UNCHANGED <<slot, jobs, compat>>
  BY <1>1, <1>3, Zenon DEF CallTypes
<1>4. CASE UNCHANGED libVars \/ Tick \/ DevCount \/ DevInit
  BY <1>3, <1>4, Zenon DEF libVars, Tick, DevCount, DevInit, OpenDir, jobVars
<1>5. CASE OpenEntry \/ CloseEntry \/ FoundEntry \/ EndOfEntries \/ AcquireFails
  BY <1>3, <1>5, Zenon DEF OpenEntry, CloseEntry, FoundEntry, EndOfEntries,
     AcquireFails, jobVars
<1>6. CASE JobEnds
  <2>1. ASSUME NEW k \in DOMAIN jobs, NEW x \in {"ok", "failed"},
               jobs' = [jobs EXCEPT ![k].state = x]
        PROVE  jobs' \in Seq(JobType)
    BY <1>1, <2>1, EndedJobs
  <2>2. jobs' \in Seq(JobType)
    BY <1>1, <1>6, <2>1, Zenon DEF JobEnds
  <2> QED  BY <1>1, <1>6, <2>2, Zenon DEF JobEnds, CallTypes
<1>7. CASE ExecuteReturns
  <2>1. compat \in Slots /\ UNCHANGED <<compat, jobs>> /\ (Update(compat) \/ UNCHANGED slot)
    BY <1>7, Zenon DEF ExecuteReturns
  <2>2. slot' \in [Slots -> SlotType]
    BY <1>1, <2>1, UpdateType, Zenon
  <2> QED  BY <1>1, <2>1, <2>2, Zenon DEF CallTypes
<1>8. CASE Acquire
  <2>1. UNCHANGED jobs
    BY <1>8, Zenon DEF Acquire
  <2>2. \/ UNCHANGED <<slot, compat>>
        \/ slot' = [i \in Slots |-> ZeroSlot] /\ compat' = Invalid
    BY <1>8, Zenon DEF Acquire
  <2> QED  BY <1>1, <1>2, <2>1, <2>2, Zenon DEF CallTypes
<1>9. CASE DevDeinit \/ ProcessEnds
  <2>1. slot' = [i \in Slots |-> ZeroSlot] /\ compat' = Invalid /\ jobs' = <<>>
    BY <1>9, Zenon DEF DevDeinit, ProcessEnds
  <2> QED  BY <1>2, <2>1 DEF CallTypes
<1>10. CASE Execute \/ \E i \in Slots : JobSubmit(i)
  <2>1. PICK i \in Slots : Submit(i)
    BY <1>1, <1>10, Zenon DEF Execute, JobSubmit
  <2> QED  BY <2>1, SubmitType, Zenon
<1>11. CASE JobCall
  BY <1>9, <1>10, <1>11, OtherCallTypes, Zenon DEF JobCall
<1> QED
  BY <1>4, <1>5, <1>6, <1>7, <1>8, <1>9, <1>11, Zenon DEF LibNext

\* What is left of the timeouts after a job has ended.
LEMMA LessBacklog ==
  ASSUME NEW c \in Nat, c > 0, NEW t \in Nat, NEW a \in 0 .. t, NEW w \in Nat, NEW b \in Int,
         w + c * t - a <= b
  PROVE  w + (c - 1) * t - 0 <= b
<1>1. (c - 1) * t = c * t - t /\ c * t \in Int
  OBVIOUS
<1> QED  BY <1>1

\* Time that passes is waited, and spent by the device.
LEMMA SameBacklog ==
  ASSUME NEW c \in Nat, NEW t \in Nat, NEW a \in 0 .. t, NEW w \in Nat, NEW b \in Int,
         w + c * t - a <= b
  PROVE  (w + 1) + c * t - (a + 1) <= b
<1>1. c * t \in Int
  OBVIOUS
<1> QED  BY <1>1

\* A driver that has a job when the wait of e is over could be busy all that time.
LEMMA WholeBacklog ==
  ASSUME NEW c \in Nat, c > 0, NEW t \in Nat, NEW a \in 0 .. t, NEW e \in Nat, NEW b \in Int,
         e + c * t - a <= b
  PROVE  b >= e
<1>1. c * t >= t /\ c * t \in Int
  OBVIOUS
<1> QED  BY <1>1

\* A wait that begins.
LEMMA NewBacklog ==
  ASSUME NEW c \in Nat, NEW t \in Nat, NEW a \in 0 .. t
  PROVE  c * t - a \in Int /\ 0 + c * t - a <= c * t - a
<1>1. c * t \in Int
  OBVIOUS
<1> QED  BY <1>1

\* How a step changes the number of jobs the driver has.
Counted ==
  /\ Held \in Nat /\ Held' \in Nat
  /\ Unfinished # {} => Held > 0
  /\ JobEnds => Held > 0 /\ Held' = Held - 1

\* Every step keeps the bound on the wait.
LEMMA WaitStep ==
  ASSUME CallTypes, WaitOk, Counted, [LibNext]_libVars
  PROVE  WaitOk'
<1>1. /\ age \in 0 .. JobTimeout /\ waited \in Nat /\ backlog \in Int
      /\ executing \in {"no", "waiting", "pending", "interrupted"}
      /\ search # "no" => executing = "no"
      /\ executing = "pending" => backlog >= ExecuteWait
  BY Zenon DEF WaitOk, PendingIsLate
<1>2. JobTimeout \in Nat /\ ExecuteWait \in Nat
  BY LibAssumption, Zenon
<1>3. PICK c \in Nat : c = Held
  BY Zenon DEF Counted
<1>4. 0 \in 0 .. JobTimeout /\ 0 \in Nat /\ 0 \in Int
  BY <1>2
<1>5. CASE UNCHANGED libVars
  <2>1. UNCHANGED <<slot, compat, jobs, executing, waited, backlog, age, orphan, search>>
    BY <1>5, Zenon DEF libVars
  <2>2. Held' = Held
    BY <2>1, Zenon DEF Held, Unfinished, Ended
  <2> QED  BY <2>1, <2>2, Zenon DEF WaitOk, PendingIsLate
<1>6. ASSUME executing = "waiting"
      PROVE  /\ compat \in Slots /\ slot[compat].fence_fd # NoFd
             /\ waited + c * JobTimeout - age <= backlog
  BY <1>3, <1>6, Zenon DEF WaitOk
<1>7. CASE JobEnds /\ UNCHANGED searchVars
  <2>1. age' = 0 /\ UNCHANGED <<slot, compat, executing, waited, backlog, search>>
    BY <1>7, Zenon DEF JobEnds, searchVars
  <2>2. Held' = c - 1 /\ c > 0
    BY <1>3, <1>7, Zenon DEF Counted
  <2>3. executing = "waiting" => waited + (c - 1) * JobTimeout - 0 <= backlog
    BY <1>1, <1>2, <1>6, <2>2, LessBacklog, Zenon
  <2> QED  BY <1>1, <1>4, <1>6, <2>1, <2>2, <2>3, Zenon DEF WaitOk, PendingIsLate
<1>8. CASE Tick /\ UNCHANGED searchVars
  <2>1. /\ age < JobTimeout /\ age' = age + 1
        /\ waited' = IF executing = "waiting" THEN waited + 1 ELSE 0
        /\ UNCHANGED <<slot, compat, jobs, executing, backlog, orphan, search>>
    BY <1>8, Zenon DEF Tick, jobVars, searchVars
  <2>2. Held' = Held
    BY <2>1, Zenon DEF Held, Unfinished, Ended
  <2>3. age' \in 0 .. JobTimeout /\ waited' \in Nat
    BY <1>1, <1>2, <2>1
  <2>4. executing = "waiting" => (waited + 1) + c * JobTimeout - (age + 1) <= backlog
    BY <1>1, <1>2, <1>6, SameBacklog, Zenon
  <2>5. executing = "waiting" => waited' + c * JobTimeout - age' <= backlog
    BY <2>1, <2>4, Zenon
  <2> QED  BY <1>1, <1>3, <1>6, <2>1, <2>2, <2>3, <2>5, Zenon DEF WaitOk, PendingIsLate
<1>9. CASE ExecuteReturns /\ UNCHANGED searchVars
  <2>1. /\ executing = "waiting" /\ waited' = 0 /\ UNCHANGED <<age, search>>
        /\ backlog' \in {0, backlog}
    BY <1>9, Zenon DEF ExecuteReturns, searchVars
  <2>2. backlog' \in Int
    BY <1>1, <1>4, <2>1, Zenon
  <2>3. CASE executing' \in {"no", "interrupted"}
    BY <1>1, <1>4, <2>1, <2>2, <2>3, Zenon DEF WaitOk, PendingIsLate
  <2>4. CASE /\ ~ Polled(slot[compat].fence_fd) /\ WaitedEnough
             /\ executing' = "pending" /\ UNCHANGED backlog
    <3>1. Unfinished # {}
      BY <1>6, <2>1, <2>4, Zenon DEF Polled, Unfinished
    <3>2. c > 0
      BY <1>3, <3>1, Zenon DEF Counted
    <3>3. ExecuteWait + c * JobTimeout - age <= backlog
      BY <1>6, <2>1, <2>4, Zenon DEF WaitedEnough
    <3>4. backlog >= ExecuteWait
      BY <1>1, <1>2, <3>2, <3>3, WholeBacklog, Zenon
    <3> QED  BY <1>1, <1>4, <2>1, <2>2, <2>4, <3>4, Zenon DEF WaitOk, PendingIsLate
  <2> QED  BY <1>9, <2>3, <2>4, Zenon DEF ExecuteReturns
<1>10. CASE Execute /\ executing = "no" /\ search = "no" /\ UNCHANGED searchVars
  <2>1. /\ compat \in Slots /\ Submit(compat) /\ waited' = 0 /\ UNCHANGED age
        /\ executing' = IF errnum' = "ok" THEN "waiting" ELSE "no"
        /\ backlog' = IF executing' = "waiting" THEN Held' * JobTimeout - age ELSE 0
    BY <1>10, Zenon DEF Execute, CallTypes
  <2>2. executing' = "waiting" => slot'[compat].fence_fd # NoFd
    BY <2>1, SubmitType, Zenon
  <2>3. UNCHANGED compat /\ search' = "no"
    BY <1>10, <2>1, Zenon DEF Submit, searchVars
  <2>4. PICK d \in Nat : d = Held'
    BY Zenon DEF Counted
  <2>5. d * JobTimeout - age \in Int /\ 0 + d * JobTimeout - age <= d * JobTimeout - age
    BY <1>1, <1>2, NewBacklog, Zenon
  <2>6. backlog' \in Int
    BY <1>4, <2>1, <2>4, <2>5, Zenon
  <2>7. executing' = "waiting" => waited' + Held' * JobTimeout - age' <= backlog'
    BY <2>1, <2>4, <2>5, Zenon
  <2> QED  BY <1>1, <1>4, <2>1, <2>2, <2>3, <2>6, <2>7, Zenon DEF WaitOk, PendingIsLate
<1>11. ASSUME executing' = "no", waited' \in Nat, backlog' \in Int, UNCHANGED age
       PROVE  WaitOk'
  BY <1>1, <1>11, Zenon DEF WaitOk, PendingIsLate
<1>12. CASE DevDeinit /\ executing = "no"
  <2>1. UNCHANGED <<executing, waited, backlog, age>>
    BY <1>12, Zenon DEF DevDeinit
  <2> QED  BY <1>1, <1>11, <1>12, <2>1, Zenon
<1>13. CASE ProcessEnds
  BY <1>4, <1>11, <1>13, Zenon DEF ProcessEnds
<1>14. CASE /\ executing = "no"
            /\ \/ JobConfig \/ FailedCall \/ ResetErr \/ JobFreeAll \/ StrelaConfig \/ DevReinit
               \/ DevCount \/ DevInit
               \/ \E i \in Slots : JobFree(i) \/ JobSubmit(i) \/ JobUpdate(i)
  <2>1. UNCHANGED timeVars
    BY <1>14, Zenon DEF JobConfig, FailedCall, ResetErr, JobFreeAll,
       StrelaConfig, DevReinit,
         DevCount, DevInit, OpenDir, JobFree, JobSubmit, JobUpdate
  <2> QED  BY <1>1, <1>11, <1>14, <2>1, Zenon DEF timeVars
<1>15. CASE JobCall /\ executing = "no" /\ search = "no" /\ UNCHANGED searchVars
  BY <1>10, <1>12, <1>14, <1>15, Zenon DEF JobCall
<1>16. CASE OpenEntry \/ CloseEntry \/ FoundEntry \/ EndOfEntries \/ Acquire \/ AcquireFails
  <2>1. UNCHANGED timeVars /\ search # "no"
    BY <1>16, InitStepsAre, Zenon DEF OpenEntry, CloseEntry, FoundEntry,
       EndOfEntries, Acquire,
         AcquireFails, Searching, Sought
  <2> QED  BY <1>1, <1>11, <2>1, Zenon DEF timeVars
<1> QED
  BY <1>5, <1>7, <1>8, <1>9, <1>13, <1>14, <1>15, <1>16, Zenon DEF LibNext

INSTANCE FiniteSetTheorems

\* Some of the jobs are finitely many.
LEMMA JobsCount ==
  ASSUME NEW j \in Seq(JobType), NEW S \in SUBSET DOMAIN j
  PROVE  IsFiniteSet(S) /\ Cardinality(S) \in Nat /\ (S # {} => Cardinality(S) > 0)
<1>1. PICK n \in Nat : DOMAIN j = 1 .. n
  OBVIOUS
<1>2. IsFiniteSet(1 .. n)
  BY FS_Interval
<1>3. IsFiniteSet(S)
  BY <1>1, <1>2, FS_Subset, Zenon
<1>4. Cardinality(S) \in Nat
  BY <1>3, FS_CardinalityType, Zenon
<1>5. S # {} => Cardinality(S) # 0
  BY <1>3, FS_EmptySet, Zenon
<1> QED  BY <1>3, <1>4, <1>5

\* The driver ends one job at a time.
LEMMA CountedHolds ==
  ASSUME CallTypes, CallTypes'
  PROVE  Counted
<1>1. jobs \in Seq(JobType) /\ jobs' \in Seq(JobType)
  BY Zenon DEF CallTypes
<1>2. Unfinished \in SUBSET DOMAIN jobs /\ Unfinished' \in SUBSET DOMAIN jobs'
  BY Zenon DEF Unfinished
<1>3. PICK n \in Nat : n = Cardinality(Unfinished) /\ (Unfinished # {} => n > 0)
  BY <1>1, <1>2, JobsCount, Zenon
<1>4. PICK m \in Nat : m = Cardinality(Unfinished)'
  BY <1>1, <1>2, JobsCount, Zenon
<1>5. /\ Held = n + IF orphan = "no" THEN 0 ELSE 1
      /\ Held' = m + IF orphan' = "no" THEN 0 ELSE 1
  BY <1>3, <1>4, Zenon DEF Held
<1>6. ASSUME JobEnds PROVE Held > 0 /\ Held' = Held - 1
  <2>1. CASE orphan # "no" /\ orphan' = "no" /\ UNCHANGED jobs
    <3>1. n = m
      BY <1>3, <1>4, <2>1, Zenon DEF Unfinished, Ended
    <3>2. Held = n + 1 /\ Held' = m + 0
      BY <1>5, <2>1, Zenon
    <3> QED  BY <3>1, <3>2
  <2>2. ASSUME NEW k \in DOMAIN jobs, NEW x \in {"ok", "failed"},
               ~ Ended(k), jobs' = [jobs EXCEPT ![k].state = x]
        PROVE  m = n - 1 /\ n > 0
    <3>1. k \in Unfinished /\ Unfinished' = Unfinished \ {k}
      BY <1>1, <2>2, EndedJobs DEF Unfinished, Ended
    <3>2. IsFiniteSet(Unfinished)
      BY <1>1, <1>2, JobsCount, Zenon
    <3>3. Cardinality(Unfinished \ {k}) = Cardinality(Unfinished) - 1
      BY <3>1, <3>2, FS_RemoveElement, Zenon
    <3>4. m = n - 1
      BY <1>3, <1>4, <3>1, <3>3, Zenon
    <3>5. n > 0
      BY <1>3, <3>1, Zenon
    <3> QED  BY <3>4, <3>5, Zenon
  <2>3. CASE orphan = "no" /\ orphan' = "no" /\ m = n - 1 /\ n > 0
    <3>1. Held = n + 0 /\ Held' = m + 0
      BY <1>5, <2>3, Zenon
    <3> QED  BY <2>3, <3>1
  <2> QED  BY <1>6, <2>1, <2>2, <2>3, Zenon DEF JobEnds
<1>7. Held \in Nat /\ Held' \in Nat /\ (n > 0 => Held > 0)
  BY <1>5
<1> QED  BY <1>3, <1>6, <1>7, Zenon DEF Counted

\* With any number of slots and submissions, signals that interrupt and exports that
\* fail: strela_execute, whose wait is over and was not interrupted, finds its job
\* pending only if the timeouts of the jobs the driver had when it was submitted, its
\* own and an orphan included, last as long as the wait.
THEOREM ExecuteSafety == LibSpec => []PendingIsLate
<1>1. LibInit => CallTypes /\ WaitOk
  <2> SUFFICES ASSUME LibInit PROVE CallTypes /\ WaitOk
    BY Zenon
  <2>1. /\ slot = [i \in Slots |-> ZeroSlot] /\ compat = Invalid /\ jobs = <<>>
        /\ executing = "no" /\ waited = 0 /\ backlog = 0 /\ age = 0 /\ search = "no"
    BY Zenon DEF LibInit
  <2>2. CallTypes
    <3>1. slot \in [Slots -> SlotType]
      BY <2>1, SlotTypes, Zenon
    <3> QED  BY <2>1, <3>1 DEF CallTypes
  <2>3. WaitOk
    BY <2>1, LibAssumption DEF WaitOk, PendingIsLate
  <2> QED  BY <2>2, <2>3, Zenon
<1>2. (CallTypes /\ WaitOk) /\ [LibNext]_libVars => (CallTypes /\ WaitOk)'
  <2> SUFFICES ASSUME CallTypes, WaitOk, [LibNext]_libVars
               PROVE  CallTypes' /\ WaitOk'
    BY Zenon
  <2>1. CallTypes'
    BY TypeStep, Zenon DEF WaitOk
  <2> QED  BY <2>1, CountedHolds, WaitStep, Zenon
<1>3. CallTypes /\ WaitOk => PendingIsLate
  BY Zenon DEF WaitOk
<1> QED  BY <1>1, <1>2, <1>3, PTL DEF LibSpec
=============================================================================
