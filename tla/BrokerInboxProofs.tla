-------------------------- MODULE BrokerInboxProofs --------------------------
(* Theorems about BrokerInbox, for every value of its constants. *)
EXTENDS BrokerInbox, FiniteSetTheorems, TLAPS

LEMMA FileOfType == FileOf \in [Address -> File]
  BY AddressAssumption

LEMMA TargetType ==
  ASSUME NEW a \in Alias, NEW k \in 1..Len(Registered[a])
  PROVE  Registered[a][k] \in Address
  <1>1. Registered[a] \in Seq(Address \ (Alias \cup Relative))
    BY AddressAssumption
  <1> QED BY <1>1

LEMMA ResolveType ==
  ASSUME TypeOK, NEW a \in Address
  PROVE  Resolve(a) \in Address
  <1>1. CASE a \in Alias /\ aliases[a] > 0
    <2>1. aliases[a] \in 1..Len(Registered[a])
      BY <1>1 DEF TypeOK
    <2> QED BY <1>1, <2>1, TargetType DEF Resolve
  <1> QED BY <1>1 DEF Resolve

LEMMA PrevType ==
  ASSUME TypeOK, NEW f \in File
  PROVE  Prev(f) \in Nat
  BY DEF TypeOK, Prev, None

LEMMA InboxType == ASSUME NEW s \in Stream PROVE Inbox(s) \in File
  BY AddressAssumption DEF Inbox

-----------------------------------------------------------------------------
(* Type correctness *)

LEMMA LengthType ==
  ASSUME NEW a \in Alias
  PROVE  Len(Registered[a]) \in Nat
  <1>1. Registered[a] \in Seq(Address \ (Alias \cup Relative))
    BY AddressAssumption
  <1> QED BY <1>1

LEMMA TypeInit == Init => TypeOK
  <1> SUFFICES ASSUME Init PROVE TypeOK
    OBVIOUS
  <1> USE DEF Init, TypeOK
  <1>1. to \in [Mail -> Address] /\ target \in [Mail -> Address]
    BY AddressAssumption
  <1>2. aliases \in [Alias -> Nat] /\ \A a \in Alias : aliases[a] <= Len(Registered[a])
    BY LengthType
  <1>3. lines \in [File -> Seq(Mail)] /\ received \in [Stream -> Seq(Mail)]
    OBVIOUS
  <1>4. ts \in [Mail -> Nat] /\ lastTs \in [File -> Nat] /\ cursor \in [Stream -> Nat]
    BY DEF None
  <1> QED BY <1>1, <1>2, <1>3, <1>4

LEMMA TypePublish ==
  ASSUME TypeOK, NEW m \in Mail,
         Route(m) \/ Stamp(m) \/ Write(m) \/ WriteTorn(m) \/ Notify(m)
  PROVE  TypeOK'
  <1> DEFINE f == FileOf[target[m]]
  <1>1. f \in File
    BY FileOfType DEF TypeOK
  <1> USE DEF TypeOK, request, files, streams, history
  <1>2. CASE Route(m)
    <2>1. Resolve(to[m]) \in Address
      BY ResolveType
    <2>2. SentTs \subseteq Nat
      BY AddressAssumption
    <2>3. ts' \in [Mail -> Nat]
      BY <1>2, <2>2 DEF Route
    <2>4. target' \in [Mail -> Address]
      BY <1>2, <2>1 DEF Route
    <2>5. pc' \in [Mail -> {"new", "routed", "stamped", "written", "acked",
                            "refused", "failed"}]
      BY <1>2 DEF Route
    <2> QED BY <1>2, <2>3, <2>4, <2>5 DEF Route
  <1>3. CASE Stamp(m)
    <2>1. Prev(f) \in Nat
      BY <1>1, PrevType
    <2>2. Forward(ts[m], Prev(f)) \in Nat
      BY <2>1 DEF Forward
    <2>3. ts' \in [Mail -> Nat]
      BY <1>3, <2>2 DEF Stamp
    <2>4. lastTs' \in [File -> Nat]
      BY <1>3, <2>3 DEF Stamp
    <2> QED BY <1>3, <2>3, <2>4 DEF Stamp
  <1>4. CASE Write(m)
    <2>1. Append(lines[f], m) \in Seq(Mail)
      BY <1>1
    <2>3. lines' \in [File -> Seq(Mail)]
      BY <1>4, <2>1 DEF Write
    <2>2. torn' \in [File -> BOOLEAN]
      BY <1>4 DEF Write, WithNewline
    <2> QED BY <1>4, <2>2, <2>3 DEF Write
  <1>5. CASE WriteTorn(m)
    BY <1>1, <1>5 DEF WriteTorn
  <1>6. CASE Notify(m)
    <2>1. flag' \in [Address -> BOOLEAN]
      BY <1>6 DEF Notify
    <2>2. at' \in [Stream -> {"away", "reading", "yielding", "blocked", "woken"}]
      BY <1>6 DEF Notify
    <2> QED BY <1>6, <2>1, <2>2 DEF Notify
  <1> QED BY <1>2, <1>3, <1>4, <1>5, <1>6

LEMMA TypeStream ==
  ASSUME TypeOK, NEW s \in Stream,
         Connect(s) \/ Read(s) \/ Yield(s) \/ Wait(s) \/ Wake(s) \/ KeepAlive(s)
           \/ Drop(s)
  PROVE  TypeOK'
  <1>1. Cleared(s) \in [Address -> BOOLEAN]
    BY AddressAssumption DEF TypeOK, Cleared
  <1> USE DEF TypeOK, request, files, history
  <1>2. CASE Connect(s)
    BY <1>2 DEF Connect, Goto
  <1>3. CASE Read(s)
    BY <1>3 DEF Read, Goto
  <1>4. CASE Yield(s)
    <2>1. PICK m \in Mail :
            /\ received' = [received EXCEPT ![s] = Append(@, m)]
            /\ cursor' = [cursor EXCEPT ![s] = ts[m]]
            /\ batch' = [batch EXCEPT ![s] = @ \ {m}]
      BY <1>4, InboxType DEF Yield
    <2>2. received' \in [Stream -> Seq(Mail)]
      BY <2>1
    <2>3. cursor' \in [Stream -> Nat]
      BY <2>1
    <2>4. batch' \in [Stream -> SUBSET Mail]
      BY <2>1
    <2> QED BY <1>4, <2>2, <2>3, <2>4 DEF Yield
  <1>5. CASE Wait(s)
    BY <1>1, <1>5 DEF Wait, Goto
  <1>6. CASE Wake(s) \/ KeepAlive(s)
    BY <1>1, <1>6 DEF Wake, KeepAlive, Resume, Goto
  <1>7. CASE Drop(s)
    BY <1>1, <1>7 DEF Drop, Goto
  <1> QED BY <1>2, <1>3, <1>4, <1>5, <1>6, <1>7

LEMMA TypeRestart ==
  ASSUME TypeOK, Restart
  PROVE  TypeOK'
  <1> USE DEF TypeOK, Restart
  <1>1. torn' \in [File -> BOOLEAN]
    OBVIOUS
  <1>3. tears' \in Nat
    OBVIOUS
  <1>4. lastTs' \in [File -> Nat]
    BY DEF None
  <1>2. pc' \in [Mail -> {"new", "routed", "stamped", "written", "acked", "refused",
                          "failed"}]
    OBVIOUS
  <1> QED BY <1>1, <1>2, <1>3, <1>4

LEMMA TypeNext ==
  ASSUME TypeOK, [Next]_vars
  PROVE  TypeOK'
  <1>1. ASSUME NEW a \in Alias, PutAlias(a) PROVE TypeOK'
    <2>1. aliases' \in [Alias -> Nat]
      BY <1>1 DEF PutAlias, TypeOK
    <2>2. \A b \in Alias : aliases'[b] <= Len(Registered[b])
      BY <1>1, LengthType DEF PutAlias, TypeOK
    <2> QED BY <1>1, <2>1, <2>2
            DEF PutAlias, TypeOK, request, files, streams, history
  <1>2. CASE UNCHANGED vars
    BY <1>2 DEF vars, TypeOK
  <1> QED BY <1>1, <1>2, TypePublish, TypeStream, TypeRestart DEF Next

\* Every variable of the broker keeps its type, an alias never counts more
\* registrations than the pool makes (append, read, events, restarts).
THEOREM TypeCorrect == Spec => []TypeOK
  <1> QED BY TypeInit, TypeNext, PTL DEF Spec

-----------------------------------------------------------------------------
(* The strict cursor hides no mail *)

\* A line is in the file its address was resolved to; its request is past the
\* append.
Filed ==
  \A f \in File : \A i \in DOMAIN lines[f] :
    /\ FileOf[target[lines[f][i]]] = f
    /\ pc[lines[f][i]] \in {"written", "acked", "failed"}

\* The ts of the lines of a file rise strictly.
Rising ==
  \A f \in File : \A i, j \in DOMAIN lines[f] :
    i < j => ts[lines[f][i]] < ts[lines[f][j]]

\* The cached mark is never behind the file.
Cached ==
  \A f \in File : lastTs[f] # None =>
    \A i \in DOMAIN lines[f] : ts[lines[f][i]] <= lastTs[f]

\* A stamped message holds the lock, and is newer than its file.
Locked ==
  \A m \in Mail : pc[m] = "stamped" =>
    /\ lock = m
    /\ lastTs[FileOf[target[m]]] = ts[m]
    /\ \A i \in DOMAIN lines[FileOf[target[m]]] :
         ts[lines[FileOf[target[m]]][i]] < ts[m]

Dated == \A m \in Mail : pc[m] # "new" => ts[m] > None

\* A routed message goes to its address or to a target registered for it.
Routed ==
  \A m \in Mail : pc[m] \notin {"new", "refused"} =>
    \/ target[m] = to[m]
    \/ /\ to[m] \in Alias
       /\ \E k \in 1..aliases[to[m]] : target[m] = Registered[to[m]][k]

FilesInv == Filed /\ Rising /\ Cached /\ Locked /\ Dated /\ Routed

LEMMA MailIsSome == None \notin Mail
  BY DEF Mail, None

LEMMA LineType ==
  ASSUME TypeOK, NEW f \in File, NEW i \in DOMAIN lines[f]
  PROVE  lines[f][i] \in Mail
  BY DEF TypeOK

LEMMA PrevIsNewest ==
  ASSUME TypeOK, Rising, Cached, NEW f \in File, NEW i \in DOMAIN lines[f]
  PROVE  ts[lines[f][i]] <= Prev(f)
  <1>1. CASE lastTs[f] # None
    BY <1>1 DEF Cached, Prev
  <1>2. CASE lastTs[f] = None
    <2>1. lines[f] \in Seq(Mail) /\ lines[f] # <<>>
      BY DEF TypeOK
    <2>2. Len(lines[f]) \in DOMAIN lines[f] /\ i \in 1..Len(lines[f])
      BY <2>1
    <2>3. Prev(f) = ts[lines[f][Len(lines[f])]]
      BY <1>2, <2>1 DEF Prev
    <2>4. CASE i = Len(lines[f])
      BY <2>3, <2>4, LineType DEF TypeOK
    <2>5. CASE i < Len(lines[f])
      <3>1. ts[lines[f][i]] < ts[lines[f][Len(lines[f])]]
        BY <2>2, <2>5 DEF Rising
      <3>2. ts[lines[f][i]] \in Nat /\ ts[lines[f][Len(lines[f])]] \in Nat
        BY <2>2, LineType DEF TypeOK
      <3> QED BY <2>3, <3>1, <3>2
    <2> QED BY <2>2, <2>4, <2>5
  <1> QED BY <1>1, <1>2

\* A message that is not in a file yet moves no line's ts.
LEMMA LinesStay ==
  ASSUME TypeOK, Filed, NEW m \in Mail,
         pc[m] \notin {"written", "acked", "failed"},
         NEW f \in File, NEW i \in DOMAIN lines[f]
  PROVE  lines[f][i] # m
  BY DEF Filed

LEMMA FilesInit == Init => FilesInv
  BY MailIsSome
  DEF Init, FilesInv, Filed, Rising, Cached, Locked, Dated, Routed

LEMMA RouteKeepsFiles ==
  ASSUME TypeOK, FilesInv, NEW m \in Mail, Route(m)
  PROVE  FilesInv'
  <1> USE DEF FilesInv
  <1>1. /\ pc[m] = "new" /\ UNCHANGED <<aliases, to, lock, lines, lastTs>>
        /\ \A k \in Mail \ {m} :
             pc'[k] = pc[k] /\ ts'[k] = ts[k] /\ target'[k] = target[k]
        /\ pc'[m] \in {"routed", "refused"}
    BY DEF Route, files, TypeOK
  <1>2. ts'[m] > None
    <2>1. PICK t \in SentTs : ts' = [ts EXCEPT ![m] = t]
      BY DEF Route
    <2>2. t > None
      BY AddressAssumption DEF None
    <2> QED BY <2>1, <2>2 DEF TypeOK
  <1>3. \A f \in File : \A i \in DOMAIN lines[f] :
          /\ lines'[f][i] = lines[f][i] /\ lines[f][i] \in Mail \ {m}
    BY <1>1, LinesStay, LineType
  <1>4. Filed' /\ Rising' /\ Cached'
    BY <1>1, <1>3 DEF Filed, Rising, Cached
  <1>5. Locked'
    <2> SUFFICES ASSUME NEW k \in Mail, pc'[k] = "stamped"
                 PROVE  /\ lock' = k
                        /\ lastTs'[FileOf[target'[k]]] = ts'[k]
                        /\ \A i \in DOMAIN lines'[FileOf[target'[k]]] :
                             ts'[lines'[FileOf[target'[k]]][i]] < ts'[k]
      BY DEF Locked
    <2>1. k # m /\ pc[k] = "stamped" /\ FileOf[target[k]] \in File
      BY <1>1, FileOfType DEF TypeOK
    <2> QED BY <1>1, <1>3, <2>1 DEF Locked
  <1>6. Dated'
    BY <1>1, <1>2 DEF Dated
  <1>7. Routed'
    <2>1. ASSUME pc'[m] = "routed"
          PROVE  \/ target'[m] = to[m]
                 \/ /\ to[m] \in Alias
                    /\ \E k \in 1..aliases[to[m]] : target'[m] = Registered[to[m]][k]
      <3>1. target'[m] = Resolve(to[m])
        BY <2>1 DEF Route, TypeOK
      <3>2. CASE to[m] \in Alias /\ aliases[to[m]] > 0
        <4>1. aliases[to[m]] \in 1..aliases[to[m]]
          BY <3>2 DEF TypeOK
        <4> QED BY <3>1, <3>2, <4>1 DEF Resolve
      <3> QED BY <3>1, <3>2 DEF Resolve
    <2> QED BY <1>1, <2>1 DEF Routed
  <1> QED BY <1>4, <1>5, <1>6, <1>7

LEMMA StampKeepsFiles ==
  ASSUME TypeOK, FilesInv, NEW m \in Mail, Stamp(m)
  PROVE  FilesInv'
  <1> DEFINE f == FileOf[target[m]]
  <1> USE DEF FilesInv
  <1>1. /\ pc[m] = "routed" /\ lock = None /\ lock' = m
        /\ UNCHANGED <<aliases, to, target, lines>>
        /\ pc' = [pc EXCEPT ![m] = "stamped"]
        /\ ts' = [ts EXCEPT ![m] = Forward(ts[m], Prev(f))]
        /\ lastTs' = [lastTs EXCEPT ![f] = ts'[m]]
    BY DEF Stamp
  <1>2. f \in File
    BY FileOfType DEF TypeOK
  <1>3. ts[m] \in Nat /\ Prev(f) \in Nat
    BY <1>2, PrevType DEF TypeOK
  <1>4. ts'[m] \in Nat /\ ts'[m] > Prev(f)
    BY <1>1, <1>3 DEF Forward, TypeOK
  <1>5. \A g \in File : \A i \in DOMAIN lines[g] :
          /\ lines'[g][i] = lines[g][i] /\ lines[g][i] \in Mail \ {m}
          /\ ts'[lines[g][i]] = ts[lines[g][i]]
          /\ pc'[lines[g][i]] = pc[lines[g][i]]
          /\ ts[lines[g][i]] \in Nat
    BY <1>1, LinesStay, LineType DEF TypeOK
  <1>6. \A i \in DOMAIN lines[f] : ts[lines[f][i]] < ts'[m]
    <2> TAKE i \in DOMAIN lines[f]
    <2>1. ts[lines[f][i]] <= Prev(f)
      BY <1>2, PrevIsNewest
    <2> QED BY <1>2, <1>3, <1>4, <1>5, <2>1
  <1>7. lastTs'[f] = ts'[m] /\ \A g \in File \ {f} : lastTs'[g] = lastTs[g]
    BY <1>1, <1>2 DEF TypeOK
  <1>8. Filed' /\ Rising'
    BY <1>1, <1>5 DEF Filed, Rising
  <1>9. Cached'
    <2> SUFFICES ASSUME NEW g \in File, lastTs'[g] # None, NEW i \in DOMAIN lines[g]
                 PROVE  ts'[lines'[g][i]] <= lastTs'[g]
      BY <1>1 DEF Cached
    <2>1. CASE g = f
      BY <1>2, <1>4, <1>5, <1>6, <1>7, <2>1
    <2>2. CASE g # f
      BY <1>5, <1>7, <2>2 DEF Cached
    <2> QED BY <2>1, <2>2
  <1>10. Locked'
    <2> SUFFICES ASSUME NEW k \in Mail, pc'[k] = "stamped"
                 PROVE  /\ lock' = k
                        /\ lastTs'[FileOf[target'[k]]] = ts'[k]
                        /\ \A i \in DOMAIN lines'[FileOf[target'[k]]] :
                             ts'[lines'[FileOf[target'[k]]][i]] < ts'[k]
      BY DEF Locked
    <2>1. k = m
      BY <1>1, MailIsSome DEF Locked, TypeOK
    <2> QED BY <1>1, <1>2, <1>5, <1>6, <1>7, <2>1
  <1>11. Dated'
    <2>1. ts'[m] > None
      BY <1>3, <1>4 DEF None
    <2> QED BY <1>1, <2>1 DEF Dated, TypeOK
  <1>12. Routed'
    BY <1>1 DEF Routed, TypeOK
  <1> QED BY <1>8, <1>9, <1>10, <1>11, <1>12

\* What Write does to its file, unless a torn line takes the message.
LEMMA WriteAppends ==
  ASSUME TypeOK, NEW m \in Mail, Write(m), NEW g \in File
  PROVE  LET f == FileOf[target[m]] IN
         /\ f \in File
         /\ \/ lines'[g] = lines[g]
            \/ /\ g = f
               /\ DOMAIN lines'[g] = DOMAIN lines[g] \cup {Len(lines[g]) + 1}
               /\ \A i \in DOMAIN lines[g] :
                    i < Len(lines[g]) + 1 /\ i # Len(lines[g]) + 1
                      /\ lines'[g][i] = lines[g][i]
               /\ lines'[g][Len(lines[g]) + 1] = m
  <1> DEFINE f == FileOf[target[m]]
  <1>1. f \in File
    BY FileOfType DEF TypeOK
  <1>2. lines[g] \in Seq(Mail)
    BY DEF TypeOK
  <1>3. CASE torn[f]
    BY <1>1, <1>3 DEF Write
  <1>4. CASE ~torn[f] /\ g # f
    BY <1>1, <1>4 DEF Write, TypeOK
  <1>5. CASE ~torn[f] /\ g = f
    <2>1. lines'[g] = Append(lines[g], m)
      BY <1>1, <1>5 DEF Write, TypeOK
    <2>2. /\ DOMAIN lines[g] = 1..Len(lines[g])
          /\ DOMAIN Append(lines[g], m) = 1..(Len(lines[g]) + 1)
          /\ Len(lines[g]) \in Nat
          /\ \A i \in 1..Len(lines[g]) : Append(lines[g], m)[i] = lines[g][i]
          /\ Append(lines[g], m)[Len(lines[g]) + 1] = m
      BY <1>2
    <2>3. \A i \in DOMAIN lines[g] : i < Len(lines[g]) + 1 /\ i # Len(lines[g]) + 1
      BY <2>2
    <2>4. 1..(Len(lines[g]) + 1) = 1..Len(lines[g]) \cup {Len(lines[g]) + 1}
      BY <2>2
    <2> QED BY <1>1, <1>5, <2>1, <2>2, <2>3, <2>4
  <1> QED BY <1>3, <1>4, <1>5

LEMMA WriteKeepsFiles ==
  ASSUME TypeOK, FilesInv, NEW m \in Mail, Write(m)
  PROVE  FilesInv'
  <1> DEFINE f == FileOf[target[m]]
  <1> USE DEF FilesInv
  <1>1. /\ pc[m] = "stamped" /\ lock' = None
        /\ UNCHANGED <<aliases, to, ts, target, lastTs>>
        /\ pc' = [pc EXCEPT ![m] = "written"]
    BY DEF Write
  <1>2. f \in File
    BY FileOfType DEF TypeOK
  <1>3. \A g \in File : \A i \in DOMAIN lines[g] :
          lines[g][i] \in Mail \ {m} /\ ts[lines[g][i]] \in Nat
    BY <1>1, LinesStay, LineType DEF TypeOK
  <1>4. \A i \in DOMAIN lines[f] : ts[lines[f][i]] < ts[m]
    BY <1>1 DEF Locked
  <1>5. lock = m /\ lastTs[f] = ts[m] /\ ts[m] \in Nat
    BY <1>1 DEF Locked, TypeOK
  <1>6. Filed'
    <2> SUFFICES ASSUME NEW g \in File, NEW i \in DOMAIN lines'[g]
                 PROVE  /\ FileOf[target[lines'[g][i]]] = g
                        /\ pc'[lines'[g][i]] \in {"written", "acked", "failed"}
      BY <1>1 DEF Filed
    <2>1. ASSUME NEW j \in DOMAIN lines[g]
          PROVE  /\ FileOf[target[lines[g][j]]] = g
                 /\ pc'[lines[g][j]] \in {"written", "acked", "failed"}
      BY <1>1, <1>3 DEF Filed, TypeOK
    <2>2. pc'[m] = "written"
      BY <1>1 DEF TypeOK
    <2> QED BY <2>1, <2>2, WriteAppends
  <1>7. Rising'
    <2> SUFFICES ASSUME NEW g \in File, NEW i \in DOMAIN lines'[g],
                        NEW j \in DOMAIN lines'[g], i < j
                 PROVE  ts[lines'[g][i]] < ts[lines'[g][j]]
      BY <1>1 DEF Rising
    <2>1. CASE lines'[g] = lines[g]
      BY <2>1 DEF Rising
    <2>2. CASE lines'[g] # lines[g]
      <3>1. /\ g = f
            /\ DOMAIN lines'[g] = DOMAIN lines[g] \cup {Len(lines[g]) + 1}
            /\ \A k \in DOMAIN lines[g] :
                 k < Len(lines[g]) + 1 /\ k # Len(lines[g]) + 1
                   /\ lines'[g][k] = lines[g][k]
            /\ lines'[g][Len(lines[g]) + 1] = m
        BY <2>2, WriteAppends
      <3>2. /\ DOMAIN lines[g] \subseteq Nat /\ Len(lines[g]) + 1 \in Nat
            /\ i \in Nat /\ j \in Nat
        <4>1. lines[g] \in Seq(Mail)
          BY DEF TypeOK
        <4>2. DOMAIN lines[g] \subseteq Nat /\ Len(lines[g]) + 1 \in Nat
          BY <4>1
        <4> QED BY <3>1, <4>2
      <3>3. i \in DOMAIN lines[g]
        BY <3>1, <3>2
      <3>4. CASE j \in DOMAIN lines[g]
        BY <3>1, <3>3, <3>4 DEF Rising
      <3>5. CASE j = Len(lines[g]) + 1
        BY <1>4, <3>1, <3>3, <3>5
      <3> QED BY <3>1, <3>4, <3>5
    <2> QED BY <2>1, <2>2
  <1>8. Cached'
    <2> SUFFICES ASSUME NEW g \in File, lastTs[g] # None, NEW i \in DOMAIN lines'[g]
                 PROVE  ts[lines'[g][i]] <= lastTs[g]
      BY <1>1 DEF Cached
    <2>1. \A k \in DOMAIN lines[g] : ts[lines[g][k]] <= lastTs[g]
      BY DEF Cached
    <2>2. g = f => ts[m] <= lastTs[g]
      BY <1>5
    <2> QED BY <2>1, <2>2, WriteAppends
  <1>9. Locked'
    <2>1. \A k \in Mail : pc'[k] # "stamped"
      BY <1>1, <1>5 DEF Locked, TypeOK
    <2> QED BY <2>1 DEF Locked
  <1>10. Dated' /\ Routed'
    BY <1>1 DEF Dated, Routed, TypeOK
  <1> QED BY <1>6, <1>7, <1>8, <1>9, <1>10

\* A request that leaves the lock, or the broker that stops, writes no line.
LEMMA FailedKeepsFiles ==
  ASSUME TypeOK, FilesInv,
         UNCHANGED <<aliases, to, ts, target, lines>>,
         lastTs' = lastTs \/ lastTs' = [f \in File |-> None],
         \A k \in Mail : pc'[k] = pc[k] \/ (pc[k] # "new" /\ pc[k] # "refused"
                                             /\ pc'[k] = "failed"),
         \A k \in Mail : pc'[k] # "stamped"
  PROVE  FilesInv'
  <1> USE DEF FilesInv
  <1>1. Filed' /\ Rising'
    BY LineType DEF Filed, Rising
  <1>2. Cached'
    BY DEF Cached
  <1>3. Locked'
    BY DEF Locked
  <1>4. Dated' /\ Routed'
    BY DEF Dated, Routed
  <1> QED BY <1>1, <1>2, <1>3, <1>4

LEMMA FilesNext ==
  ASSUME TypeOK, FilesInv, [Next]_vars
  PROVE  FilesInv'
  <1>1. ASSUME NEW a \in Alias, PutAlias(a) PROVE FilesInv'
    <2>1. UNCHANGED <<pc, to, ts, target, lock, lines, lastTs>>
      BY <1>1 DEF PutAlias, request, files
    <2>2. Filed' /\ Rising' /\ Cached' /\ Locked' /\ Dated'
      BY <2>1 DEF FilesInv, Filed, Rising, Cached, Locked, Dated
    <2>3. \A b \in Alias : 1..aliases[b] \subseteq 1..aliases'[b]
      BY <1>1 DEF PutAlias, TypeOK
    <2>4. Routed'
      BY <2>1, <2>3 DEF FilesInv, Routed
    <2> QED BY <2>2, <2>4 DEF FilesInv
  <1>2. ASSUME NEW m \in Mail, WriteTorn(m) PROVE FilesInv'
    <2>1. \A k \in Mail : pc'[k] # "stamped"
      BY <1>2 DEF WriteTorn, FilesInv, Locked, TypeOK
    <2> QED BY <1>2, <2>1, FailedKeepsFiles DEF WriteTorn, TypeOK
  <1>3. ASSUME NEW m \in Mail, Notify(m) PROVE FilesInv'
    <2>1. /\ UNCHANGED <<aliases, to, ts, target, lock, lines, lastTs>>
          /\ pc[m] = "written" /\ pc' = [pc EXCEPT ![m] = "acked"]
      BY <1>3 DEF Notify, files
    <2>2. Filed' /\ Rising' /\ Cached'
      BY <2>1, LineType DEF FilesInv, Filed, Rising, Cached, TypeOK
    <2>3. Locked' /\ Dated' /\ Routed'
      BY <2>1 DEF FilesInv, Locked, Dated, Routed, TypeOK
    <2> QED BY <2>2, <2>3 DEF FilesInv
  <1>4. CASE Restart
    <2>1. \A k \in Mail : pc'[k] # "stamped"
      BY <1>4 DEF Restart
    <2> QED BY <1>4, <2>1, FailedKeepsFiles DEF Restart
  <1>5. CASE UNCHANGED <<aliases, request, lock, files>>
    BY <1>5 DEF request, files, FilesInv, Filed, Rising, Cached, Locked, Dated, Routed
  <1>6. ASSUME NEW s \in Stream,
               Connect(s) \/ Read(s) \/ Yield(s) \/ Wait(s) \/ Wake(s)
                 \/ KeepAlive(s) \/ Drop(s)
        PROVE  UNCHANGED <<aliases, request, lock, files>>
    BY <1>6 DEF Connect, Read, Yield, Wait, Wake, KeepAlive, Resume, Drop
  <1>7. UNCHANGED vars => UNCHANGED <<aliases, request, lock, files>>
    BY DEF vars, request, files
  <1> QED BY <1>1, <1>2, <1>3, <1>4, <1>5, <1>6, <1>7, RouteKeepsFiles,
             StampKeepsFiles, WriteKeepsFiles DEF Next

\* The cursor is the ts of a line of the inbox.
CursorOnLine ==
  \A s \in Stream :
    cursor[s] = None \/ \E i \in DOMAIN lines[Inbox(s)] : cursor[s] = ts[lines[Inbox(s)][i]]

\* A batch is newer than the cursor, and leaves out nothing that comes before a
\* mail it holds.
BatchWhole ==
  \A s \in Stream :
    /\ \A m \in batch[s] : In(m, Inbox(s)) /\ ts[m] > cursor[s]
    /\ \A i, j \in DOMAIN lines[Inbox(s)] : \A m \in Mail :
         (/\ i < j
          /\ lines[Inbox(s)][i] = m /\ IsFor(m, s) /\ ts[m] > cursor[s]
          /\ lines[Inbox(s)][j] \in batch[s]) => m \in batch[s]

StreamsInv == CursorOnLine /\ BatchWhole /\ NothingSkipped

LEMMA StreamsInit == Init => StreamsInv
  <1> SUFFICES ASSUME Init PROVE StreamsInv
    OBVIOUS
  <1>1. \A s \in Stream : lines[Inbox(s)] = <<>> /\ batch[s] = {} /\ cursor[s] = None
    BY InboxType DEF Init
  <1> QED BY <1>1 DEF StreamsInv, CursorOnLine, BatchWhole, NothingSkipped, In

\* An alias that moves brings no old mail to a stream: the lines for it are in
\* other files.
LEMMA NoMailComesBack ==
  ASSUME TypeOK, FilesInv, NEW a \in Alias, PutAlias(a), NEW s \in Stream,
         NEW m \in Mail, In(m, Inbox(s)), IsFor(m, s)'
  PROVE  IsFor(m, s)
  <1> DEFINE k == aliases[a] + 1
  <1>1. UNCHANGED <<pc, to, target, lines>> /\ aliases' = [aliases EXCEPT ![a] = k]
        /\ aliases[a] < Len(Registered[a])
    BY DEF PutAlias, request, files
  <1>2. aliases[a] \in Nat /\ k \in DOMAIN Registered[a]
        /\ 1..aliases[a] \subseteq DOMAIN Registered[a]
    <2>1. aliases[a] \in Nat /\ Len(Registered[a]) \in Nat
      BY LengthType DEF TypeOK
    <2>2. DOMAIN Registered[a] = 1..Len(Registered[a])
      <3>1. Registered[a] \in Seq(Address \ (Alias \cup Relative))
        BY AddressAssumption
      <3> QED BY <3>1
    <2> QED BY <1>1, <2>1, <2>2
  <1>3. CASE to[m] # a
    BY <1>1, <1>3 DEF IsFor, Resolve, TypeOK
  <1>4. CASE to[m] = a
    <2>1. Sub[s] = Registered[a][k]
      BY <1>1, <1>2, <1>4 DEF IsFor, Resolve, TypeOK
    <2>2. FileOf[target[m]] = FileOf[Registered[a][k]] /\ pc[m] \notin {"new", "refused"}
      BY <2>1, InboxType DEF In, FilesInv, Filed, Inbox
    <2>3. CASE target[m] = a
      BY <1>2, <2>2, <2>3, AliasAssumption
    <2>4. ASSUME NEW j \in 1..aliases[a], target[m] = Registered[a][j] PROVE FALSE
      <3>1. j = k
        BY <1>2, <2>2, <2>4, AliasAssumption
      <3> QED BY <1>2, <3>1
    <2> QED BY <1>4, <2>2, <2>3, <2>4 DEF FilesInv, Routed
  <1> QED BY <1>3, <1>4

LEMMA PutAliasKeepsStreams ==
  ASSUME TypeOK, FilesInv, StreamsInv, NEW a \in Alias, PutAlias(a)
  PROVE  StreamsInv'
  <1>1. UNCHANGED <<ts, lines, batch, cursor, received>>
    BY DEF PutAlias, request, files, streams
  <1>2. CursorOnLine'
    BY <1>1 DEF StreamsInv, CursorOnLine, Inbox
  <1>3. \A s \in Stream : \A m \in Mail : In(m, Inbox(s)) /\ IsFor(m, s)' => IsFor(m, s)
    BY NoMailComesBack
  <1>4. \A s \in Stream : \A i \in DOMAIN lines[Inbox(s)] :
          lines[Inbox(s)][i] \in Mail /\ In(lines[Inbox(s)][i], Inbox(s))
    BY InboxType, LineType DEF In
  <1>5. BatchWhole'
    <2> SUFFICES ASSUME NEW s \in Stream
                 PROVE  /\ \A m \in batch[s] : In(m, Inbox(s)) /\ ts[m] > cursor[s]
                        /\ \A i, j \in DOMAIN lines[Inbox(s)] : \A m \in Mail :
                             (/\ i < j
                              /\ lines[Inbox(s)][i] = m /\ IsFor(m, s)'
                              /\ ts[m] > cursor[s]
                              /\ lines[Inbox(s)][j] \in batch[s]) => m \in batch[s]
      BY <1>1 DEF BatchWhole, In, Inbox, IsFor, Resolve
    <2>1. \A i \in DOMAIN lines[Inbox(s)] : \A m \in Mail :
            lines[Inbox(s)][i] = m /\ IsFor(m, s)' => IsFor(m, s)
      BY <1>3, <1>4
    <2> QED BY <2>1 DEF StreamsInv, BatchWhole
  <1>6. NothingSkipped'
    BY <1>1, <1>3 DEF StreamsInv, NothingSkipped, In, Inbox, HasReceived
  <1> QED BY <1>2, <1>5, <1>6 DEF StreamsInv

\* A request before its line is written changes no ts that a stream compares.
LEMMA RequestKeepsStreams ==
  ASSUME TypeOK, FilesInv, StreamsInv, NEW m \in Mail, Route(m) \/ Stamp(m)
  PROVE  StreamsInv'
  <1>1. /\ UNCHANGED <<aliases, to, lines, batch, cursor, received>>
        /\ \A k \in Mail \ {m} : ts'[k] = ts[k]
    BY DEF Route, Stamp, files, streams, TypeOK
  <1>2. pc[m] \notin {"written", "acked", "failed"}
    BY DEF Route, Stamp
  <1>3. \A f \in File : \A i \in DOMAIN lines[f] : ts'[lines[f][i]] = ts[lines[f][i]]
    BY <1>1, <1>2, LinesStay, LineType DEF FilesInv
  <1>4. \A s \in Stream : \A k \in Mail : In(k, Inbox(s)) => ts'[k] = ts[k]
    BY <1>3, InboxType DEF In
  <1>5. CursorOnLine'
    BY <1>1, <1>3, InboxType DEF StreamsInv, CursorOnLine, Inbox
  <1>6. BatchWhole'
    <2>1. \A s \in Stream : \A i \in DOMAIN lines[Inbox(s)] : \A k \in Mail :
            lines[Inbox(s)][i] = k => ts'[k] = ts[k]
      BY <1>3, InboxType
    <2>2. \A s \in Stream : \A k \in batch[s] : In(k, Inbox(s)) /\ ts'[k] > cursor[s]
      BY <1>4 DEF StreamsInv, BatchWhole, TypeOK
    <2>3. \A s \in Stream : \A i, j \in DOMAIN lines[Inbox(s)] : \A k \in Mail :
            (/\ i < j
             /\ lines[Inbox(s)][i] = k /\ IsFor(k, s) /\ ts'[k] > cursor[s]
             /\ lines[Inbox(s)][j] \in batch[s]) => k \in batch[s]
      BY <2>1 DEF StreamsInv, BatchWhole
    <2> QED BY <1>1, <2>2, <2>3 DEF BatchWhole, In, Inbox, IsFor, Resolve
  <1>7. NothingSkipped'
    BY <1>1, <1>4 DEF StreamsInv, NothingSkipped, In, Inbox, IsFor, Resolve,
                      HasReceived
  <1> QED BY <1>5, <1>6, <1>7 DEF StreamsInv

\* A new line is newer than every cursor on its file.
LEMMA WriteKeepsStreams ==
  ASSUME TypeOK, FilesInv, StreamsInv, NEW m \in Mail, Write(m)
  PROVE  StreamsInv'
  <1>1. pc[m] = "stamped" /\ UNCHANGED <<aliases, to, ts, batch, cursor, received>>
    BY DEF Write, streams
  <1>2. ASSUME NEW s \in Stream
        PROVE  \/ lines'[Inbox(s)] = lines[Inbox(s)]
               \/ /\ DOMAIN lines'[Inbox(s)]
                       = DOMAIN lines[Inbox(s)] \cup {Len(lines[Inbox(s)]) + 1}
                  /\ \A i \in DOMAIN lines[Inbox(s)] :
                       i < Len(lines[Inbox(s)]) + 1 /\ i # Len(lines[Inbox(s)]) + 1
                         /\ lines'[Inbox(s)][i] = lines[Inbox(s)][i]
                  /\ lines'[Inbox(s)][Len(lines[Inbox(s)]) + 1] = m
                  /\ ts[m] > cursor[s]
                  /\ m \notin batch[s]
    <2>1. Inbox(s) \in File
      BY InboxType
    <2>2. CASE Inbox(s) = FileOf[target[m]]
      <3>1. ts[m] > None
        BY <1>1 DEF FilesInv, Dated
      <3>2. \A i \in DOMAIN lines[Inbox(s)] : ts[lines[Inbox(s)][i]] < ts[m]
        BY <1>1, <2>2 DEF FilesInv, Locked
      <3>3. ts[m] > cursor[s]
        BY <3>1, <3>2 DEF StreamsInv, CursorOnLine
      <3>4. m \notin batch[s]
        BY <1>1, <2>1, LinesStay DEF StreamsInv, BatchWhole, In, FilesInv
      <3> QED BY <2>1, <3>3, <3>4, WriteAppends
    <2> QED BY <2>1, <2>2, WriteAppends
  <1>3. ASSUME NEW s \in Stream, NEW i \in DOMAIN lines[Inbox(s)]
        PROVE  i \in DOMAIN lines'[Inbox(s)] /\ lines'[Inbox(s)][i] = lines[Inbox(s)][i]
    BY <1>2
  <1>4. ASSUME NEW s \in Stream, NEW i \in DOMAIN lines'[Inbox(s)],
               lines'[Inbox(s)][i] # m
        PROVE  i \in DOMAIN lines[Inbox(s)]
    BY <1>2, <1>4
  <1>5. CursorOnLine'
    <2> SUFFICES ASSUME NEW s \in Stream, cursor[s] # None
                 PROVE  \E i \in DOMAIN lines'[Inbox(s)] :
                          cursor[s] = ts[lines'[Inbox(s)][i]]
      BY <1>1 DEF CursorOnLine, Inbox
    <2>1. PICK i \in DOMAIN lines[Inbox(s)] : cursor[s] = ts[lines[Inbox(s)][i]]
      BY DEF StreamsInv, CursorOnLine
    <2> QED BY <1>3, <2>1
  <1>6. BatchWhole'
    <2> SUFFICES ASSUME NEW s \in Stream
                 PROVE  /\ \A k \in batch[s] :
                             /\ \E i \in DOMAIN lines'[Inbox(s)] : lines'[Inbox(s)][i] = k
                             /\ ts[k] > cursor[s]
                        /\ \A i, j \in DOMAIN lines'[Inbox(s)] : \A k \in Mail :
                             (/\ i < j
                              /\ lines'[Inbox(s)][i] = k /\ IsFor(k, s)
                              /\ ts[k] > cursor[s]
                              /\ lines'[Inbox(s)][j] \in batch[s]) => k \in batch[s]
      BY <1>1 DEF BatchWhole, In, Inbox, IsFor, Resolve
    <2>1. \A k \in batch[s] :
            /\ \E i \in DOMAIN lines'[Inbox(s)] : lines'[Inbox(s)][i] = k
            /\ ts[k] > cursor[s]
      BY <1>3 DEF StreamsInv, BatchWhole, In
    <2>2. ASSUME NEW i \in DOMAIN lines'[Inbox(s)], NEW j \in DOMAIN lines'[Inbox(s)],
                 NEW k \in Mail, i < j, lines'[Inbox(s)][i] = k, IsFor(k, s),
                 ts[k] > cursor[s], lines'[Inbox(s)][j] \in batch[s]
          PROVE  k \in batch[s]
      <3>1. j \in DOMAIN lines[Inbox(s)] /\ lines'[Inbox(s)][j] = lines[Inbox(s)][j]
        BY <1>2, <2>2
      <3>2. i \in DOMAIN lines[Inbox(s)] /\ lines'[Inbox(s)][i] = lines[Inbox(s)][i]
        <4>1. lines[Inbox(s)] \in Seq(Mail)
          BY InboxType DEF TypeOK
        <4>2. DOMAIN lines[Inbox(s)] = 1..Len(lines[Inbox(s)])
              /\ Len(lines[Inbox(s)]) \in Nat
          BY <4>1
        <4>3. i # Len(lines[Inbox(s)]) + 1
          BY <2>2, <3>1, <4>2
        <4> QED BY <1>2, <4>3
      <3> QED BY <2>2, <3>1, <3>2 DEF StreamsInv, BatchWhole
    <2> QED BY <2>1, <2>2
  <1>7. NothingSkipped'
    <2> SUFFICES ASSUME NEW s \in Stream, NEW k \in Mail, IsFor(k, s),
                        NEW i \in DOMAIN lines'[Inbox(s)], lines'[Inbox(s)][i] = k
                 PROVE  HasReceived(s, k) \/ ts[k] > cursor[s]
      BY <1>1 DEF NothingSkipped, In, Inbox, IsFor, Resolve, HasReceived
    <2>1. CASE i \in DOMAIN lines[Inbox(s)]
      BY <1>3, <2>1 DEF StreamsInv, NothingSkipped, In
    <2>2. CASE i \notin DOMAIN lines[Inbox(s)]
      BY <1>2, <2>2
    <2> QED BY <2>1, <2>2
  <1> QED BY <1>5, <1>6, <1>7 DEF StreamsInv

LEMMA ReadKeepsStreams ==
  ASSUME TypeOK, StreamsInv, NEW s \in Stream, Read(s)
  PROVE  StreamsInv'
  <1>1. UNCHANGED <<aliases, to, ts, lines, cursor, received>>
    BY DEF Read, request, files
  <1>4. batch' = [batch EXCEPT ![s] = {m \in Mail : Unread(m, s)}]
    BY DEF Read
  <1>5. batch' \in [Stream -> SUBSET Mail]
    BY <1>4 DEF TypeOK
  <1>2. CursorOnLine' /\ NothingSkipped'
    BY <1>1 DEF StreamsInv, CursorOnLine, NothingSkipped, In, Inbox, IsFor, Resolve,
                HasReceived
  <1>3. BatchWhole'
    <2> SUFFICES ASSUME NEW q \in Stream
                 PROVE  /\ \A m \in batch'[q] : In(m, Inbox(q)) /\ ts[m] > cursor[q]
                        /\ \A i, j \in DOMAIN lines[Inbox(q)] : \A m \in Mail :
                             (/\ i < j
                              /\ lines[Inbox(q)][i] = m /\ IsFor(m, q)
                              /\ ts[m] > cursor[q]
                              /\ lines[Inbox(q)][j] \in batch'[q]) => m \in batch'[q]
      BY <1>1, <1>5 DEF BatchWhole, In, Inbox, IsFor, Resolve
    <2>1. CASE q = s
      <3>1. batch'[q] = {m \in Mail : Unread(m, q)}
        BY <1>4, <2>1 DEF TypeOK
      <3> QED BY <3>1 DEF Unread, In
    <2>2. CASE q # s
      <3>1. batch'[q] = batch[q]
        BY <1>4, <2>2 DEF TypeOK
      <3> QED BY <3>1 DEF StreamsInv, BatchWhole
    <2> QED BY <2>1, <2>2
  <1> QED BY <1>2, <1>3 DEF StreamsInv

\* A stream hands out the first of its batch: what comes before it in the file
\* and is for the stream was received already.
LEMMA YieldKeepsStreams ==
  ASSUME TypeOK, FilesInv, StreamsInv, NEW s \in Stream, Yield(s)
  PROVE  StreamsInv'
  <1> DEFINE f == Inbox(s)
  <1>1. f \in File /\ lines[f] \in Seq(Mail)
    BY InboxType DEF TypeOK
  <1>2. PICK i \in DOMAIN lines[f] :
          /\ lines[f][i] \in batch[s]
          /\ \A j \in 1..(i - 1) : lines[f][j] \notin batch[s]
          /\ received' = [received EXCEPT ![s] = Append(@, lines[f][i])]
          /\ cursor' = [cursor EXCEPT ![s] = ts[lines[f][i]]]
          /\ batch' = [batch EXCEPT ![s] = @ \ {lines[f][i]}]
    BY DEF Yield
  <1> DEFINE m == lines[f][i]
  <1>3. UNCHANGED <<aliases, to, ts, lines>>
    BY DEF Yield, request, files
  <1>4. m \in Mail
    BY <1>1, LineType
  <1>5. cursor'[s] = ts[m] /\ batch'[s] = batch[s] \ {m}
        /\ \A q \in Stream \ {s} :
             cursor'[q] = cursor[q] /\ batch'[q] = batch[q] /\ received'[q] = received[q]
    BY <1>2 DEF TypeOK
  <1>6. \A k \in Mail : HasReceived(s, k) \/ k = m => HasReceived(s, k)'
    <2>1. received[s] \in Seq(Mail) /\ received'[s] = Append(received[s], m)
      BY <1>2 DEF TypeOK
    <2>2. /\ \A j \in DOMAIN received[s] :
               j \in DOMAIN received'[s] /\ received'[s][j] = received[s][j]
          /\ Len(received[s]) + 1 \in DOMAIN received'[s]
          /\ received'[s][Len(received[s]) + 1] = m
      BY <1>4, <2>1
    <2> QED BY <2>2 DEF HasReceived
  <1>7. \A j \in DOMAIN lines[f] : ts[lines[f][j]] \in Nat
    BY <1>1, LineType DEF TypeOK
  <1>8. CursorOnLine'
    <2> SUFFICES ASSUME NEW q \in Stream, cursor'[q] # None
                 PROVE  \E j \in DOMAIN lines[Inbox(q)] :
                          cursor'[q] = ts[lines[Inbox(q)][j]]
      BY <1>3 DEF CursorOnLine, Inbox
    <2>1. CASE q = s
      BY <1>5, <2>1
    <2>2. CASE q # s
      BY <1>5, <2>2 DEF StreamsInv, CursorOnLine
    <2> QED BY <2>1, <2>2
  <1>9. BatchWhole'
    <2> SUFFICES ASSUME NEW q \in Stream
                 PROVE  /\ \A k \in batch'[q] : In(k, Inbox(q)) /\ ts[k] > cursor'[q]
                        /\ \A a, b \in DOMAIN lines[Inbox(q)] : \A k \in Mail :
                             (/\ a < b
                              /\ lines[Inbox(q)][a] = k /\ IsFor(k, q)
                              /\ ts[k] > cursor'[q]
                              /\ lines[Inbox(q)][b] \in batch'[q]) => k \in batch'[q]
      BY <1>3 DEF BatchWhole, In, Inbox, IsFor, Resolve
    <2>1. CASE q = s
      <3>1. ts[m] > cursor[s] /\ cursor[s] \in Nat /\ ts[m] \in Nat
        BY <1>2, <1>7 DEF StreamsInv, BatchWhole, TypeOK
      <3>2. ASSUME NEW k \in batch'[s] PROVE In(k, f) /\ ts[k] > ts[m]
        <4>1. k \in batch[s] /\ k # m
          BY <1>5
        <4>2. PICK j \in DOMAIN lines[f] : lines[f][j] = k
          BY <4>1 DEF StreamsInv, BatchWhole, In
        <4>3. i < j
          BY <1>1, <1>2, <4>1, <4>2
        <4> QED BY <1>1, <4>2, <4>3 DEF FilesInv, Rising, In
      <3>3. ASSUME NEW a \in DOMAIN lines[f], NEW b \in DOMAIN lines[f], NEW k \in Mail,
                   a < b, lines[f][a] = k, IsFor(k, s), ts[k] > ts[m],
                   lines[f][b] \in batch'[s]
            PROVE  k \in batch'[s]
        <4>1. lines[f][b] \in batch[s] /\ k # m
          BY <1>5, <3>1, <3>3
        <4>2. ts[k] > cursor[s]
          BY <1>7, <3>1, <3>3
        <4> QED BY <1>5, <3>3, <4>1, <4>2 DEF StreamsInv, BatchWhole
      <3> QED BY <1>5, <2>1, <3>2, <3>3
    <2>2. CASE q # s
      BY <1>5, <2>2 DEF StreamsInv, BatchWhole
    <2> QED BY <2>1, <2>2
  <1>10. NothingSkipped'
    <2> SUFFICES ASSUME NEW q \in Stream, NEW k \in Mail,
                        In(k, Inbox(q)), IsFor(k, q)
                 PROVE  HasReceived(q, k)' \/ ts[k] > cursor'[q]
      BY <1>3 DEF NothingSkipped, In, Inbox, IsFor, Resolve
    <2>1. CASE q # s
      BY <1>5, <2>1 DEF StreamsInv, NothingSkipped, HasReceived
    <2>2. CASE q = s
      <3>1. PICK j \in DOMAIN lines[f] : lines[f][j] = k
        BY <2>2 DEF In
      <3>2. CASE j = i
        BY <1>6, <2>2, <3>1, <3>2
      <3>3. CASE i < j
        BY <1>1, <1>5, <1>7, <2>2, <3>1, <3>3 DEF FilesInv, Rising
      <3>4. CASE j < i
        <4>1. k \notin batch[s]
          BY <1>1, <1>2, <3>1, <3>4
        <4>2. ~(ts[k] > cursor[s])
          BY <1>1, <1>2, <2>2, <3>1, <3>4, <4>1 DEF StreamsInv, BatchWhole
        <4>3. HasReceived(s, k)
          BY <2>2, <4>2 DEF StreamsInv, NothingSkipped
        <4> QED BY <1>6, <2>2, <4>3
      <3> QED BY <1>1, <3>2, <3>3, <3>4
    <2> QED BY <2>1, <2>2
  <1> QED BY <1>8, <1>9, <1>10 DEF StreamsInv

\* Steps that may empty batches and change nothing else a cursor depends on.
LEMMA EmptiedKeepsStreams ==
  ASSUME TypeOK, StreamsInv,
         UNCHANGED <<aliases, to, ts, lines, cursor, received>>,
         \A s \in Stream : batch'[s] \in {batch[s], {}}
  PROVE  StreamsInv'
  <1>1. CursorOnLine' /\ NothingSkipped'
    BY DEF StreamsInv, CursorOnLine, NothingSkipped, In, Inbox, IsFor, Resolve,
           HasReceived
  <1>2. BatchWhole'
    BY DEF StreamsInv, BatchWhole, In, Inbox, IsFor, Resolve
  <1> QED BY <1>1, <1>2 DEF StreamsInv

LEMMA StreamsNext ==
  ASSUME TypeOK, FilesInv, StreamsInv, [Next]_vars
  PROVE  StreamsInv'
  <1>1. ASSUME NEW m \in Mail, WriteTorn(m) \/ Notify(m) PROVE StreamsInv'
    <2>1. UNCHANGED <<aliases, to, ts, lines, cursor, received, batch>>
      BY <1>1 DEF WriteTorn, Notify, files, streams
    <2> QED BY <2>1, EmptiedKeepsStreams
  <1>2. ASSUME NEW s \in Stream, Connect(s) \/ Wait(s) \/ Wake(s) \/ KeepAlive(s)
        PROVE  StreamsInv'
    <2>1. UNCHANGED <<aliases, to, ts, lines, cursor, received, batch>>
      BY <1>2 DEF Connect, Wait, Wake, KeepAlive, Resume, request, files
    <2> QED BY <2>1, EmptiedKeepsStreams
  <1>3. ASSUME NEW s \in Stream, Drop(s) PROVE StreamsInv'
    <2>1. UNCHANGED <<aliases, to, ts, lines, cursor, received>>
          /\ batch' = [batch EXCEPT ![s] = {}]
      BY <1>3 DEF Drop, request, files
    <2> QED BY <2>1, EmptiedKeepsStreams DEF TypeOK
  <1>4. CASE Restart
    <2>1. UNCHANGED <<aliases, to, ts, lines, cursor, received>>
          /\ \A s \in Stream : batch'[s] = {}
      BY <1>4 DEF Restart
    <2> QED BY <2>1, EmptiedKeepsStreams
  <1>5. CASE UNCHANGED vars
    <2>1. UNCHANGED <<aliases, to, ts, lines, cursor, received, batch>>
      BY <1>5 DEF vars
    <2> QED BY <2>1, EmptiedKeepsStreams
  <1> QED BY <1>1, <1>2, <1>3, <1>4, <1>5, PutAliasKeepsStreams,
             RequestKeepsStreams, WriteKeepsStreams, ReadKeepsStreams,
             YieldKeepsStreams DEF Next

\* The strict cursor hides no mail from any stream, whatever the senders' clocks
\* say and however appends, reads, restarts, broken connections and aliases that
\* move interleave (append's stamp under the lock, read's filter, events).
THEOREM NoMailIsHidden == Spec => []NothingSkipped
  <1>1. Init => TypeOK /\ FilesInv /\ StreamsInv
    BY TypeInit, FilesInit, StreamsInit
  <1>2. TypeOK /\ FilesInv /\ StreamsInv /\ [Next]_vars
          => (TypeOK /\ FilesInv /\ StreamsInv)'
    BY TypeNext, FilesNext, StreamsNext
  <1>3. StreamsInv => NothingSkipped
    BY DEF StreamsInv
  <1> QED BY <1>1, <1>2, <1>3, PTL DEF Spec

-----------------------------------------------------------------------------
(* A stream does not sleep on mail *)

Sole(s) == \A q \in Stream : Sub[q] = Sub[s] => q = s

\* A stream that has not read a mail, notified already, is about to: it reads
\* next, or holds the mail in its batch, or will find its event set.
WakeInv ==
  \A s \in Stream : Sole(s) => \A m \in Mail :
    Unread(m, s) /\ pc[m] # "written" =>
      \/ at[s] \in {"away", "reading", "woken"}
      \/ flag[Sub[s]]
      \/ at[s] = "yielding" /\ m \in batch[s]

LEMMA WakeInit == Init => WakeInv
  BY DEF Init, WakeInv

\* Steps of a request before it notifies.
LEMMA RequestKeepsWake ==
  ASSUME TypeOK, FilesInv, WakeInv, NEW m \in Mail,
         Route(m) \/ Stamp(m) \/ Write(m) \/ WriteTorn(m)
  PROVE  WakeInv'
  <1>1. /\ UNCHANGED <<aliases, to, at, flag, batch, cursor>>
        /\ \A k \in Mail \ {m} : pc'[k] = pc[k] /\ ts'[k] = ts[k]
        /\ pc[m] \notin {"written", "acked", "failed"}
        /\ pc'[m] = "written" \/ lines' = lines
    BY DEF Route, Stamp, Write, WriteTorn, files, streams, TypeOK
  <1>2. ASSUME NEW s \in Stream, NEW k \in Mail, Unread(k, s)', pc'[k] # "written"
        PROVE  Unread(k, s) /\ pc[k] # "written"
    <2>1. PICK i \in DOMAIN lines'[Inbox(s)] : lines'[Inbox(s)][i] = k
      BY <1>2 DEF Unread, In, Inbox
    <2>2. k # m
      <3>1. CASE lines' = lines
        BY <1>1, <2>1, <3>1, LinesStay, InboxType DEF FilesInv
      <3> QED BY <1>1, <1>2, <3>1
    <2>3. In(k, Inbox(s))
      <3>1. CASE lines' = lines
        BY <2>1, <3>1 DEF In
      <3>2. CASE Write(m)
        BY <2>1, <2>2, <3>2, WriteAppends, InboxType DEF In
      <3>3. Write(m) \/ lines' = lines
        BY DEF Route, Stamp, WriteTorn, files
      <3> QED BY <3>1, <3>2, <3>3
    <2> QED BY <1>1, <1>2, <2>2, <2>3 DEF Unread, IsFor, Resolve
  <1> QED BY <1>1, <1>2 DEF WakeInv, Sole

LEMMA NotifyKeepsWake ==
  ASSUME TypeOK, WakeInv, NEW m \in Mail, Notify(m)
  PROVE  WakeInv'
  <1>1. /\ UNCHANGED <<aliases, to, ts, lines, batch, cursor>>
        /\ \A k \in Mail \ {m} : pc'[k] = pc[k]
    BY DEF Notify, files, TypeOK
  <1>2. \A a \in Address : flag'[a] = (flag[a] \/ a \in Notified(m))
    BY DEF Notify
  <1>3. \A s \in Stream : at'[s] \in {at[s], "woken"}
    BY DEF Notify
  <1>4. \A s \in Stream : Sub[s] \in Address
    BY AddressAssumption
  <1> SUFFICES ASSUME NEW s \in Stream, Sole(s), NEW k \in Mail,
                      Unread(k, s), pc'[k] # "written"
               PROVE  \/ at'[s] \in {"away", "reading", "woken"}
                      \/ flag'[Sub[s]]
                      \/ at'[s] = "yielding" /\ k \in batch[s]
    BY <1>1 DEF WakeInv, Sole, Unread, In, Inbox, IsFor, Resolve
  <1>5. CASE k = m
    BY <1>2, <1>4, <1>5 DEF Unread, IsFor, Notified
  <1>6. CASE k # m
    BY <1>1, <1>2, <1>3, <1>4, <1>6 DEF WakeInv
  <1> QED BY <1>5, <1>6

LEMMA StreamKeepsWake ==
  ASSUME TypeOK, StreamsInv, WakeInv, NEW q \in Stream,
         Connect(q) \/ Read(q) \/ Yield(q) \/ Wait(q) \/ Wake(q) \/ KeepAlive(q)
           \/ Drop(q)
  PROVE  WakeInv'
  <1>1. UNCHANGED <<aliases, to, ts, lines, pc>>
    BY DEF Connect, Read, Yield, Wait, Wake, KeepAlive, Resume, Drop, request, files
  <1>2. \A s \in Stream \ {q} :
          at'[s] = at[s] /\ batch'[s] = batch[s] /\ cursor'[s] = cursor[s]
    BY DEF Connect, Read, Yield, Wait, Wake, KeepAlive, Resume, Drop, Goto, TypeOK
  <1>3. flag' \in {flag, Cleared(q)}
    BY DEF Connect, Read, Yield, Wait, Wake, KeepAlive, Resume, Drop
  <1>4. Sub \in [Stream -> Address]
    BY AddressAssumption
  <1>5. \A k \in Mail : Unread(k, q)' => Unread(k, q)
    <2>1. CASE Yield(q)
      <3>1. PICK i \in DOMAIN lines[Inbox(q)] :
              lines[Inbox(q)][i] \in batch[q]
                /\ cursor' = [cursor EXCEPT ![q] = ts[lines[Inbox(q)][i]]]
        BY <2>1 DEF Yield
      <3>2. cursor'[q] > cursor[q] /\ cursor'[q] \in Nat /\ cursor[q] \in Nat
        <4>1. lines[Inbox(q)][i] \in Mail
          BY LineType, InboxType
        <4> QED BY <3>1, <4>1 DEF StreamsInv, BatchWhole, TypeOK
      <3> QED BY <1>1, <3>2 DEF Unread, In, Inbox, IsFor, Resolve, TypeOK
    <2>2. CASE ~Yield(q)
      <3>1. cursor' = cursor
        BY <2>2 DEF Connect, Read, Wait, Wake, KeepAlive, Resume, Drop
      <3> QED BY <1>1, <3>1 DEF Unread, In, Inbox, IsFor, Resolve
    <2> QED BY <2>1, <2>2
  <1>6. ASSUME NEW k \in Mail, Sole(q), Unread(k, q)', pc[k] # "written"
        PROVE  \/ at'[q] \in {"away", "reading", "woken"}
               \/ flag'[Sub[q]]
               \/ at'[q] = "yielding" /\ k \in batch'[q]
    <2>1. Unread(k, q)
      BY <1>5, <1>6
    <2>2. \/ at[q] \in {"away", "reading", "woken"}
          \/ flag[Sub[q]]
          \/ at[q] = "yielding" /\ k \in batch[q]
      BY <1>6, <2>1 DEF WakeInv
    <2>3. CASE Connect(q) \/ Wake(q) \/ KeepAlive(q) \/ Drop(q)
      BY <2>3 DEF Connect, Wake, KeepAlive, Resume, Drop, Goto, TypeOK
    <2>4. CASE Read(q)
      BY <2>1, <2>4 DEF Read, Goto, TypeOK
    <2>5. CASE Yield(q)
      <3>1. PICK i \in DOMAIN lines[Inbox(q)] :
              /\ cursor' = [cursor EXCEPT ![q] = ts[lines[Inbox(q)][i]]]
              /\ batch' = [batch EXCEPT ![q] = @ \ {lines[Inbox(q)][i]}]
        BY <2>5 DEF Yield
      <3>2. at' = at /\ flag' = flag /\ at[q] = "yielding"
        BY <2>5 DEF Yield
      <3>3. k # lines[Inbox(q)][i]
        BY <1>1, <1>6, <3>1 DEF Unread, TypeOK
      <3> QED BY <2>2, <3>1, <3>2, <3>3 DEF TypeOK
    <2>6. CASE Wait(q)
      BY <2>2, <2>6 DEF Wait, Goto, TypeOK
    <2> QED BY <2>3, <2>4, <2>5, <2>6
  <1>7. ASSUME NEW s \in Stream, s # q, Sole(s), NEW k \in Mail,
               Unread(k, s)', pc[k] # "written"
        PROVE  \/ at'[s] \in {"away", "reading", "woken"}
               \/ flag'[Sub[s]]
               \/ at'[s] = "yielding" /\ k \in batch'[s]
    <2>1. Unread(k, s)
      BY <1>1, <1>2, <1>7 DEF Unread, In, Inbox, IsFor, Resolve
    <2>2. flag'[Sub[s]] = flag[Sub[s]]
      BY <1>3, <1>4, <1>7 DEF Cleared, Sole, TypeOK
    <2> QED BY <1>2, <1>7, <2>1, <2>2 DEF WakeInv
  <1> QED BY <1>1, <1>6, <1>7 DEF WakeInv, Sole

LEMMA WakeNext ==
  ASSUME TypeOK, FilesInv, StreamsInv, WakeInv, [Next]_vars
  PROVE  WakeInv'
  <1>1. ASSUME NEW a \in Alias, PutAlias(a) PROVE WakeInv'
    <2>1. UNCHANGED <<pc, to, ts, lines, at, flag, batch, cursor>>
      BY <1>1 DEF PutAlias, request, files, streams
    <2>2. \A s \in Stream : \A m \in Mail : Unread(m, s)' => Unread(m, s)
      <3>1. \A s \in Stream : \A m \in Mail :
              In(m, Inbox(s)) /\ IsFor(m, s)' => IsFor(m, s)
        BY <1>1, NoMailComesBack
      <3> QED BY <2>1, <3>1 DEF Unread, In, Inbox
    <2> QED BY <2>1, <2>2 DEF WakeInv, Sole
  <1>2. CASE Restart
    <2>1. \A s \in Stream : at'[s] = "away"
      BY <1>2 DEF Restart
    <2> QED BY <2>1 DEF WakeInv, Sole
  <1>3. CASE UNCHANGED vars
    BY <1>3 DEF vars, WakeInv, Unread, In, Inbox, IsFor, Resolve, Sole
  <1> QED BY <1>1, <1>2, <1>3, RequestKeepsWake, NotifyKeepsWake, StreamKeepsWake
          DEF Next

\* The event of a blocked stream is not set.
BlockedUnset == \A s \in Stream : at[s] = "blocked" => ~flag[Sub[s]]

LEMMA BlockedUnsetNext ==
  ASSUME TypeOK, BlockedUnset, [Next]_vars
  PROVE  BlockedUnset'
  <1>1. Sub \in [Stream -> Address]
    BY AddressAssumption
  <1>2. ASSUME NEW m \in Mail, Notify(m) PROVE BlockedUnset'
    BY <1>1, <1>2 DEF Notify, BlockedUnset, TypeOK
  <1>3. ASSUME NEW q \in Stream, Wait(q) \/ Wake(q) \/ KeepAlive(q) \/ Drop(q)
        PROVE  BlockedUnset'
    <2>1. flag' = Cleared(q) \/ (flag' = flag /\ at'[q] = "away")
      BY <1>3 DEF Wait, Wake, KeepAlive, Resume, Drop, Goto, TypeOK
    <2>2. \A s \in Stream \ {q} : at'[s] = at[s]
      BY <1>3 DEF Wait, Wake, KeepAlive, Resume, Drop, Goto, TypeOK
    <2> QED BY <1>1, <2>1, <2>2 DEF Cleared, BlockedUnset, TypeOK
  <1>4. ASSUME NEW q \in Stream, Connect(q) \/ Read(q) \/ Yield(q)
        PROVE  BlockedUnset'
    BY <1>4 DEF Connect, Read, Yield, Goto, BlockedUnset, TypeOK
  <1>5. CASE Restart
    BY <1>5 DEF Restart, BlockedUnset
  <1>6. ASSUME NEW m \in Mail, Route(m) \/ Stamp(m) \/ Write(m) \/ WriteTorn(m)
        PROVE  BlockedUnset'
    BY <1>6 DEF Route, Stamp, Write, WriteTorn, streams, BlockedUnset
  <1>7. ASSUME NEW a \in Alias, PutAlias(a) PROVE BlockedUnset'
    BY <1>7 DEF PutAlias, streams, BlockedUnset
  <1>8. CASE UNCHANGED vars
    BY <1>8 DEF vars, BlockedUnset
  <1> QED BY <1>2, <1>3, <1>4, <1>5, <1>6, <1>7, <1>8 DEF Next

\* A stream that is alone on its recipient is never blocked on mail that was
\* notified: no wake-up is lost between a read and a wait (publish, events,
\* StreamHub.wait).
THEOREM NoWakeupIsLost == Spec => []SoleReaderAwake
  <1>1. Init => TypeOK /\ FilesInv /\ StreamsInv /\ WakeInv /\ BlockedUnset
    BY TypeInit, FilesInit, StreamsInit, WakeInit DEF Init, BlockedUnset
  <1>2. TypeOK /\ FilesInv /\ StreamsInv /\ WakeInv /\ BlockedUnset /\ [Next]_vars
          => (TypeOK /\ FilesInv /\ StreamsInv /\ WakeInv /\ BlockedUnset)'
    BY TypeNext, FilesNext, StreamsNext, WakeNext, BlockedUnsetNext
  <1>3. WakeInv /\ BlockedUnset => SoleReaderAwake
    BY DEF WakeInv, BlockedUnset, SoleReaderAwake, Sole
  <1> QED BY <1>1, <1>2, <1>3, PTL DEF Spec

-----------------------------------------------------------------------------
(* Streams implement mailboxes *)

\* A request that was not routed has the address it was sent to.
Unrouted == \A m \in Mail : pc[m] \in {"new", "refused"} => target[m] = to[m]

\* The cursor of a stream is the ts of the mail it received last, which is in
\* its mailbox.
CursorOnLast ==
  \A s \in Stream :
    IF received[s] = <<>> THEN cursor[s] = None
    ELSE /\ received[s][Len(received[s])] \in MailOf(s)
         /\ cursor[s] = ts[received[s][Len(received[s])]]

\* A batch holds mail of the mailbox alone.
BatchMine == \A s \in Stream : batch[s] \subseteq MailOf(s)

MailboxInv == Unrouted /\ CursorOnLast /\ BatchMine

\* What a read takes for a stream was routed to its recipient: an alias that
\* moved on since names another file.
LEMMA ReadIsMine ==
  ASSUME TypeOK, FilesInv, NEW s \in Stream, NEW m \in Mail,
         In(m, Inbox(s)), IsFor(m, s)
  PROVE  target[m] = Sub[s]
  <1> DEFINE a == to[m]
  <1>1. FileOf[target[m]] = FileOf[Sub[s]] /\ pc[m] \notin {"new", "refused"}
    BY InboxType DEF In, FilesInv, Filed, Inbox
  <1>2. \/ target[m] = a
        \/ a \in Alias /\ \E k \in 1..aliases[a] : target[m] = Registered[a][k]
    BY <1>1 DEF FilesInv, Routed
  <1>3. CASE a \in Alias /\ aliases[a] > 0
    <2>1. Sub[s] = Registered[a][aliases[a]]
      BY <1>3 DEF IsFor, Resolve
    <2>2. 1..aliases[a] \subseteq DOMAIN Registered[a] /\ aliases[a] \in 1..aliases[a]
      <3>1. aliases[a] \in Nat /\ aliases[a] <= Len(Registered[a])
            /\ Len(Registered[a]) \in Nat
        BY <1>3, LengthType DEF TypeOK
      <3>2. Registered[a] \in Seq(Address \ (Alias \cup Relative))
        BY <1>3, AddressAssumption
      <3>3. DOMAIN Registered[a] = 1..Len(Registered[a])
        BY <3>2
      <3> QED BY <1>3, <3>1, <3>3
    <2>3. target[m] # a
      BY <1>1, <1>3, <2>1, <2>2, AliasAssumption
    <2>4. PICK k \in 1..aliases[a] : target[m] = Registered[a][k]
      BY <1>2, <2>3
    <2>5. k = aliases[a]
      BY <1>1, <1>3, <2>1, <2>2, <2>4, AliasAssumption
    <2> QED BY <2>1, <2>4, <2>5
  <1>4. CASE ~(a \in Alias /\ aliases[a] > 0)
    <2>1. Sub[s] = a
      BY <1>4 DEF IsFor, Resolve
    <2>2. a \in Alias => 1..aliases[a] = {}
      BY <1>4 DEF TypeOK
    <2> QED BY <1>2, <2>1, <2>2
  <1> QED BY <1>3, <1>4

LEMMA MailboxInit == Init => MailboxInv
  BY DEF Init, MailboxInv, Unrouted, CursorOnLast, BatchMine

\* Steps that leave the lines, and the requests past them, as they are.
LEMMA MailboxKept ==
  ASSUME TypeOK, FilesInv, MailboxInv,
         UNCHANGED <<to, lines, cursor, received>>,
         \A s \in Stream : batch'[s] \in {batch[s], {}},
         \A m \in Mail : pc[m] \in {"written", "acked", "failed"} =>
           ts'[m] = ts[m] /\ target'[m] = target[m],
         \A m \in Mail : pc'[m] \in {"new", "refused"} =>
           pc[m] \in {"new", "refused"} /\ target'[m] = target[m]
  PROVE  MailboxInv'
  <1>1. \A s \in Stream : \A m \in MailOf(s) : m \in MailOf(s)' /\ ts'[m] = ts[m]
    BY InboxType DEF MailOf, In, Inbox, FilesInv, Filed
  <1>2. Unrouted'
    BY DEF MailboxInv, Unrouted
  <1>3. CursorOnLast'
    BY <1>1 DEF MailboxInv, CursorOnLast
  <1>4. BatchMine'
    BY <1>1 DEF MailboxInv, BatchMine
  <1> QED BY <1>2, <1>3, <1>4 DEF MailboxInv

LEMMA WriteKeepsMailbox ==
  ASSUME TypeOK, FilesInv, MailboxInv, NEW m \in Mail, Write(m)
  PROVE  MailboxInv'
  <1>1. /\ UNCHANGED <<to, ts, target, batch, cursor, received>>
        /\ pc' = [pc EXCEPT ![m] = "written"]
    BY DEF Write, streams
  <1>2. \A s \in Stream : MailOf(s) \subseteq MailOf(s)'
    BY <1>1, InboxType, WriteAppends DEF MailOf, In, Inbox
  <1>3. Unrouted'
    BY <1>1 DEF MailboxInv, Unrouted, TypeOK
  <1>4. CursorOnLast' /\ BatchMine'
    BY <1>1, <1>2 DEF MailboxInv, CursorOnLast, BatchMine
  <1> QED BY <1>3, <1>4 DEF MailboxInv

LEMMA ReadKeepsMailbox ==
  ASSUME TypeOK, FilesInv, MailboxInv, NEW s \in Stream, Read(s)
  PROVE  MailboxInv'
  <1>1. /\ UNCHANGED <<pc, to, ts, target, lines, cursor, received>>
        /\ batch' = [batch EXCEPT ![s] = {m \in Mail : Unread(m, s)}]
    BY DEF Read, request, files
  <1>2. {m \in Mail : Unread(m, s)} \subseteq MailOf(s)
    BY ReadIsMine DEF Unread, MailOf
  <1>3. \A q \in Stream : MailOf(q)' = MailOf(q)
    BY <1>1 DEF MailOf, In, Inbox
  <1>4. BatchMine'
    BY <1>1, <1>2, <1>3 DEF MailboxInv, BatchMine, TypeOK
  <1>5. Unrouted' /\ CursorOnLast'
    BY <1>1, <1>3 DEF MailboxInv, Unrouted, CursorOnLast
  <1> QED BY <1>4, <1>5 DEF MailboxInv

\* What a stream hands out is the first of its batch.
LEMMA YieldHandsOut ==
  ASSUME TypeOK, NEW s \in Stream, Yield(s)
  PROVE  \E i \in DOMAIN lines[Inbox(s)] :
           LET m == lines[Inbox(s)][i] IN
           /\ m \in Mail /\ m \in batch[s]
           /\ \A j \in 1..(i - 1) : lines[Inbox(s)][j] \notin batch[s]
           /\ received' = [received EXCEPT ![s] = Append(@, m)]
           /\ cursor' = [cursor EXCEPT ![s] = ts[m]]
           /\ batch' = [batch EXCEPT ![s] = @ \ {m}]
           /\ UNCHANGED <<aliases, pc, to, ts, target, lines>>
  BY InboxType, LineType DEF Yield, request, files

LEMMA YieldKeepsMailbox ==
  ASSUME TypeOK, FilesInv, MailboxInv, NEW s \in Stream, Yield(s)
  PROVE  MailboxInv'
  <1>1. PICK m \in Mail :
          /\ m \in batch[s]
          /\ received' = [received EXCEPT ![s] = Append(@, m)]
          /\ cursor' = [cursor EXCEPT ![s] = ts[m]]
          /\ batch' = [batch EXCEPT ![s] = @ \ {m}]
          /\ UNCHANGED <<pc, to, ts, target, lines>>
    BY YieldHandsOut
  <1>2. \A q \in Stream : MailOf(q)' = MailOf(q)
    BY <1>1 DEF MailOf, In, Inbox
  <1>3. Unrouted' /\ BatchMine'
    BY <1>1, <1>2 DEF MailboxInv, Unrouted, BatchMine, TypeOK
  <1>4. CursorOnLast'
    <2>1. received'[s] = Append(received[s], m) /\ received[s] \in Seq(Mail)
          /\ cursor'[s] = ts[m]
      BY <1>1 DEF TypeOK
    <2>2. received'[s] # <<>> /\ received'[s][Len(received'[s])] = m
      BY <1>1, <2>1
    <2>3. m \in MailOf(s)
      BY <1>1 DEF MailboxInv, BatchMine
    <2>4. \A q \in Stream \ {s} : received'[q] = received[q] /\ cursor'[q] = cursor[q]
      BY <1>1 DEF TypeOK
    <2> QED BY <1>1, <1>2, <2>1, <2>2, <2>3, <2>4 DEF MailboxInv, CursorOnLast
  <1> QED BY <1>3, <1>4 DEF MailboxInv

LEMMA MailboxNext ==
  ASSUME TypeOK, FilesInv, MailboxInv, [Next]_vars
  PROVE  MailboxInv'
  <1>1. ASSUME NEW a \in Alias, PutAlias(a) PROVE MailboxInv'
    BY <1>1, MailboxKept DEF PutAlias, request, files, streams
  <1>2. ASSUME NEW m \in Mail, Route(m) PROVE MailboxInv'
    BY <1>2, MailboxKept DEF Route, files, streams, TypeOK
  <1>3. ASSUME NEW m \in Mail, Stamp(m) PROVE MailboxInv'
    BY <1>3, MailboxKept DEF Stamp, streams, TypeOK
  <1>4. ASSUME NEW m \in Mail, WriteTorn(m) PROVE MailboxInv'
    BY <1>4, MailboxKept DEF WriteTorn, streams, TypeOK
  <1>5. ASSUME NEW m \in Mail, Notify(m) PROVE MailboxInv'
    BY <1>5, MailboxKept DEF Notify, files, TypeOK
  <1>6. ASSUME NEW s \in Stream, Connect(s) \/ Wait(s) \/ Wake(s) \/ KeepAlive(s)
        PROVE  MailboxInv'
    <2>1. UNCHANGED <<pc, to, ts, target, lines, batch, cursor, received>>
      BY <1>6 DEF Connect, Wait, Wake, KeepAlive, Resume, request, files
    <2> QED BY <2>1, MailboxKept
  <1>7. ASSUME NEW s \in Stream, Drop(s) PROVE MailboxInv'
    <2>1. /\ UNCHANGED <<pc, to, ts, target, lines, cursor, received>>
          /\ batch' = [batch EXCEPT ![s] = {}]
      BY <1>7 DEF Drop, request, files
    <2> QED BY <2>1, MailboxKept DEF TypeOK
  <1>8. CASE Restart
    BY <1>8, MailboxKept DEF Restart
  <1>9. CASE UNCHANGED vars
    BY <1>9, MailboxKept DEF vars
  <1> QED BY <1>1, <1>2, <1>3, <1>4, <1>5, <1>6, <1>7, <1>8, <1>9,
             WriteKeepsMailbox, ReadKeepsMailbox, YieldKeepsMailbox DEF Next

\* Once an address has moved from where its mail went it stays away: it never
\* returns to a target it had.
LEMMA MovedStays ==
  ASSUME TypeOK, FilesInv, MailboxInv, [Next]_vars
  PROVE  Moved \subseteq Moved'
  <1>1. ASSUME UNCHANGED <<aliases, to>>,
               \A m \in Mail : pc[m] # "new" => pc'[m] # "new" /\ target'[m] = target[m]
        PROVE  Moved \subseteq Moved'
    BY <1>1 DEF Moved, Resolve
  <1>2. ASSUME NEW m \in Mail,
               Route(m) \/ Stamp(m) \/ Write(m) \/ WriteTorn(m) \/ Notify(m)
        PROVE  Moved \subseteq Moved'
    BY <1>1, <1>2 DEF Route, Stamp, Write, WriteTorn, Notify, TypeOK
  <1>3. ASSUME NEW s \in Stream,
               Connect(s) \/ Read(s) \/ Yield(s) \/ Wait(s) \/ Wake(s)
                 \/ KeepAlive(s) \/ Drop(s)
        PROVE  Moved \subseteq Moved'
    <2>1. UNCHANGED <<aliases, request>>
      BY <1>3 DEF Connect, Read, Yield, Wait, Wake, KeepAlive, Resume, Drop
    <2> QED BY <1>1, <2>1 DEF request
  <1>4. CASE Restart
    BY <1>1, <1>4 DEF Restart
  <1>5. CASE UNCHANGED vars
    BY <1>1, <1>5 DEF vars
  <1>6. ASSUME NEW a \in Alias, PutAlias(a) PROVE Moved \subseteq Moved'
    <2> DEFINE k == aliases[a] + 1
    <2>1. UNCHANGED <<pc, to, target>> /\ aliases' = [aliases EXCEPT ![a] = k]
          /\ aliases[a] < Len(Registered[a])
      BY <1>6 DEF PutAlias, request
    <2>2. k > 0 /\ k \in DOMAIN Registered[a] /\ 1..aliases[a] \subseteq DOMAIN Registered[a]
          /\ k \notin 1..aliases[a]
      <3>1. aliases[a] \in Nat /\ Len(Registered[a]) \in Nat
        BY LengthType DEF TypeOK
      <3>2. Registered[a] \in Seq(Address \ (Alias \cup Relative))
        BY AddressAssumption
      <3>3. DOMAIN Registered[a] = 1..Len(Registered[a])
        BY <3>2
      <3> QED BY <2>1, <3>1, <3>3
    <2> SUFFICES ASSUME NEW m \in Moved PROVE m \in Moved'
      OBVIOUS
    <2>3. m \in Mail /\ pc[m] # "new" /\ Resolve(to[m]) # target[m]
      BY DEF Moved
    <2>4. CASE to[m] # a
      BY <2>1, <2>3, <2>4 DEF Moved, Resolve, TypeOK
    <2>5. CASE to[m] = a
      <3>1. Resolve(to[m])' = Registered[a][k]
        BY <2>1, <2>2, <2>5 DEF Resolve, TypeOK
      <3>2. \/ target[m] = a
            \/ \E j \in 1..aliases[a] : target[m] = Registered[a][j]
        BY <2>3, <2>5 DEF FilesInv, Routed, MailboxInv, Unrouted
      <3>3. target[m] # Registered[a][k]
        BY <2>2, <3>2, AliasAssumption
      <3> QED BY <2>1, <2>3, <3>1, <3>3 DEF Moved
    <2> QED BY <2>4, <2>5
  <1> QED BY <1>2, <1>3, <1>4, <1>5, <1>6 DEF Next

\* A step that writes no line and hands out no mail is one of the addresses.
LEMMA StepMoves ==
  ASSUME TypeOK, FilesInv, MailboxInv, [Next]_vars, UNCHANGED <<lines, received>>,
         \A m \in Mail : pc[m] \in {"written", "acked", "failed"} =>
           target'[m] = target[m]
  PROVE  Promised!Move
  <1>1. \A s \in Stream : \A m \in Mail :
          In(m, Inbox(s)) => target'[m] = target[m]
    BY InboxType DEF In, FilesInv, Filed
  <1>2. \A s \in Stream : MailOf(s)' = MailOf(s)
    BY <1>1 DEF MailOf, In, Inbox
  <1>3. \A s \in Stream : Above(s)' = Above(s)
    BY <1>2 DEF Above, Inbox
  <1>4. Moved \subseteq Moved'
    BY MovedStays
  <1>5. Moved' \subseteq Mail
    BY DEF Moved
  <1>6. [s \in Stream |-> MailOf(s)]' = [s \in Stream |-> MailOf(s)]
    BY <1>2
  <1>7. [s \in Stream |-> Above(s)]' = [s \in Stream |-> Above(s)]
    BY <1>3
  <1> QED BY <1>4, <1>5, <1>6, <1>7 DEF Promised!Move

\* A written line posts its mail to the readers of its address.
LEMMA WritePosts ==
  ASSUME TypeOK, FilesInv, MailboxInv, NEW m \in Mail, Write(m),
         ~torn[FileOf[target[m]]]
  PROVE  Promised!Next
  <1> DEFINE f == FileOf[target[m]]
             R == {s \in Stream : target[m] = Sub[s]}
  <1>1. /\ UNCHANGED <<aliases, to, target, received>>
        /\ lines' = [lines EXCEPT ![f] = Append(@, m)]
        /\ pc[m] = "stamped" /\ pc' = [pc EXCEPT ![m] = "written"]
    BY DEF Write, streams
  <1>2. f \in File /\ lines[f] \in Seq(Mail)
    BY FileOfType DEF TypeOK
  <1>3. /\ DOMAIN lines'[f] = DOMAIN lines[f] \cup {Len(lines[f]) + 1}
        /\ \A i \in DOMAIN lines[f] :
             i < Len(lines[f]) + 1 /\ i # Len(lines[f]) + 1 /\ lines'[f][i] = lines[f][i]
        /\ lines'[f][Len(lines[f]) + 1] = m
        /\ Len(lines[f]) + 1 \in Nat /\ DOMAIN lines[f] \subseteq Nat
    <2>1. lines'[f] = Append(lines[f], m)
      BY <1>1, <1>2 DEF TypeOK
    <2>2. lines'[f] # lines[f] /\ Len(lines[f]) + 1 \in Nat /\ DOMAIN lines[f] \subseteq Nat
      BY <1>2, <2>1
    <2> QED BY <1>2, <2>2, WriteAppends
  <1>4. \A g \in File \ {f} : lines'[g] = lines[g]
    BY <1>1 DEF TypeOK
  <1>5. \A k \in Mail : (In(k, f)' <=> (In(k, f) \/ k = m)) /\ ~In(m, f)
    BY <1>1, <1>2, <1>3, LinesStay DEF In, FilesInv
  <1>6. ASSUME NEW s \in R
        PROVE  /\ m \notin MailOf(s) /\ MailOf(s)' = MailOf(s) \cup {m}
               /\ Above(s)' = Above(s) \cup MailOf(s) \X {m}
    <2>1. Inbox(s) = f
      BY DEF Inbox
    <2>2. m \notin MailOf(s) /\ MailOf(s)' = MailOf(s) \cup {m}
      BY <1>1, <1>5, <2>1 DEF MailOf, Inbox
    <2>3. Above(s) \subseteq Above(s)'
      BY <1>3, <2>1, <2>2 DEF Above, Inbox
    <2>4. MailOf(s) \X {m} \subseteq Above(s)'
      <3> SUFFICES ASSUME NEW k \in MailOf(s) PROVE <<k, m>> \in Above(s)'
        OBVIOUS
      <3>1. PICK i \in DOMAIN lines[f] : lines[f][i] = k
        BY <2>1 DEF MailOf, In
      <3> QED BY <1>3, <2>1, <2>2, <3>1 DEF Above, Inbox
    <2>5. ASSUME NEW p \in Above(s)' PROVE p \in Above(s) \cup MailOf(s) \X {m}
      <3>1. p \in MailOf(s)' \X MailOf(s)'
        BY DEF Above
      <3>2. PICK i \in DOMAIN lines'[f], j \in DOMAIN lines'[f] :
              i < j /\ lines'[f][i] = p[1] /\ lines'[f][j] = p[2]
        BY <2>1 DEF Above, Inbox
      <3>3. i \in DOMAIN lines[f] /\ lines[f][i] = p[1]
        BY <1>3, <3>2
      <3>4. p[1] # m
        BY <1>2, <3>3, <1>1, LinesStay DEF FilesInv
      <3>5. p[1] \in MailOf(s)
        BY <2>2, <3>1, <3>4
      <3>6. CASE j = Len(lines[f]) + 1
        BY <1>3, <3>1, <3>2, <3>5, <3>6
      <3>7. CASE j \in DOMAIN lines[f]
        <4>1. lines[f][j] = p[2] /\ p[2] # m
          BY <1>1, <1>2, <1>3, <3>2, <3>7, LinesStay DEF FilesInv
        <4>2. p[2] \in MailOf(s)
          BY <2>2, <3>1, <4>1
        <4> QED BY <2>1, <3>1, <3>2, <3>3, <3>5, <3>7, <4>1, <4>2 DEF Above
      <3> QED BY <1>3, <3>6, <3>7
    <2> QED BY <2>2, <2>3, <2>4, <2>5
  <1>7. ASSUME NEW s \in Stream \ R
        PROVE  MailOf(s)' = MailOf(s) /\ Above(s)' = Above(s)
    <2>1. Inbox(s) \in File /\ target[m] # Sub[s]
      BY InboxType
    <2>2. MailOf(s)' = MailOf(s)
      BY <1>1, <1>4, <1>5, <2>1 DEF MailOf, Inbox, In
    <2>3. CASE Inbox(s) # f
      BY <1>4, <2>1, <2>2, <2>3 DEF Above, Inbox
    <2>4. CASE Inbox(s) = f
      <3>1. m \notin MailOf(s)
        BY <2>1 DEF MailOf
      <3>2. ASSUME NEW p \in MailOf(s) \X MailOf(s)
            PROVE  (\E i, j \in DOMAIN lines'[f] :
                      i < j /\ lines'[f][i] = p[1] /\ lines'[f][j] = p[2])
                   <=> (\E i, j \in DOMAIN lines[f] :
                          i < j /\ lines[f][i] = p[1] /\ lines[f][j] = p[2])
        <4>1. p[1] # m /\ p[2] # m
          BY <3>1
        <4> QED BY <1>3, <4>1
      <3> QED BY <2>2, <2>4, <3>2 DEF Above, Inbox
    <2> QED BY <2>3, <2>4
  <1>8. Moved' = Moved
    BY <1>1 DEF Moved, Resolve, TypeOK
  <1>9. [s \in Stream |-> MailOf(s)]'
          = [s \in Stream |-> [q \in Stream |-> MailOf(q)][s]
                                \cup (IF s \in R THEN {m} ELSE {})]
    BY <1>6, <1>7
  <1>10. [s \in Stream |-> Above(s)]'
           = [s \in Stream |-> [q \in Stream |-> Above(q)][s]
                \cup (IF s \in R THEN [q \in Stream |-> MailOf(q)][s] \X {m} ELSE {})]
    BY <1>6, <1>7
  <1>11. \A s \in R : m \notin [q \in Stream |-> MailOf(q)][s]
    BY <1>6
  <1>12. Promised!Post(m, R)
    BY <1>1, <1>8, <1>9, <1>10, <1>11 DEF Promised!Post
  <1>13. R \in SUBSET Stream
    OBVIOUS
  <1> QED BY <1>12, <1>13 DEF Promised!Next

\* What a stream hands out is mail it is owed: what is above it was received,
\* or is not for the stream any more.
LEMMA YieldReceives ==
  ASSUME TypeOK, FilesInv, StreamsInv, MailboxInv, NEW s \in Stream, Yield(s)
  PROVE  Promised!Next
  <1> DEFINE f == Inbox(s)
             last == received[s][Len(received[s])]
  <1>1. PICK i \in DOMAIN lines[f] :
          /\ lines[f][i] \in Mail /\ lines[f][i] \in batch[s]
          /\ \A j \in 1..(i - 1) : lines[f][j] \notin batch[s]
          /\ received' = [received EXCEPT ![s] = Append(@, lines[f][i])]
          /\ UNCHANGED <<aliases, pc, to, ts, target, lines>>
    BY YieldHandsOut
  <1> DEFINE m == lines[f][i]
  <1>2. f \in File /\ lines[f] \in Seq(Mail) /\ DOMAIN lines[f] \subseteq Nat
        /\ DOMAIN lines[f] = 1..Len(lines[f])
    <2>1. f \in File /\ lines[f] \in Seq(Mail)
      BY InboxType DEF TypeOK
    <2> QED BY <2>1
  <1>3. \A k \in Mail : ts[k] \in Nat
    BY DEF TypeOK
  <1>4. m \in MailOf(s) /\ ts[m] > cursor[s]
    BY <1>1 DEF MailboxInv, BatchMine, StreamsInv, BatchWhole
  <1>5. \A p \in Above(s) : ts[p[1]] < ts[p[2]]
    BY <1>2 DEF Above, FilesInv, Rising
  <1>6. received[s] # <<>> => last \in MailOf(s) /\ cursor[s] = ts[last]
    BY DEF MailboxInv, CursorOnLast
  <1>7. ~Promised!IsBehind(s, m)
    <2> SUFFICES ASSUME received[s] # <<>>, m = last \/ <<m, last>> \in Above(s)
                 PROVE  FALSE
      BY DEF Promised!IsBehind
    <2>1. ts[m] > ts[last] /\ ts[m] \in Nat /\ ts[last] \in Nat
      BY <1>3, <1>4, <1>6 DEF MailOf
    <2>2. <<m, last>> \in Above(s) => ts[m] < ts[last]
      BY <1>5
    <2> QED BY <2>1, <2>2
  <1>8. ASSUME NEW k \in MailOf(s), <<k, m>> \in Above(s), k \notin Moved
        PROVE  Promised!IsBehind(s, k)
    <2>1. PICK a \in DOMAIN lines[f], b \in DOMAIN lines[f] :
            a < b /\ lines[f][a] = k /\ lines[f][b] = m
      BY <1>8 DEF Above
    <2>2. a < i
      <3>1. b = i
        <4>1. b < i \/ i < b \/ b = i
          BY <1>2
        <4>2. ts[m] \in Nat
          BY <1>1, <1>3
        <4> QED BY <1>2, <2>1, <4>1, <4>2 DEF FilesInv, Rising
      <3> QED BY <2>1, <3>1
    <2>3. k \in Mail /\ target[k] = Sub[s]
      BY DEF MailOf
    <2>4. pc[k] # "new"
      BY <1>2, <2>1 DEF FilesInv, Filed
    <2>5. IsFor(k, s)
      BY <1>8, <2>3, <2>4 DEF Moved, IsFor
    <2>6. k \notin batch[s]
      <3>1. a \in 1..(i - 1)
        BY <1>2, <2>2
      <3> QED BY <1>1, <2>1, <3>1
    <2>7. ~(ts[k] > cursor[s])
      BY <1>1, <2>1, <2>2, <2>3, <2>5, <2>6 DEF StreamsInv, BatchWhole
    <2>8. ts[k] > None
      BY <2>3, <2>4 DEF FilesInv, Dated
    <2>9. received[s] # <<>> /\ ts[k] <= ts[last] /\ last \in MailOf(s)
      <3>1. received[s] # <<>>
        BY <2>7, <2>8 DEF MailboxInv, CursorOnLast
      <3>2. cursor[s] \in Nat /\ ts[k] \in Nat
        BY <2>3 DEF TypeOK
      <3> QED BY <1>6, <2>7, <3>1, <3>2
    <2>10. PICK c \in DOMAIN lines[f] : lines[f][c] = last
      BY <2>9 DEF MailOf, In
    <2>11. last = k \/ a < c
      <3>1. a < c \/ c < a \/ a = c
        BY <1>2
      <3>2. ~(c < a)
        <4>1. last \in Mail
          BY <2>9 DEF MailOf
        <4>2. c < a => ts[last] < ts[k]
          BY <1>2, <2>1, <2>10 DEF FilesInv, Rising
        <4> QED BY <1>3, <2>3, <2>9, <4>1, <4>2
      <3> QED BY <2>1, <2>10, <3>1, <3>2
    <2>12. a < c => <<k, last>> \in Above(s)
      BY <2>1, <2>9, <2>10 DEF Above
    <2> QED BY <2>9, <2>11, <2>12 DEF Promised!IsBehind
  <1>9. /\ \A q \in Stream : MailOf(q)' = MailOf(q) /\ Above(q)' = Above(q)
        /\ Moved' = Moved
    BY <1>1 DEF MailOf, Above, In, Inbox, Moved, Resolve
  <1>10. /\ [q \in Stream |-> MailOf(q)]' = [q \in Stream |-> MailOf(q)]
         /\ [q \in Stream |-> Above(q)]' = [q \in Stream |-> Above(q)]
    BY <1>9
  <1>11. Promised!Receive(s, m)
    <2>1. \A k \in [q \in Stream |-> MailOf(q)][s] :
            <<k, m>> \in [q \in Stream |-> Above(q)][s]
              => Promised!IsBehind(s, k) \/ k \in Moved
      BY <1>8
    <2>2. m \in [q \in Stream |-> MailOf(q)][s]
      BY <1>4
    <2> QED BY <1>1, <1>7, <1>9, <1>10, <2>1, <2>2 DEF Promised!Receive
  <1> QED BY <1>4, <1>11 DEF Promised!Next

LEMMA MailboxSteps ==
  ASSUME TypeOK, FilesInv, StreamsInv, MailboxInv, [Next]_vars
  PROVE  Promised!Next
  <1>1. ASSUME UNCHANGED <<lines, received>>,
               \A m \in Mail : pc[m] \in {"written", "acked", "failed"} =>
                 target'[m] = target[m]
        PROVE  Promised!Next
    BY <1>1, StepMoves DEF Promised!Next
  <1>2. ASSUME NEW a \in Alias, PutAlias(a) PROVE Promised!Next
    BY <1>1, <1>2 DEF PutAlias, request, files, streams
  <1>3. ASSUME NEW m \in Mail, Route(m) \/ Stamp(m) \/ WriteTorn(m) \/ Notify(m)
        PROVE  Promised!Next
    BY <1>1, <1>3 DEF Route, Stamp, WriteTorn, Notify, files, streams, TypeOK
  <1>4. ASSUME NEW m \in Mail, Write(m) PROVE Promised!Next
    <2>1. CASE torn[FileOf[target[m]]]
      BY <1>1, <1>4, <2>1 DEF Write, streams
    <2> QED BY <1>4, <2>1, WritePosts
  <1>5. ASSUME NEW s \in Stream,
               Connect(s) \/ Read(s) \/ Wait(s) \/ Wake(s) \/ KeepAlive(s) \/ Drop(s)
        PROVE  Promised!Next
    <2>1. UNCHANGED <<lines, received, target>>
      BY <1>5 DEF Connect, Read, Wait, Wake, KeepAlive, Resume, Drop, request, files
    <2> QED BY <1>1, <2>1
  <1>6. CASE Restart
    BY <1>1, <1>6 DEF Restart
  <1>7. CASE UNCHANGED vars
    BY <1>1, <1>7 DEF vars
  <1> QED BY <1>2, <1>3, <1>4, <1>5, <1>6, <1>7, YieldReceives DEF Next

LEMMA MailboxStart == ASSUME Init PROVE Promised!Init
  <1>1. \A s \in Stream : MailOf(s) = {} /\ Above(s) = {}
    BY InboxType DEF Init, MailOf, Above, In
  <1>2. Moved = {}
    BY DEF Init, Moved
  <1>3. received = [s \in Stream |-> <<>>]
    BY DEF Init
  <1> QED BY <1>1, <1>2, <1>3 DEF Promised!Init

\* A stream receives the mail of its mailbox in the order it was stored, once
\* each, and passes over none but what its address left behind, for any number
\* of senders, files, aliases and streams, and across broken connections, failed
\* writes and restarts (append, read, events).
THEOREM MailIsDeliveredInOrder == Spec => DeliversInOrder
  <1>1. Init => TypeOK /\ FilesInv /\ StreamsInv /\ MailboxInv
    BY TypeInit, FilesInit, StreamsInit, MailboxInit
  <1>2. TypeOK /\ FilesInv /\ StreamsInv /\ MailboxInv /\ [Next]_vars
          => /\ (TypeOK /\ FilesInv /\ StreamsInv /\ MailboxInv)'
             /\ Promised!Next
    BY TypeNext, FilesNext, StreamsNext, MailboxNext, MailboxSteps
  <1> QED BY <1>1, <1>2, MailboxStart, PTL DEF Spec, DeliversInOrder, Promised!Spec

-----------------------------------------------------------------------------
(* Acknowledged mail is stored *)

TornFiles == {f \in File : torn[f]}

\* Each glued mail stands for a torn line of its own, that no file ends in any
\* more.
StoreInv ==
  /\ \A m \in Mail :
       pc[m] \in {"written", "acked"} => In(m, FileOf[target[m]]) \/ m \in glued
  /\ IsFiniteSet(glued)
  /\ Cardinality(glued) + Cardinality(TornFiles) <= tears

\* One torn line more is accounted for.
LEMMA TearCounts ==
  ASSUME TypeOK, IsFiniteSet(File), StoreInv, NEW f \in File,
         torn' = [torn EXCEPT ![f] = TRUE], tears' = tears + 1, glued' = glued
  PROVE  Cardinality(glued') + Cardinality(TornFiles') <= tears'
  <1>1. TornFiles' = TornFiles \cup {f}
    BY DEF TornFiles, TypeOK
  <1>2. IsFiniteSet(TornFiles)
    BY FS_Subset DEF TornFiles
  <1>3. /\ Cardinality(TornFiles) \in Nat /\ Cardinality(glued) \in Nat
        /\ Cardinality(TornFiles \cup {f}) \in {Cardinality(TornFiles), Cardinality(TornFiles) + 1}
    BY <1>2, FS_AddElement, FS_CardinalityType DEF StoreInv
  <1>4. tears \in Nat /\ Cardinality(glued) + Cardinality(TornFiles) <= tears
    BY DEF TypeOK, StoreInv
  <1> QED BY <1>1, <1>3, <1>4

LEMMA WriteKeepsStore ==
  ASSUME TypeOK, IsFiniteSet(File), StoreInv, NEW m \in Mail, Write(m)
  PROVE  StoreInv'
  <1> DEFINE f == FileOf[target[m]]
  <1>1. f \in File
    BY FileOfType DEF TypeOK
  <1>2. \A k \in Mail : pc'[k] \in {"written", "acked"} =>
          In(k, FileOf[target[k]])' \/ k \in glued'
    <2> SUFFICES ASSUME NEW k \in Mail, pc'[k] \in {"written", "acked"}, k \notin glued'
                 PROVE  \E i \in DOMAIN lines'[FileOf[target[k]]] :
                          lines'[FileOf[target[k]]][i] = k
      BY DEF In, Write
    <2>1. FileOf[target[k]] \in File
      BY FileOfType DEF TypeOK
    <2>2. CASE k = m
      <3>1. lines' = [lines EXCEPT ![f] = Append(@, m)]
        BY <2>2 DEF Write
      <3>2. lines'[f] = Append(lines[f], m) /\ lines[f] \in Seq(Mail)
        BY <1>1, <3>1 DEF TypeOK
      <3>3. Len(lines[f]) + 1 \in DOMAIN lines'[f] /\ lines'[f][Len(lines[f]) + 1] = m
        BY <3>2
      <3> QED BY <2>2, <3>3
    <2>3. CASE k # m
      <3>1. pc[k] \in {"written", "acked"} /\ k \notin glued
        BY <2>3 DEF Write, TypeOK
      <3>2. PICK i \in DOMAIN lines[FileOf[target[k]]] : lines[FileOf[target[k]]][i] = k
        BY <3>1 DEF StoreInv, In
      <3> QED BY <2>1, <3>2, WriteAppends
    <2> QED BY <2>2, <2>3
  <1>3. /\ IsFiniteSet(TornFiles) /\ Cardinality(TornFiles) \in Nat
        /\ Cardinality(glued) \in Nat /\ tears \in Nat /\ tears' = tears
        /\ Cardinality(glued) + Cardinality(TornFiles) <= tears
    BY FS_Subset, FS_CardinalityType DEF TornFiles, StoreInv, TypeOK, Write
  <1>4. TornFiles' = TornFiles \ {f}
    BY <1>1 DEF Write, WithNewline, TornFiles, TypeOK
  <1>5. CASE torn[f]
    <2>1. glued' = glued \cup {m}
      BY <1>5 DEF Write
    <2>2. /\ IsFiniteSet(glued')
          /\ Cardinality(glued') \in {Cardinality(glued), Cardinality(glued) + 1}
      BY <2>1, FS_AddElement DEF StoreInv
    <2>3. Cardinality(TornFiles') = Cardinality(TornFiles) - 1
      BY <1>1, <1>3, <1>4, <1>5, FS_RemoveElement DEF TornFiles
    <2> QED BY <1>2, <1>3, <2>2, <2>3 DEF StoreInv
  <1>6. CASE ~torn[f]
    <2>1. glued' = glued /\ TornFiles' = TornFiles
      BY <1>4, <1>6 DEF Write, TornFiles
    <2> QED BY <1>2, <1>3, <2>1 DEF StoreInv
  <1> QED BY <1>5, <1>6

LEMMA StoreNext ==
  ASSUME TypeOK, IsFiniteSet(File), StoreInv, [Next]_vars
  PROVE  StoreInv'
  <1>1. ASSUME UNCHANGED <<lines, torn, glued, tears>>,
               \A m \in Mail : pc'[m] \in {"written", "acked"} =>
                 pc[m] \in {"written", "acked"} /\ target'[m] = target[m]
        PROVE  StoreInv'
    BY <1>1 DEF StoreInv, TornFiles, In
  <1>2. ASSUME NEW m \in Mail, Route(m) \/ Stamp(m) \/ Notify(m) PROVE StoreInv'
    BY <1>1, <1>2 DEF Route, Stamp, Notify, files, history, TypeOK
  <1>3. ASSUME NEW a \in Alias, PutAlias(a) PROVE StoreInv'
    BY <1>1, <1>3 DEF PutAlias, request, files, history
  <1>4. ASSUME NEW s \in Stream,
               Connect(s) \/ Read(s) \/ Yield(s) \/ Wait(s) \/ Wake(s)
                 \/ KeepAlive(s) \/ Drop(s)
        PROVE  StoreInv'
    <2>1. UNCHANGED <<lines, torn, glued, tears, pc, target>>
      BY <1>4 DEF Connect, Read, Yield, Wait, Wake, KeepAlive, Resume, Drop, request,
                  files, history
    <2> QED BY <1>1, <2>1
  <1>5. CASE UNCHANGED vars
    BY <1>1, <1>5 DEF vars
  <1>6. ASSUME NEW m \in Mail, WriteTorn(m) PROVE StoreInv'
    <2>1. FileOf[target[m]] \in File
      BY FileOfType DEF TypeOK
    <2>2. Cardinality(glued') + Cardinality(TornFiles') <= tears'
      BY <1>6, <2>1, TearCounts DEF WriteTorn
    <2>3. \A k \in Mail : pc'[k] \in {"written", "acked"} => pc[k] \in {"written", "acked"}
      BY <1>6 DEF WriteTorn, TypeOK
    <2>4. UNCHANGED <<lines, target, glued>>
      BY <1>6 DEF WriteTorn
    <2> QED BY <2>2, <2>3, <2>4 DEF StoreInv, In
  <1>7. CASE Restart
    <2>1. /\ UNCHANGED <<lines, target, glued>>
          /\ \A k \in Mail : pc'[k] \in {"written", "acked"} => pc[k] \in {"written", "acked"}
      BY <1>7 DEF Restart
    <2>2. CASE UNCHANGED <<torn, tears>>
      BY <2>1, <2>2 DEF StoreInv, TornFiles, In
    <2>3. CASE /\ lock # None
               /\ torn' = [torn EXCEPT ![FileOf[target[lock]]] = TRUE]
               /\ tears' = tears + 1
      <3>1. FileOf[target[lock]] \in File
        BY <2>3, FileOfType DEF TypeOK
      <3>2. Cardinality(glued') + Cardinality(TornFiles') <= tears'
        BY <2>1, <2>3, <3>1, TearCounts
      <3> QED BY <2>1, <3>2 DEF StoreInv, In
    <2> QED BY <1>7, <2>2, <2>3 DEF Restart
  <1> QED BY <1>2, <1>3, <1>4, <1>5, <1>6, <1>7, WriteKeepsStore DEF Next

\* Mail whose id was returned is in its file, but for one message per torn line
\* at most (append, publish, a failed write, a restart during a write).
THEOREM AcknowledgedIsKept == ASSUME IsFiniteSet(File) PROVE Spec => []AckedIsStored
  <1>1. Init => TypeOK /\ StoreInv
    <2>1. Init => glued = {} /\ TornFiles = {} /\ tears = 0
                    /\ \A m \in Mail : pc[m] = "new"
      BY DEF Init, TornFiles
    <2>2. Cardinality({}) = 0 /\ IsFiniteSet({})
      BY FS_EmptySet
    <2> QED BY <2>1, <2>2, TypeInit DEF StoreInv
  <1>2. TypeOK /\ StoreInv /\ [Next]_vars => (TypeOK /\ StoreInv)'
    BY TypeNext, StoreNext
  <1>3. TypeOK /\ StoreInv => AckedIsStored
    <2>1. TypeOK /\ StoreInv => /\ Cardinality(TornFiles) \in Nat
                                /\ Cardinality(glued) \in Nat /\ tears \in Nat
      BY FS_Subset, FS_CardinalityType DEF TornFiles, StoreInv, TypeOK
    <2> QED BY <2>1 DEF StoreInv, AckedIsStored
  <1> QED BY <1>1, <1>2, <1>3, PTL DEF Spec

=============================================================================
