-------------------------- MODULE LifecycleProofs --------------------------
(***************************************************************************)
(* Every port record and every engine is released exactly once, and never  *)
(* while in use: for any number of instances and of restarts, in whatever  *)
(* order the simulator runs the callbacks of a list.  And the memory of    *)
(* every engine holds the file its own generic names, whatever the names   *)
(* and the files are.                                                      *)
(***************************************************************************)
EXTENDS Lifecycle, SeqLemmas, TLAPS

\* A list of callbacks is right for a state of the records and engines: it
\* releases nothing twice, only what is held, and everything that is held.
Covers(cbs, rec, eng) ==
    /\ \A j, k \in DOMAIN cbs : cbs[j] = cbs[k] => j = k
    /\ \A k \in DOMAIN cbs : IF cbs[k].fn = "mti_Free" THEN rec[cbs[k].arg] = "live"
                                                       ELSE eng[cbs[k].arg] = "open"
    /\ \A i \in Instances :
          /\ rec[i] = "live" => \E k \in DOMAIN cbs : cbs[k] = FreeCB(i)
          /\ eng[i] = "open" => \E k \in DOMAIN cbs : cbs[k] = CloseCB(i)

\* Instance i has been elaborated, or has not.
Held(i)     == ip[i] = "live" /\ uc[i] = "open"
Released(i) == ip[i] # "live" /\ uc[i] # "open"

\* The inductive invariant: what the lists that count in each phase release is
\* what is held, and what is held is what has been elaborated.
IInv ==
    /\ TypeOK
    /\ NoDoubleRelease
    /\ phase \in {"elaborate", "run", "fatal"} =>
          Covers(quitCB, ip, uc) /\ Covers(restartCB, ip, uc)
    /\ phase = "closing" => Covers(pending, ip, uc)
    /\ phase = "elaborate" =>
          \A i \in Instances : IF i \in todo THEN Released(i) ELSE Held(i)
    /\ phase = "run" => \A i \in Instances : Held(i)
    /\ emulating # None => phase = "run"
    /\ phase = "closing" /\ after = "elaborate" => restarts < MaxRestarts

Records == [Instances -> {"none", "live", "freed", "corrupt"}]
Engines == [Instances -> {"none", "open", "closed", "corrupt"}]

-----------------------------------------------------------------------------
\* One more callback at the end of a list.
LEMMA OneMore ==
    ASSUME NEW s \in Seq(Callback), NEW c \in Callback
    PROVE  /\ s \o <<c>> \in Seq(Callback)
           /\ DOMAIN (s \o <<c>>) = 1..(Len(s) + 1)
           /\ \A k \in 1..Len(s) : (s \o <<c>>)[k] = s[k]
           /\ (s \o <<c>>)[Len(s) + 1] = c
<1>1. <<c>> \in Seq(Callback) /\ Len(<<c>>) = 1 /\ <<c>>[1] = c
    OBVIOUS
<1>2. /\ s \o <<c>> \in Seq(Callback) /\ Len(s \o <<c>>) = Len(s) + 1
      /\ \A k \in 1..(Len(s) + 1) :
            (s \o <<c>>)[k] = IF k <= Len(s) THEN s[k] ELSE <<c>>[k - Len(s)]
    BY <1>1, ConcatProperties
<1>3. Len(s) \in Nat
    OBVIOUS
<1> QED
    BY <1>1, <1>2, <1>3, LenProperties

\* A record is allocated and its release registered.
LEMMA FreeRegistered ==
    ASSUME NEW s \in Seq(Callback), NEW rec \in Records, NEW eng \in Engines,
           Covers(s, rec, eng), NEW i \in Instances, rec[i] # "live"
    PROVE  Covers(s \o <<FreeCB(i)>>, [rec EXCEPT ![i] = "live"], eng)
<1> DEFINE c == FreeCB(i)
           t == s \o <<c>>
           new == [rec EXCEPT ![i] = "live"]
<1>1. c \in Callback /\ c.fn = "mti_Free" /\ c.arg = i
    BY DEF FreeCB, Callback
<1>2. /\ DOMAIN t = 1..(Len(s) + 1) /\ Len(s) \in Nat /\ DOMAIN s = 1..Len(s)
      /\ \A k \in 1..Len(s) : t[k] = s[k] /\ s[k] \in Callback
      /\ t[Len(s) + 1] = c
    BY <1>1, OneMore
<1>3. \A k \in 1..Len(s) : s[k] # c
    BY <1>1, <1>2 DEF Covers
<1>4. new[i] = "live" /\ \A j \in Instances : j # i => new[j] = rec[j]
    BY DEF Records
<1> HIDE DEF c, t, new
<1>5. \A j, k \in DOMAIN t : t[j] = t[k] => j = k
  <2> SUFFICES ASSUME NEW j \in DOMAIN t, NEW k \in DOMAIN t, t[j] = t[k] PROVE j = k
    OBVIOUS
  <2>1. j \in 1..Len(s) \/ j = Len(s) + 1
    BY <1>2
  <2>2. k \in 1..Len(s) \/ k = Len(s) + 1
    BY <1>2
  <2> QED
    BY <1>2, <1>3, <2>1, <2>2 DEF Covers
<1>6. ASSUME NEW k \in DOMAIN t
      PROVE  IF t[k].fn = "mti_Free" THEN new[t[k].arg] = "live" ELSE eng[t[k].arg] = "open"
  <2>1. CASE k = Len(s) + 1
    BY <1>1, <1>2, <1>4, <2>1
  <2>2. CASE k # Len(s) + 1
    <3>1. k \in DOMAIN s /\ t[k] = s[k] /\ s[k].arg \in Instances
      BY <1>2, <2>2 DEF Callback
    <3>2. IF s[k].fn = "mti_Free" THEN rec[s[k].arg] = "live" ELSE eng[s[k].arg] = "open"
      BY <3>1 DEF Covers
    <3> QED
      BY <1>4, <3>1, <3>2
  <2> QED
    BY <2>1, <2>2
<1>7. ASSUME NEW j \in Instances
      PROVE  /\ new[j] = "live" => \E k \in DOMAIN t : t[k] = FreeCB(j)
             /\ eng[j] = "open" => \E k \in DOMAIN t : t[k] = CloseCB(j)
  <2>1. /\ rec[j] = "live" => \E k \in DOMAIN s : s[k] = FreeCB(j)
        /\ eng[j] = "open" => \E k \in DOMAIN s : s[k] = CloseCB(j)
    BY DEF Covers
  <2>2. \A k \in DOMAIN s : k \in DOMAIN t /\ t[k] = s[k]
    BY <1>2
  <2>3. Len(s) + 1 \in DOMAIN t /\ t[Len(s) + 1] = FreeCB(i)
    BY <1>2 DEF c
  <2> QED
    BY <1>4, <2>1, <2>2, <2>3
<1> QED
    BY <1>5, <1>6, <1>7 DEF Covers, t, new, c

\* An engine is opened and its release registered.
LEMMA CloseRegistered ==
    ASSUME NEW s \in Seq(Callback), NEW rec \in Records, NEW eng \in Engines,
           Covers(s, rec, eng), NEW i \in Instances, eng[i] # "open"
    PROVE  Covers(s \o <<CloseCB(i)>>, rec, [eng EXCEPT ![i] = "open"])
<1> DEFINE c == CloseCB(i)
           t == s \o <<c>>
           new == [eng EXCEPT ![i] = "open"]
<1>1. c \in Callback /\ c.fn = "call_unicorn_cleanup" /\ c.arg = i
    BY DEF CloseCB, Callback
<1>2. /\ DOMAIN t = 1..(Len(s) + 1) /\ Len(s) \in Nat /\ DOMAIN s = 1..Len(s)
      /\ \A k \in 1..Len(s) : t[k] = s[k] /\ s[k] \in Callback
      /\ t[Len(s) + 1] = c
    BY <1>1, OneMore
<1>3. \A k \in 1..Len(s) : s[k] # c
    BY <1>1, <1>2 DEF Covers
<1>4. new[i] = "open" /\ \A j \in Instances : j # i => new[j] = eng[j]
    BY DEF Engines
<1> HIDE DEF c, t, new
<1>5. \A j, k \in DOMAIN t : t[j] = t[k] => j = k
  <2> SUFFICES ASSUME NEW j \in DOMAIN t, NEW k \in DOMAIN t, t[j] = t[k] PROVE j = k
    OBVIOUS
  <2>1. j \in 1..Len(s) \/ j = Len(s) + 1
    BY <1>2
  <2>2. k \in 1..Len(s) \/ k = Len(s) + 1
    BY <1>2
  <2> QED
    BY <1>2, <1>3, <2>1, <2>2 DEF Covers
<1>6. ASSUME NEW k \in DOMAIN t
      PROVE  IF t[k].fn = "mti_Free" THEN rec[t[k].arg] = "live" ELSE new[t[k].arg] = "open"
  <2>1. CASE k = Len(s) + 1
    BY <1>1, <1>2, <1>4, <2>1
  <2>2. CASE k # Len(s) + 1
    <3>1. k \in DOMAIN s /\ t[k] = s[k] /\ s[k].arg \in Instances
      BY <1>2, <2>2 DEF Callback
    <3>2. IF s[k].fn = "mti_Free" THEN rec[s[k].arg] = "live" ELSE eng[s[k].arg] = "open"
      BY <3>1 DEF Covers
    <3> QED
      BY <1>4, <3>1, <3>2
  <2> QED
    BY <2>1, <2>2
<1>7. ASSUME NEW j \in Instances
      PROVE  /\ rec[j] = "live" => \E k \in DOMAIN t : t[k] = FreeCB(j)
             /\ new[j] = "open" => \E k \in DOMAIN t : t[k] = CloseCB(j)
  <2>1. /\ rec[j] = "live" => \E k \in DOMAIN s : s[k] = FreeCB(j)
        /\ eng[j] = "open" => \E k \in DOMAIN s : s[k] = CloseCB(j)
    BY DEF Covers
  <2>2. \A k \in DOMAIN s : k \in DOMAIN t /\ t[k] = s[k]
    BY <1>2
  <2>3. Len(s) + 1 \in DOMAIN t /\ t[Len(s) + 1] = CloseCB(i)
    BY <1>2 DEF c
  <2> QED
    BY <1>4, <2>1, <2>2, <2>3
<1> QED
    BY <1>5, <1>6, <1>7 DEF Covers, t, new, c

\* A list without its k-th element.
LEMMA Removed ==
    ASSUME NEW s \in Seq(Callback), NEW k \in DOMAIN s
    PROVE  /\ RemoveAt(s, k) \in Seq(Callback)
           /\ DOMAIN RemoveAt(s, k) = 1..(Len(s) - 1)
           /\ \A j \in 1..(Len(s) - 1) :
                 RemoveAt(s, k)[j] = IF j < k THEN s[j] ELSE s[j + 1]
<1> DEFINE a == SubSeq(s, 1, k - 1)
           b == SubSeq(s, k + 1, Len(s))
<1>1. Len(s) \in Nat /\ k \in 1..Len(s) /\ \A j \in 1..Len(s) : s[j] \in Callback
    BY LenProperties, ElementOfSeq
<1>2. a \in Seq(Callback) /\ Len(a) = k - 1 /\ \A j \in 1..(k - 1) : a[j] = s[j]
  <2>1. /\ a \in Seq(Callback)
        /\ Len(a) = IF 1 <= k - 1 THEN (k - 1) - 1 + 1 ELSE 0
        /\ \A j \in 1..((k - 1) - 1 + 1) : a[j] = s[1 + j - 1]
    <3>1. 1 \in Int /\ k - 1 \in Int /\ \A j \in 1..(k - 1) : s[j] \in Callback
      BY <1>1
    <3> QED
      BY <3>1, SubSeqProperties
  <2> HIDE DEF a
  <2> QED
    BY <1>1, <2>1
<1>3. /\ b \in Seq(Callback) /\ Len(b) = Len(s) - k
      /\ \A j \in 1..(Len(s) - k) : b[j] = s[k + j]
  <2>1. /\ b \in Seq(Callback)
        /\ Len(b) = IF k + 1 <= Len(s) THEN Len(s) - (k + 1) + 1 ELSE 0
        /\ \A j \in 1..(Len(s) - (k + 1) + 1) : b[j] = s[k + 1 + j - 1]
    <3>1. k + 1 \in Int /\ Len(s) \in Int /\ \A j \in (k + 1)..Len(s) : s[j] \in Callback
      BY <1>1
    <3> QED
      BY <3>1, SubSeqProperties
  <2> HIDE DEF b
  <2>2. \A j \in 1..(Len(s) - k) : k + 1 + j - 1 = k + j
    BY <1>1
  <2> QED
    BY <1>1, <2>1, <2>2
<1>4. RemoveAt(s, k) = a \o b
    BY DEF RemoveAt
<1> HIDE DEF a, b
<1>5. /\ a \o b \in Seq(Callback) /\ Len(a \o b) = Len(a) + Len(b)
      /\ \A j \in 1..(Len(a) + Len(b)) :
            (a \o b)[j] = IF j <= Len(a) THEN a[j] ELSE b[j - Len(a)]
    BY <1>2, <1>3, ConcatProperties
<1>6. Len(a) + Len(b) = Len(s) - 1
    BY <1>1, <1>2, <1>3
<1>7. ASSUME NEW j \in 1..(Len(s) - 1)
      PROVE  (a \o b)[j] = IF j < k THEN s[j] ELSE s[j + 1]
  <2>1. CASE j < k
    BY <1>1, <1>2, <1>5, <1>6, <2>1
  <2>2. CASE ~(j < k)
    <3>1. j - (k - 1) \in 1..(Len(s) - k) /\ k + (j - (k - 1)) = j + 1 /\ ~(j <= k - 1)
      BY <1>1, <2>2
    <3>2. (a \o b)[j] = b[j - (k - 1)]
      BY <1>2, <1>5, <1>6, <3>1
    <3>3. b[j - (k - 1)] = s[k + (j - (k - 1))]
      BY <1>3, <3>1
    <3> QED
      BY <2>2, <3>1, <3>2, <3>3
  <2> QED
    BY <2>1, <2>2
<1> QED
    BY <1>4, <1>5, <1>6, <1>7, LenProperties

\* One callback of a list runs: the rest of the list is right for what is left.
LEMMA CallbackRan ==
    ASSUME NEW s \in Seq(Callback), NEW rec \in Records, NEW eng \in Engines,
           Covers(s, rec, eng), NEW k \in DOMAIN s,
           NEW rec2 \in Records, NEW eng2 \in Engines,
           IF s[k].fn = "mti_Free"
           THEN rec2 = [rec EXCEPT ![s[k].arg] = "freed"] /\ eng2 = eng
           ELSE eng2 = [eng EXCEPT ![s[k].arg] = "closed"] /\ rec2 = rec
    PROVE  Covers(RemoveAt(s, k), rec2, eng2)
<1> DEFINE r == RemoveAt(s, k)
           place(j) == IF j < k THEN j ELSE j + 1
<1>1. /\ Len(s) \in Nat /\ DOMAIN s = 1..Len(s) /\ k \in 1..Len(s)
      /\ \A j \in 1..Len(s) : s[j] \in Callback
    BY LenProperties, ElementOfSeq
<1>2. DOMAIN r = 1..(Len(s) - 1)
    BY Removed
<1>3. ASSUME NEW j \in DOMAIN r
      PROVE  place(j) \in DOMAIN s /\ place(j) # k /\ r[j] = s[place(j)]
  <2>1. r[j] = IF j < k THEN s[j] ELSE s[j + 1]
    BY <1>2, Removed
  <2> HIDE DEF r
  <2> QED
    BY <1>1, <1>2, <2>1
<1>4. ASSUME NEW j \in DOMAIN s, j # k PROVE \E l \in DOMAIN r : r[l] = s[j]
  <2>1. CASE j < k
    <3>1. j \in DOMAIN r /\ place(j) = j
      BY <1>1, <1>2, <2>1
    <3> QED
      BY <1>3, <3>1
  <2>2. CASE ~(j < k)
    <3>1. j - 1 \in DOMAIN r /\ place(j - 1) = j
      BY <1>1, <1>2, <1>4, <2>2
    <3> QED
      BY <1>3, <3>1
  <2> QED
    BY <2>1, <2>2
<1>5. \A j, l \in DOMAIN r : place(j) = place(l) => j = l
    BY <1>1, <1>2
<1> HIDE DEF r, place
<1>6. \A j, l \in DOMAIN r : r[j] = r[l] => j = l
    BY <1>3, <1>5 DEF Covers
<1>7. \A j \in DOMAIN r : r[j] # s[k] /\ r[j] \in Callback
    BY <1>1, <1>3 DEF Covers
<1>8. s[k] \in Callback
    BY <1>1
<1>9. ASSUME NEW j \in DOMAIN r
      PROVE  IF r[j].fn = "mti_Free" THEN rec2[r[j].arg] = "live" ELSE eng2[r[j].arg] = "open"
  <2>1. IF r[j].fn = "mti_Free" THEN rec[r[j].arg] = "live" ELSE eng[r[j].arg] = "open"
    BY <1>3 DEF Covers
  <2>2. r[j].fn = s[k].fn => r[j].arg # s[k].arg
    BY <1>7, <1>8 DEF Callback
  <2>3. /\ r[j].fn \in {"mti_Free", "call_unicorn_cleanup"} /\ r[j].arg \in Instances
        /\ s[k].fn \in {"mti_Free", "call_unicorn_cleanup"} /\ s[k].arg \in Instances
    BY <1>7, <1>8 DEF Callback
  <2>4. CASE s[k].fn = "mti_Free"
    BY <2>1, <2>2, <2>3, <2>4 DEF Records
  <2>5. CASE s[k].fn # "mti_Free"
    BY <2>1, <2>2, <2>3, <2>5 DEF Engines
  <2> QED
    BY <2>4, <2>5
<1>10. ASSUME NEW i \in Instances
       PROVE  /\ rec2[i] = "live" => \E j \in DOMAIN r : r[j] = FreeCB(i)
              /\ eng2[i] = "open" => \E j \in DOMAIN r : r[j] = CloseCB(i)
  <2>1. /\ rec[i] = "live" => \E j \in DOMAIN s : s[j] = FreeCB(i)
        /\ eng[i] = "open" => \E j \in DOMAIN s : s[j] = CloseCB(i)
    BY DEF Covers
  <2>2. s[k].arg \in Instances /\ s[k].fn \in {"mti_Free", "call_unicorn_cleanup"}
    BY <1>8 DEF Callback
  <2>3. ASSUME rec2[i] = "live" PROVE \E j \in DOMAIN r : r[j] = FreeCB(i)
    <3>1. rec[i] = "live" /\ (s[k].fn = "mti_Free" => s[k].arg # i)
      BY <2>2, <2>3 DEF Records
    <3>2. s[k] # FreeCB(i)
      BY <3>1 DEF FreeCB
    <3>3. PICK j \in DOMAIN s : s[j] = FreeCB(i)
      BY <2>1, <3>1
    <3> QED
      BY <1>4, <3>2, <3>3
  <2>4. ASSUME eng2[i] = "open" PROVE \E j \in DOMAIN r : r[j] = CloseCB(i)
    <3>1. eng[i] = "open" /\ (s[k].fn # "mti_Free" => s[k].arg # i)
      BY <2>2, <2>4 DEF Engines
    <3>2. s[k] # CloseCB(i)
      BY <3>1 DEF CloseCB
    <3>3. PICK j \in DOMAIN s : s[j] = CloseCB(i)
      BY <2>1, <3>1
    <3> QED
      BY <1>4, <3>2, <3>3
  <2> QED
    BY <2>3, <2>4
<1> QED
    BY <1>6, <1>9, <1>10 DEF Covers, r

-----------------------------------------------------------------------------
\* Both lists grow by the same callbacks, and stay lists of callbacks.
LEMMA Registers ==
    ASSUME NEW i \in Instances, quitCB \in Seq(Callback), restartCB \in Seq(Callback)
    PROVE  \A q \in {quitCB, restartCB} :
              /\ q \o EarlyCallbacks(i) \in Seq(Callback)
              /\ q \o EarlyCallbacks(i) = q \o <<FreeCB(i)>>
              /\ q \o (EarlyCallbacks(i) \o <<CloseCB(i)>>) \in Seq(Callback)
              /\ q \o (EarlyCallbacks(i) \o <<CloseCB(i)>>)
                    = (q \o <<FreeCB(i)>>) \o <<CloseCB(i)>>
<1>1. FreeCB(i) \in Callback /\ CloseCB(i) \in Callback
    BY DEF FreeCB, CloseCB, Callback
<1>2. <<FreeCB(i)>> \in Seq(Callback) /\ <<CloseCB(i)>> \in Seq(Callback)
    BY <1>1
<1>3. ASSUME NEW q \in {quitCB, restartCB}
      PROVE  /\ q \o <<FreeCB(i)>> \in Seq(Callback)
             /\ (q \o <<FreeCB(i)>>) \o <<CloseCB(i)>> \in Seq(Callback)
             /\ q \o (<<FreeCB(i)>> \o <<CloseCB(i)>>)
                   = (q \o <<FreeCB(i)>>) \o <<CloseCB(i)>>
  <2>1. q \in Seq(Callback)
    OBVIOUS
  <2> QED
    BY <1>1, <1>2, <2>1, OneMore, ConcatAssociative
<1> QED
    BY <1>3 DEF EarlyCallbacks

\* A name that is shorter than the buffer leaves a NUL in it.
LEMMA NameFits ==
    ASSUME DOMAIN filename = 0..(MAX_WORD - 1), NEW name \in Names
    PROVE  /\ DOMAIN get_generic_filename(filename, name) = 0..(MAX_WORD - 1)
           /\ NulChar \in Range(get_generic_filename(filename, name))
<1> DEFINE buf == get_generic_filename(filename, name)
<1>1. DOMAIN buf = 0..(MAX_WORD - 1)
    BY DEF get_generic_filename
<1>2. Len(name) \in 0..(MAX_WORD - 1)
    BY NamesAssumption
<1>3. buf[Len(name)] = NulChar
    BY <1>2, WordAssumption DEF get_generic_filename
<1> HIDE DEF buf
<1>4. NulChar \in Range(buf)
    BY <1>1, <1>2, <1>3 DEF Range
<1> QED
    BY <1>1, <1>4 DEF buf

\* An empty buffer holds a NUL.
LEMMA EmptyFits == DOMAIN EmptyName = 0..(MAX_WORD - 1) /\ NulChar \in Range(EmptyName)
<1>1. 0 \in 0..(MAX_WORD - 1)
    BY WordAssumption
<1>2. DOMAIN EmptyName = 0..(MAX_WORD - 1) /\ EmptyName[0] = NulChar
    BY <1>1 DEF EmptyName
<1> HIDE DEF EmptyName
<1> QED
    BY <1>1, <1>2 DEF Range

\* The invariant holds before anything is elaborated.
LEMMA InitIInv == Init => IInv
<1> SUFFICES ASSUME Init PROVE IInv
    OBVIOUS
<1>1. TypeOK
    BY EmptyFits, RestartAssumption DEF Init, TypeOK
<1>2. Covers(<<>>, ip, uc)
    BY DEF Covers, Init
<1> QED
    BY <1>1, <1>2, NoneAssumption DEF Init, IInv, NoDoubleRelease, Released

-----------------------------------------------------------------------------
\* cif_init that fails in uc_open.
LEMMA OpenFailsStep ==
    ASSUME IInv, NEW i \in Instances, CifInitOpenFails(i)
    PROVE  IInv'
<1>1. /\ TypeOK /\ NoDoubleRelease /\ phase = "elaborate" /\ i \in todo
      /\ Covers(quitCB, ip, uc) /\ Covers(restartCB, ip, uc)
      /\ emulating = None /\ ip[i] # "live"
    BY DEF IInv, CifInitOpenFails, Released
<1>2. /\ ip' = [ip EXCEPT ![i] = "live"] /\ uc' = uc /\ phase' = "fatal"
      /\ quitCB' = quitCB \o <<FreeCB(i)>> /\ restartCB' = restartCB \o <<FreeCB(i)>>
      /\ quitCB' \in Seq(Callback) /\ restartCB' \in Seq(Callback)
      /\ emulating' = emulating
    BY <1>1, Registers DEF CifInitOpenFails, Register, TypeOK
<1>3. Covers(quitCB', ip', uc') /\ Covers(restartCB', ip', uc')
    BY <1>1, <1>2, FreeRegistered DEF TypeOK, Records, Engines
<1>4. ip' \in Records /\ \A j \in Instances : ip'[j] # "corrupt" /\ uc'[j] # "corrupt"
    BY <1>1, <1>2 DEF TypeOK, NoDoubleRelease, Records
<1>5. TypeOK'
  <2>1. DOMAIN filename' = 0..(MAX_WORD - 1) /\ NulChar \in Range(filename')
    <3>1. filename' = get_generic_filename(filename, generic[i]) /\ generic[i] \in Names
      BY <1>1 DEF CifInitOpenFails, TypeOK
    <3> QED
      BY <1>1, <3>1, NameFits DEF TypeOK
  <2> QED
    BY <1>1, <1>2, <1>4, <2>1 DEF TypeOK, CifInitOpenFails, Records
<1> QED
    BY <1>1, <1>2, <1>3, <1>4, <1>5 DEF IInv, NoDoubleRelease

\* cif_init that runs to its end.
LEMMA CifInitStep ==
    ASSUME IInv, NEW i \in Instances, CifInit(i)
    PROVE  IInv'
<1>1. /\ TypeOK /\ NoDoubleRelease /\ phase = "elaborate" /\ i \in todo
      /\ Covers(quitCB, ip, uc) /\ Covers(restartCB, ip, uc)
      /\ emulating = None /\ ip[i] # "live" /\ uc[i] # "open"
    BY DEF IInv, CifInit, Released
<1>2. /\ ip' = [ip EXCEPT ![i] = "live"] /\ uc' = [uc EXCEPT ![i] = "open"]
      /\ todo' = todo \ {i} /\ phase' = IF todo' = {} THEN "run" ELSE "elaborate"
      /\ emulating' = emulating
    BY DEF CifInit
<1>3. /\ quitCB' = (quitCB \o <<FreeCB(i)>>) \o <<CloseCB(i)>>
      /\ restartCB' = (restartCB \o <<FreeCB(i)>>) \o <<CloseCB(i)>>
      /\ quitCB' \in Seq(Callback) /\ restartCB' \in Seq(Callback)
      /\ quitCB \o <<FreeCB(i)>> \in Seq(Callback)
      /\ restartCB \o <<FreeCB(i)>> \in Seq(Callback)
    BY <1>1, Registers DEF CifInit, Register, TypeOK
<1>4. /\ ip' \in Records /\ uc' \in Engines /\ uc \in Engines /\ ip \in Records
      /\ \A j \in Instances : ip'[j] # "corrupt" /\ uc'[j] # "corrupt"
    BY <1>1, <1>2 DEF TypeOK, NoDoubleRelease, Records, Engines
<1>5. /\ Covers(quitCB \o <<FreeCB(i)>>, ip', uc)
      /\ Covers(restartCB \o <<FreeCB(i)>>, ip', uc)
    BY <1>1, <1>2, <1>4, FreeRegistered DEF TypeOK
<1>6. Covers(quitCB', ip', uc') /\ Covers(restartCB', ip', uc')
    BY <1>1, <1>2, <1>3, <1>4, <1>5, CloseRegistered
<1>7. TypeOK'
  <2>1. DOMAIN filename' = 0..(MAX_WORD - 1) /\ NulChar \in Range(filename')
    <3>1. filename' = get_generic_filename(filename, generic[i]) /\ generic[i] \in Names
      BY <1>1 DEF CifInit, TypeOK
    <3> QED
      BY <1>1, <3>1, NameFits DEF TypeOK
  <2>2. DOMAIN loaded' = Instances
    BY <1>1 DEF CifInit, TypeOK
  <2>3. phase' \in {"elaborate", "run"} /\ todo' \subseteq Instances
    BY <1>1, <1>2 DEF TypeOK
  <2> QED
    BY <1>1, <1>2, <1>3, <1>4, <2>1, <2>2, <2>3 DEF TypeOK, CifInit, Records, Engines
<1>8. \A j \in Instances : IF j \in todo' THEN Released(j)' ELSE Held(j)'
    BY <1>1, <1>2 DEF IInv, TypeOK, Released, Held
<1>9. phase' = "run" => \A j \in Instances : Held(j)'
    BY <1>2, <1>8
<1>10. phase' \in {"run", "elaborate"}
    BY <1>2
<1> QED
    BY <1>1, <1>2, <1>4, <1>6, <1>7, <1>8, <1>9, <1>10 DEF IInv, NoDoubleRelease

\* The simulator starts on a list of callbacks.
LEMMA CloseStep ==
    ASSUME IInv, phase \in {"run", "fatal"}, emulating' = None,
           \/ Close(quitCB, "exited")
           \/ Close(restartCB, "elaborate") /\ restarts < MaxRestarts
    PROVE  IInv'
<1>1. /\ phase' = "closing" /\ after' \in {"exited", "elaborate"}
      /\ pending' \in {quitCB, restartCB}
      /\ UNCHANGED <<todo, quitCB, restartCB, ip, uc, generic, filename, loaded, restarts>>
    BY DEF Close, lists, image
<1>2. Covers(pending', ip', uc')
    BY <1>1 DEF IInv
<1>3. TypeOK'
    BY <1>1 DEF IInv, TypeOK
<1>4. after' = "elaborate" => restarts' < MaxRestarts
    BY <1>1 DEF Close
<1> QED
    BY <1>1, <1>2, <1>3, <1>4 DEF IInv, NoDoubleRelease

\* One callback runs.
LEMMA ClosingStep == ASSUME IInv, Closing PROVE IInv'
<1>1. /\ TypeOK /\ NoDoubleRelease /\ phase = "closing" /\ Covers(pending, ip, uc)
      /\ pending \in Seq(Callback) /\ ip \in Records /\ uc \in Engines
    BY DEF IInv, Closing, TypeOK, Records, Engines
<1>2. UNCHANGED <<phase, after, todo, quitCB, restartCB, generic, filename, loaded, emulating,
                  restarts>>
    BY DEF Closing, lists, image
<1>3. PICK k \in DOMAIN pending : RunCallback(pending[k]) /\ pending' = RemoveAt(pending, k)
    BY DEF Closing
<1>4. /\ pending[k] \in Callback
      /\ IF pending[k].fn = "mti_Free" THEN ip[pending[k].arg] = "live"
                                       ELSE uc[pending[k].arg] = "open"
    BY <1>1, LenProperties, ElementOfSeq DEF Covers
<1>5. IF pending[k].fn = "mti_Free"
      THEN ip' = [ip EXCEPT ![pending[k].arg] = "freed"] /\ uc' = uc
      ELSE uc' = [uc EXCEPT ![pending[k].arg] = "closed"] /\ ip' = ip
    BY <1>3, <1>4 DEF RunCallback
<1>6. /\ ip' \in Records /\ uc' \in Engines
      /\ \A j \in Instances : ip'[j] # "corrupt" /\ uc'[j] # "corrupt"
  <2>1. CASE pending[k].fn = "mti_Free"
    BY <1>1, <1>5, <2>1 DEF Records, Engines, NoDoubleRelease
  <2>2. CASE pending[k].fn # "mti_Free"
    BY <1>1, <1>5, <2>2 DEF Records, Engines, NoDoubleRelease
  <2> QED
    BY <2>1, <2>2
<1>7. Covers(pending', ip', uc') /\ pending' \in Seq(Callback)
    BY <1>1, <1>3, <1>5, <1>6, CallbackRan, Removed
<1>8. TypeOK'
    BY <1>1, <1>2, <1>6, <1>7 DEF TypeOK, Records, Engines
<1>9. emulating' = None
    BY <1>1, <1>2 DEF IInv
<1> QED
    BY <1>1, <1>2, <1>6, <1>7, <1>8, <1>9 DEF IInv, NoDoubleRelease

\* The list is empty: nothing is held any more.
LEMMA NothingHeld ==
    ASSUME IInv, phase = "closing", pending = <<>>
    PROVE  \A i \in Instances : Released(i)
BY DEF IInv, Covers, Released

\* The simulator exits, or elaborates with nothing held and empty lists.
LEMMA ClosedStep == ASSUME IInv, Closed PROVE IInv'
<1>1. /\ TypeOK /\ NoDoubleRelease /\ phase = "closing" /\ pending = <<>> /\ phase' = after
      /\ UNCHANGED <<after, pending, ip, uc, generic, emulating>> /\ emulating = None
    BY DEF IInv, Closed
<1>2. \A i \in Instances : Released(i)
    BY <1>1, NothingHeld
<1>3. Covers(<<>>, ip', uc')
    BY <1>1, <1>2 DEF Covers, Released
<1>4. CASE after = "elaborate"
  <2>1. /\ todo' = Instances /\ quitCB' = <<>> /\ restartCB' = <<>>
        /\ DOMAIN loaded' = Instances /\ filename' \in {filename, EmptyName}
        /\ restarts' = restarts + 1
    BY <1>4 DEF Closed
  <2>2. TypeOK'
    <3>1. restarts' \in 0..MaxRestarts
      BY <1>1, <1>4, <2>1, RestartAssumption DEF IInv, TypeOK
    <3> QED
      BY <1>1, <1>4, <2>1, <3>1, EmptyFits DEF TypeOK
  <2> QED
    BY <1>1, <1>2, <1>3, <1>4, <2>1, <2>2 DEF IInv, NoDoubleRelease, Released
<1>5. CASE after # "elaborate"
  <2>1. after = "exited" /\ UNCHANGED <<todo, quitCB, restartCB, restarts, loaded, filename>>
    BY <1>1, <1>5 DEF Closed, TypeOK, lists
  <2>2. TypeOK'
    BY <1>1, <2>1 DEF TypeOK
  <2> QED
    BY <1>1, <2>1, <2>2 DEF IInv, NoDoubleRelease
<1> QED
    BY <1>4, <1>5

\* Every step keeps the invariant.
LEMMA StepIInv == IInv /\ [Next]_vars => IInv'
<1> SUFFICES ASSUME IInv, [Next]_vars PROVE IInv'
    OBVIOUS
<1>1. ASSUME NEW i \in Instances, CifInitBadGeneric(i) PROVE IInv'
    BY <1>1 DEF IInv, CifInitBadGeneric, lists, image, TypeOK, NoDoubleRelease
<1>2. ASSUME NEW i \in Instances, CifInitOpenFails(i) PROVE IInv'
    BY <1>2, OpenFailsStep
<1>3. ASSUME NEW i \in Instances, CifInit(i) PROVE IInv'
    BY <1>3, CifInitStep
<1>4. ASSUME NEW i \in Instances, Enter(i) PROVE IInv'
    BY <1>4 DEF IInv, Enter, lists, image, TypeOK, NoDoubleRelease, Held
<1>5. CASE Leave
    BY <1>5 DEF IInv, Leave, lists, image, TypeOK, NoDoubleRelease, Held
<1>6. CASE EmuError
    BY <1>6, CloseStep DEF EmuError, QuitOnError
<1>7. CASE UserQuit
    BY <1>7, CloseStep DEF UserQuit
<1>8. CASE UserRestart
    BY <1>8, CloseStep DEF UserRestart
<1>9. CASE Closing
    BY <1>9, ClosingStep
<1>10. CASE Closed
    BY <1>10, ClosedStep
<1>11. CASE UNCHANGED vars
    BY <1>11 DEF IInv, vars, lists, image, TypeOK, NoDoubleRelease, Held, Released
<1> QED
    BY <1>1, <1>2, <1>3, <1>4, <1>5, <1>6, <1>7, <1>8, <1>9, <1>10, <1>11
    DEF Next, Elaborate, Simulate, Done

\* The inductive invariant holds, for any number of instances and restarts.
LEMMA Inductive == Spec => []IInv
BY InitIInv, StepIInv, PTL DEF Spec

\* The types are an invariant: the shared name buffer, among the rest, always
\* holds a terminated string.
THEOREM LifecycleType == Spec => []TypeOK
<1>1. IInv => TypeOK
    BY DEF IInv
<1> QED
    BY <1>1, Inductive, PTL

\* No record is freed twice, no engine closed twice or without being open.
THEOREM ReleasedOnce == Spec => []NoDoubleRelease
<1>1. IInv => NoDoubleRelease
    BY DEF IInv
<1> QED
    BY <1>1, Inductive, PTL

\* When the callbacks of a quit or a restart have run, nothing is left behind.
THEOREM ReleasedAll == Spec => []AllReleased
<1>1. IInv => AllReleased
    BY NothingHeld DEF AllReleased, Released
<1> QED
    BY <1>1, Inductive, PTL

\* What uc_emu_start uses is held.
THEOREM HeldInUse == Spec => []NoUseAfterRelease
<1>1. IInv => NoUseAfterRelease
    BY DEF IInv, TypeOK, NoUseAfterRelease, Held
<1> QED
    BY <1>1, Inductive, PTL

-----------------------------------------------------------------------------
\* The loop of init_unicorn: the memory and the address after k bytes.
PutByte(s, byte) == [mem |-> uc_mem_write(s.mem, s.addr, byte), addr |-> s.addr + 1]
CopyStates == [mem : [Mapped -> Nat], addr : Nat]
CopyStart  == [mem |-> ZeroMemory, addr |-> START_ADDRESS]

IsCopy(f, img) == /\ f \in [0..Len(img) -> CopyStates] /\ f[0] = CopyStart
                  /\ \A k \in 1..Len(img) : f[k] = PutByte(f[k - 1], img[k])

LEMMA PutByteType ==
    ASSUME NEW s \in CopyStates, NEW byte \in Nat PROVE PutByte(s, byte) \in CopyStates
<1>1. s.mem \in [Mapped -> Nat] /\ s.addr \in Nat
    BY DEF CopyStates
<1>2. uc_mem_write(s.mem, s.addr, byte) \in [Mapped -> Nat]
    BY <1>1 DEF uc_mem_write
<1> QED
    BY <1>1, <1>2 DEF CopyStates, PutByte

LEMMA CopyLoop ==
    ASSUME NEW img \in Seq(Nat)
    PROVE  \E f : /\ IsCopy(f, img)
                  /\ Copy(img).mem = f[Len(img)].mem
                  /\ Copy(img).total = f[Len(img)].addr - START_ADDRESS
<1> DEFINE n == Len(img)
           step == [k \in 1..n |-> [s \in CopyStates |-> PutByte(s, img[k])]]
           Rec(g) == g = [R \in SUBSET (DOMAIN img) |->
                             IF R = {} THEN CopyStart
                             ELSE PutByte(g[R \ {Max(R)}], img[Max(R)])]
           g == CHOOSE h : Rec(h)
<1>1. n \in Nat /\ DOMAIN img = 1..n /\ \A k \in 1..n : img[k] \in Nat
    BY LenProperties, ElementOfSeq
<1>2. IsStep(step, CopyStates, n)
    BY <1>1, PutByteType DEF IsStep
<1>3. CopyStart \in CopyStates
    BY MapAssumption DEF CopyStart, CopyStates, ZeroMemory
<1>4. PICK h : IsFold(h, CopyStates, n, CopyStart, step)
  <2> HIDE DEF step, n
  <2> QED
    BY <1>1, <1>2, <1>3, FoldExists
<1>5. Rec(h)
  <2>1. h \in [SUBSET (1..n) -> CopyStates] /\ h[{}] = CopyStart
    BY <1>4 DEF IsFold
  <2>2. ASSUME NEW R \in SUBSET (1..n), R # {}
        PROVE  h[R] = PutByte(h[R \ {Max(R)}], img[Max(R)])
    <3>1. Max(R) \in R /\ h[R] = step[Max(R)][h[R \ {Max(R)}]]
      BY <1>4, <2>2 DEF IsFold
    <3>2. Max(R) \in 1..n /\ R \ {Max(R)} \in SUBSET (1..n)
      BY <3>1
    <3>3. h[R \ {Max(R)}] \in CopyStates
      BY <2>1, <3>2
    <3> QED
      BY <3>1, <3>2, <3>3
  <2> QED
    BY <1>1, <2>1, <2>2
<1>6. Rec(g)
  <2> HIDE DEF Rec
  <2> QED
    BY <1>5
<1>7. Follows(g, CopyStates, n, CopyStart, step)
  <2>1. g = [R \in SUBSET (1..n) |->
                IF R = {} THEN CopyStart ELSE PutByte(g[R \ {Max(R)}], img[Max(R)])]
    BY <1>1, <1>6
  <2> HIDE DEF g
  <2>2. g[1..0] = CopyStart
    <3>1. 1..0 = {} /\ {} \in SUBSET (1..n)
      OBVIOUS
    <3> QED
      BY <2>1, <3>1
  <2>3. ASSUME NEW k \in 1..n, g[1..(k - 1)] \in CopyStates
        PROVE  g[1..k] = step[k][g[1..(k - 1)]]
    <3>1. 1..k \in SUBSET (1..n) /\ 1..k # {} /\ k \in Nat \ {0}
      <4>1. n \in Nat /\ k \in Nat /\ 1 <= k /\ k <= n
        BY <1>1
      <4> HIDE DEF n
      <4> QED
        BY <4>1, SegmentMax
    <3>2. g[1..k] = PutByte(g[(1..k) \ {Max(1..k)}], img[Max(1..k)])
      BY <2>1, <3>1
    <3>3. Max(1..k) = k /\ (1..k) \ {k} = 1..(k - 1)
      BY <3>1, SegmentMax
    <3> QED
      BY <2>3, <3>2, <3>3
  <2> QED
    BY <2>2, <2>3 DEF Follows
<1>8. Copy(img).mem = g[DOMAIN img].mem /\ Copy(img).total = g[DOMAIN img].addr - START_ADDRESS
    BY DEF Copy, FoldLeft, MapThenFoldSet, PutByte, CopyStart
<1> DEFINE f == [k \in 0..n |-> g[1..k]]
<1>9. IsLoop(f, CopyStates, n, CopyStart, step)
  <2> HIDE DEF g, step, n
  <2> QED
    BY <1>1, <1>2, <1>3, <1>7, FoldIsLoop
<1>10. f[n] = g[DOMAIN img]
    BY <1>1
<1> HIDE DEF f, g
<1>11. IsCopy(f, img)
  <2>1. ASSUME NEW k \in 1..n PROVE f[k] = PutByte(f[k - 1], img[k])
    <3>1. k - 1 \in 0..n /\ f \in [0..n -> CopyStates]
      BY <1>1, <1>9 DEF IsLoop
    <3>2. f[k - 1] \in CopyStates /\ f[k] = step[k][f[k - 1]]
      BY <1>9, <3>1 DEF IsLoop
    <3> QED
      BY <3>2
  <2> QED
    BY <1>9, <2>1 DEF IsLoop, IsCopy
<1> QED
    BY <1>8, <1>10, <1>11

\* The first k bytes are where they belong, and the rest of the memory is clear.
Image(img, k) == [a \in Mapped |->
                     IF a >= START_ADDRESS /\ a - START_ADDRESS + 1 <= k
                     THEN img[a - START_ADDRESS + 1] ELSE 0]

LEMMA ImageGrows ==
    ASSUME NEW img, NEW k \in Nat
    PROVE  uc_mem_write(Image(img, k), START_ADDRESS + k, img[k + 1]) = Image(img, k + 1)
<1> DEFINE w == uc_mem_write(Image(img, k), START_ADDRESS + k, img[k + 1])
<1>1. \A a \in Mapped : a \in Nat
    BY MapAssumption DEF Mapped
<1>2. ASSUME NEW a \in Mapped PROVE w[a] = Image(img, k + 1)[a]
  <2>1. CASE a = START_ADDRESS + k
    BY <1>1, <2>1, MapAssumption DEF uc_mem_write, Image
  <2>2. CASE a # START_ADDRESS + k
    <3>1. w[a] = Image(img, k)[a]
      BY <2>2 DEF uc_mem_write, Image
    <3>2. a >= START_ADDRESS =>
             (a - START_ADDRESS + 1 <= k <=> a - START_ADDRESS + 1 <= k + 1)
      BY <1>1, <2>2, MapAssumption
    <3> QED
      BY <3>1, <3>2 DEF Image
  <2> QED
    BY <2>1, <2>2
<1>3. /\ w = [a \in Mapped |-> w[a]]
      /\ Image(img, k + 1) = [a \in Mapped |-> Image(img, k + 1)[a]]
    BY DEF uc_mem_write, Image
<1> HIDE DEF w
<1>4. w = Image(img, k + 1)
    BY <1>2, <1>3
<1> QED
    BY <1>4 DEF w

\* What init_unicorn leaves in the memory, and the total it prints.
LEMMA Copied ==
    ASSUME NEW img \in Seq(Nat)
    PROVE  Copy(img).mem = Image(img, Len(img)) /\ Copy(img).total = Len(img)
<1>1. PICK f : /\ IsCopy(f, img)
               /\ Copy(img).mem = f[Len(img)].mem
               /\ Copy(img).total = f[Len(img)].addr - START_ADDRESS
    BY CopyLoop
<1>2. PICK n \in Nat : n = Len(img)
    BY LenProperties
<1> DEFINE S == {k \in 0..n : f[k].mem = Image(img, k) /\ f[k].addr = START_ADDRESS + k}
<1>3. 0 \in S
  <2>1. f[0] = CopyStart
    BY <1>1 DEF IsCopy
  <2>2. ZeroMemory = Image(img, 0)
    <3>1. \A a \in Mapped : ~(a >= START_ADDRESS /\ a - START_ADDRESS + 1 <= 0)
      BY MapAssumption DEF Mapped
    <3> QED
      BY <3>1 DEF ZeroMemory, Image
  <2> QED
    BY <2>1, <2>2, MapAssumption DEF CopyStart
<1>4. ASSUME NEW k \in 0..(n - 1), k \in S PROVE k + 1 \in S
  <2> DEFINE l == k + 1
  <2>1. l \in 1..n /\ l - 1 = k /\ l \in 0..n /\ k \in Nat
    OBVIOUS
  <2> HIDE DEF l
  <2>2. f[l] = PutByte(f[l - 1], img[l])
    BY <1>1, <1>2, <2>1 DEF IsCopy
  <2>3. f[k].mem = Image(img, k) /\ f[k].addr = START_ADDRESS + k
    BY <1>4
  <2>4. /\ f[l].mem = uc_mem_write(Image(img, k), START_ADDRESS + k, img[l])
        /\ f[l].addr = START_ADDRESS + k + 1
    BY <2>1, <2>2, <2>3 DEF PutByte
  <2>5. f[l].mem = Image(img, l)
    BY <2>1, <2>4, ImageGrows DEF l
  <2>6. f[l].addr = START_ADDRESS + l
    BY <2>1, <2>4, MapAssumption DEF l
  <2>7. l \in S
    BY <2>1, <2>5, <2>6
  <2> QED
    BY <2>7 DEF l
<1>5. n \in S
  <2> HIDE DEF S
  <2>1. 0..n \subseteq S
    BY <1>3, <1>4, UpTo
  <2> QED
    BY <2>1
<1> QED
    BY <1>1, <1>2, <1>5, MapAssumption

\* fopen reads back the name that was copied, whatever the buffer held before.
LEMMA NameReadBack ==
    ASSUME NEW buf, DOMAIN buf = 0..(MAX_WORD - 1), NEW name \in Names
    PROVE  CString(get_generic_filename(buf, name)) = name
<1> DEFINE new == get_generic_filename(buf, name)
           n == Len(name)
           Ends(k) == new[k] = NulChar /\ \A j \in 0..(k - 1) : new[j] # NulChar
<1>1. /\ name \in Seq(Range(name) \ {NulChar}) /\ n \in 0..(MAX_WORD - 1)
      /\ MAX_WORD \in Nat
    BY NamesAssumption, WordAssumption
<1>2. \A k \in 1..n : name[k] # NulChar
    BY <1>1, ElementOfSeq
<1>3. DOMAIN new = 0..(MAX_WORD - 1)
    BY DEF get_generic_filename
<1>4. \A k \in 0..(n - 1) : new[k] = name[k + 1]
    BY <1>1 DEF get_generic_filename
<1>5. new[n] = NulChar
    BY <1>1 DEF get_generic_filename
<1> HIDE DEF new
<1>6. \A k \in 0..(n - 1) : new[k] # NulChar
  <2>1. \A k \in 0..(n - 1) : k + 1 \in 1..n
    BY <1>1
  <2> QED
    BY <1>2, <1>4, <2>1
<1>7. n \in DOMAIN new /\ Ends(n)
    BY <1>1, <1>3, <1>5, <1>6
<1>8. ASSUME NEW k \in DOMAIN new, Ends(k) PROVE k = n
  <2>1. k \in Nat /\ n \in Nat
    BY <1>1, <1>3
  <2>2. ~(k < n)
    BY <1>6, <1>8, <2>1
  <2>3. ~(n < k)
    BY <1>5, <1>8, <2>1
  <2> QED
    BY <2>1, <2>2, <2>3
<1>9. (CHOOSE k \in DOMAIN new : Ends(k)) = n
  <2> HIDE DEF Ends
  <2> QED
    BY <1>7, <1>8
<1>10. CString(new) = [k \in 1..n |-> new[k - 1]]
    BY <1>9 DEF CString
<1>11. \A k \in 1..n : new[k - 1] = name[k]
  <2>1. \A k \in 1..n : k - 1 \in 0..(n - 1) /\ (k - 1) + 1 = k
    BY <1>1
  <2> QED
    BY <1>4, <2>1
<1>12. [k \in 1..n |-> new[k - 1]] = name
  <2>1. name = [k \in 1..n |-> name[k]]
    BY <1>1, LenProperties
  <2> QED
    BY <1>11, <2>1
<1> QED
    BY <1>10, <1>12 DEF new

-----------------------------------------------------------------------------
\* What has been elaborated is loaded with its own file.
LoadInv ==
    phase \in {"elaborate", "run"} =>
        /\ \A i \in Instances \ todo : loaded[i] = init_unicorn(generic[i])
        /\ phase = "run" => todo = {}

LEMMA StepLoad == IInv /\ LoadInv /\ [Next]_vars => LoadInv'
<1> SUFFICES ASSUME IInv, LoadInv, [Next]_vars PROVE LoadInv'
    OBVIOUS
<1>1. ASSUME NEW i \in Instances, CifInit(i) PROVE LoadInv'
  <2>1. /\ phase = "elaborate" /\ todo' = todo \ {i} /\ generic' = generic
        /\ phase' = IF todo' = {} THEN "run" ELSE "elaborate"
        /\ filename' = get_generic_filename(filename, generic[i])
        /\ loaded' = [loaded EXCEPT ![i] = init_unicorn(CString(filename'))]
    BY <1>1 DEF CifInit
  <2>2. DOMAIN loaded = Instances /\ DOMAIN filename = 0..(MAX_WORD - 1) /\ generic[i] \in Names
    BY DEF IInv, TypeOK
  <2>3. CString(filename') = generic[i]
    BY <2>1, <2>2, NameReadBack
  <2>4. ASSUME NEW j \in Instances \ todo' PROVE loaded'[j] = init_unicorn(generic'[j])
    <3>1. CASE j = i
      BY <2>1, <2>2, <2>3, <3>1
    <3>2. CASE j # i
      BY <2>1, <2>2, <3>2 DEF LoadInv
    <3> QED
      BY <3>1, <3>2
  <2> QED
    BY <2>1, <2>4 DEF LoadInv
<1>2. CASE \E i \in Instances : CifInitBadGeneric(i) \/ CifInitOpenFails(i)
    BY <1>2 DEF CifInitBadGeneric, CifInitOpenFails, LoadInv
<1>3. CASE \/ \E i \in Instances : Enter(i)
           \/ Leave \/ UNCHANGED vars
    BY <1>3 DEF Enter, Leave, vars, image, LoadInv
<1>4. CASE EmuError \/ UserQuit \/ UserRestart
    BY <1>4 DEF EmuError, QuitOnError, UserQuit, UserRestart, Close, LoadInv
<1>5. CASE Closing
    BY <1>5 DEF Closing, LoadInv
<1>6. CASE Closed
  <2>1. CASE after = "elaborate"
    BY <1>6, <2>1 DEF Closed, LoadInv
  <2>2. CASE after # "elaborate"
    BY <1>6, <2>2 DEF Closed, LoadInv, IInv, TypeOK
  <2> QED
    BY <2>1, <2>2
<1> QED
    BY <1>1, <1>2, <1>3, <1>4, <1>5, <1>6 DEF Next, Elaborate, Simulate, Done

\* When the simulation runs, the memory of each engine holds the file its own
\* generic names and nothing else, although all went through one name buffer.
THEOREM OwnImage == Spec => []LoadsOwnImage
<1>1. Init => LoadInv
    BY DEF Init, LoadInv
<1>2. IInv /\ LoadInv => LoadsOwnImage
  <2> SUFFICES ASSUME IInv, LoadInv, phase = "run", NEW i \in Instances
               PROVE  LET found == generic[i] \in DOMAIN Files
                          bytes == IF found THEN Files[generic[i]] ELSE <<>>
                          At(a) == a - START_ADDRESS + 1
                      IN  /\ loaded[i].hooks = found
                          /\ loaded[i].total = Len(bytes)
                          /\ \A a \in Mapped : loaded[i].mem[a] =
                                IF a >= START_ADDRESS /\ At(a) <= Len(bytes)
                                THEN bytes[At(a)] ELSE 0
    BY DEF LoadsOwnImage
  <2>1. loaded[i] = init_unicorn(generic[i])
    BY DEF LoadInv
  <2>2. CASE generic[i] \in DOMAIN Files
    <3> DEFINE img == Files[generic[i]]
    <3>1. img \in Seq(Nat)
      BY <2>2, FilesAssumption
    <3>2. /\ loaded[i].hooks = TRUE /\ loaded[i].total = Copy(img).total
          /\ loaded[i].mem = Copy(img).mem
      BY <2>1, <2>2 DEF init_unicorn
    <3> HIDE DEF img
    <3>3. loaded[i].mem = Image(img, Len(img)) /\ loaded[i].total = Len(img)
      BY <3>1, <3>2, Copied
    <3>4. \A a \in Mapped : loaded[i].mem[a] =
             IF a >= START_ADDRESS /\ a - START_ADDRESS + 1 <= Len(img)
             THEN img[a - START_ADDRESS + 1] ELSE 0
      BY <3>3 DEF Image
    <3>5. img = Files[generic[i]]
      BY DEF img
    <3> QED
      BY <2>2, <3>2, <3>3, <3>4, <3>5
  <2>3. CASE generic[i] \notin DOMAIN Files
    <3>1. loaded[i].hooks = FALSE /\ loaded[i].total = 0 /\ loaded[i].mem = ZeroMemory
      BY <2>1, <2>3 DEF init_unicorn
    <3>2. \A a \in Mapped : ~(a >= START_ADDRESS /\ a - START_ADDRESS + 1 <= 0)
      BY MapAssumption DEF Mapped
    <3>3. Len(<<>>) = 0
      OBVIOUS
    <3>4. \A a \in Mapped : loaded[i].mem[a] = 0
      BY <3>1 DEF ZeroMemory
    <3>5. \A a \in Mapped : loaded[i].mem[a] =
             IF a >= START_ADDRESS /\ a - START_ADDRESS + 1 <= Len(<<>>)
             THEN <<>>[a - START_ADDRESS + 1] ELSE 0
      BY <3>2, <3>3, <3>4
    <3>6. (generic[i] \in DOMAIN Files) = FALSE
      BY <2>3
    <3>7. loaded[i].hooks = (generic[i] \in DOMAIN Files)
      BY <3>1, <3>6, Zenon
    <3>8. loaded[i].total = Len(<<>>)
      BY <3>1, <3>3
    <3> QED
      BY <2>3, <3>5, <3>7, <3>8
  <2> QED
    BY <2>2, <2>3
<1> QED
    BY <1>1, <1>2, Inductive, StepLoad, PTL DEF Spec

=============================================================================
