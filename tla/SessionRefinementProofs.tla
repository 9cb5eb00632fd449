----------------------- MODULE SessionRefinementProofs ----------------------
(***************************************************************************)
(* The sessions table implements SessionFamily for every set of users,     *)
(* session ids and requests.  The inductive invariant of                   *)
(* SessionStoreProofs makes the holder of a family well defined; the only  *)
(* steps that are not stutters of the abstract chain are the three kinds   *)
(* that write to the table.                                                *)
(***************************************************************************)
EXTENDS SessionStoreRefinement, SessionStoreProofs

\* With one live session per family, the holder is that session.
LEMMA HolderIs ==
  ASSUME OneLiveSessionPerFamily, NEW f \in SessionId
  PROVE  \/ Holder(f) \in Unrevoked /\ session[Holder(f)].family = f
         \/ Holder(f) = None /\ \A s \in Unrevoked : session[s].family # f
BY DEF OneLiveSessionPerFamily, Holder

LEMMA HolderOf ==
  ASSUME OneLiveSessionPerFamily, NEW s \in Unrevoked
  PROVE  Holder(session[s].family) = s
BY DEF OneLiveSessionPerFamily, Holder

\* The same facts of the state after a step.
LEMMA HolderIsNext ==
  ASSUME OneLiveSessionPerFamily', NEW f \in SessionId
  PROVE  \/ Holder(f)' \in Unrevoked' /\ session'[Holder(f)'].family = f
         \/ Holder(f)' = None /\ \A s \in Unrevoked' : session'[s].family # f
BY DEF OneLiveSessionPerFamily, Holder

\* A family keeps its holder when the live sessions it has are the same.
LEMMA SameHolder ==
  ASSUME NEW f \in SessionId,
         OneLiveSessionPerFamily, OneLiveSessionPerFamily',
         \A s : s \in Unrevoked /\ session[s].family = f
               <=> s \in Unrevoked' /\ session'[s].family = f
  PROVE  Holder(f)' = Holder(f)
BY HolderIs, HolderIsNext DEF OneLiveSessionPerFamily
-----------------------------------------------------------------------------
\* Starting a session opens a family with a token never seen before.
LEMMA StartOpens ==
  ASSUME IInv, IInv', NEW u \in User, NEW s \in LoginId, StartSession(u, s)
  PROVE  Chain!Open(s, s)
<1>1. OneLiveSessionPerFamily /\ OneLiveSessionPerFamily' /\ None \notin SessionId /\ s \in SessionId
  BY NoneAssumption DEF IInv, SessionId
<1>2. Unrevoked \subseteq Stored /\ Stored \subseteq SessionId
  BY DEF Unrevoked, Stored
<1>3. Holder(s) = None
  BY <1>1, <1>2, HolderIs, StartEffect
<1>4. \A f \in SessionId : Holder(f) # s
  BY <1>1, <1>2, HolderIs, StartEffect
<1>5. Holder(s)' = s
  BY <1>1, HolderIsNext, StartEffect DEF IInv, OneLiveSessionPerFamily
<1>6. \A f \in SessionId : f # s => Holder(f)' = Holder(f)
  <2> SUFFICES ASSUME NEW f \in SessionId, f # s PROVE Holder(f)' = Holder(f)
    OBVIOUS
  <2>1. \A t : t \in Unrevoked /\ session[t].family = f
               <=> t \in Unrevoked' /\ session'[t].family = f
    BY <1>2, StartEffect
  <2> QED
    BY <1>1, <2>1, SameHolder
<1>7. (Stored \ Unrevoked)' = Stored \ Unrevoked
  BY <1>2, StartEffect
<1>8. s \notin Stored \ Unrevoked
  BY StartEffect
<1>9. s \notin Families /\ Families' = Families \cup {s}
  BY <1>2, StartEffect DEF Families, IInv, FamilyOpened
<1> QED
  BY <1>1, <1>3, <1>4, <1>5, <1>6, <1>7, <1>8, <1>9
     DEF Chain!Open, Chain!Unused, Chain!Holders

\* Committing a rotation exchanges the holder of the family for the new token.
LEMMA RotationExchanges ==
  ASSUME IInv, IInv', NEW r \in Request, NEW n \in ReplacementId, CommitRotation(r, n)
  PROVE  Chain!Exchange(session[request[r].sid].family, n)
<1>1. OneLiveSessionPerFamily /\ OneLiveSessionPerFamily' /\ None \notin SessionId
  BY NoneAssumption DEF IInv
<1>2. Unrevoked \subseteq Stored /\ Stored \subseteq SessionId
  BY DEF Unrevoked, Stored
<1>3. PICK s \in Unrevoked, g \in SessionId : s = request[r].sid /\ g = session[s].family
  BY <1>2, RotationEffect DEF IInv, FamilyOpened
<1>4. /\ n \in SessionId \ Stored /\ s # n
      /\ Stored' = Stored \cup {n}
      /\ Unrevoked' = (Unrevoked \ {s}) \cup {n}
      /\ session'[n].family = g /\ session'[s].family = g
      /\ \A t \in Stored \ {s} : session'[t] = session[t]
  BY <1>3, RotationEffect
<1>5. Holder(g) = s
  BY <1>1, <1>3, HolderOf
<1>6. \A f \in SessionId : Holder(f) # n
  BY <1>1, <1>2, <1>4, HolderIs
<1>7. Holder(g)' = n
  <2>1. n \in Unrevoked' /\ session'[n].family = g
    BY <1>4
  <2>2. Holder(g)' \in Unrevoked' /\ session'[Holder(g)'].family = g
    BY <1>1, <1>4, <2>1, HolderIsNext
  <2>3. \A t, v \in Unrevoked' : session'[t].family = session'[v].family => t = v
    BY <1>1 DEF OneLiveSessionPerFamily
  <2> QED
    BY <2>1, <2>2, <2>3
<1>8. \A f \in SessionId : f # g => Holder(f)' = Holder(f)
  <2> SUFFICES ASSUME NEW f \in SessionId, f # g PROVE Holder(f)' = Holder(f)
    OBVIOUS
  <2>1. \A t : t \in Unrevoked /\ session[t].family = f
               <=> t \in Unrevoked' /\ session'[t].family = f
    BY <1>2, <1>3, <1>4
  <2> QED
    BY <1>1, <2>1, SameHolder
<1>9. (Stored \ Unrevoked)' = (Stored \ Unrevoked) \cup {s}
  BY <1>2, <1>3, <1>4
<1>10. Chain!Exchange(g, n)
  <2>1. [f \in SessionId |-> Holder(f)][g] = s /\ s # None
    BY <1>1, <1>2, <1>3, <1>4, <1>5
  <2>2. Chain!Unused(n)
    BY <1>2, <1>4, <1>6 DEF Chain!Unused, Chain!Holders
  <2>3. [f \in SessionId |-> Holder(f)]' = [[f \in SessionId |-> Holder(f)] EXCEPT ![g] = n]
    BY <1>7, <1>8
  <2>4. Families' = Families
    BY <1>2, <1>3, <1>4 DEF Families
  <2> QED
    BY <1>9, <2>1, <2>2, <2>3, <2>4 DEF Chain!Exchange
<1> QED
  BY <1>3, <1>10

\* Committing a sweep closes the families whose holders it revoked, if any.
LEMMA SweepCloses ==
  ASSUME IInv, IInv', NEW r \in Request, EndSweep(r)
  PROVE  (\E F \in SUBSET SessionId : Chain!Close(F)) \/ UNCHANGED Chain!vars
<1> DEFINE done == request[r].done
           F == {f \in SessionId : Holder(f) \in done}
<1>1. OneLiveSessionPerFamily /\ OneLiveSessionPerFamily' /\ None \notin SessionId
  BY NoneAssumption DEF IInv
<1>2. Unrevoked \subseteq Stored /\ Stored \subseteq SessionId
  BY DEF Unrevoked, Stored
<1>3. /\ Stored' = Stored /\ Unrevoked' = Unrevoked \ done /\ done \subseteq Stored
      /\ \A s \in Stored : session'[s].family = session[s].family
  BY SweepEffect DEF RowsGrow
<1> HIDE DEF done
<1>4. \A f \in F : Holder(f) # None /\ Holder(f)' = None
  <2> SUFFICES ASSUME NEW f \in F PROVE Holder(f) # None /\ Holder(f)' = None
    OBVIOUS
  <2>1. Holder(f) \in Unrevoked \cap done /\ session[Holder(f)].family = f
    BY <1>1, <1>2, <1>3, HolderIs
  <2>2. \A t \in Unrevoked' : session'[t].family # f
    BY <1>1, <1>2, <1>3, <2>1 DEF OneLiveSessionPerFamily
  <2> QED
    BY <1>1, <1>2, <2>1, <2>2, HolderIsNext
<1>5. \A f \in SessionId \ F : Holder(f)' = Holder(f)
  <2> SUFFICES ASSUME NEW f \in SessionId \ F PROVE Holder(f)' = Holder(f)
    OBVIOUS
  <2>1. \A t \in Unrevoked : session[t].family = f => t \notin done
    BY <1>1, HolderOf
  <2>2. \A t : t \in Unrevoked /\ session[t].family = f
               <=> t \in Unrevoked' /\ session'[t].family = f
    BY <1>2, <1>3, <2>1
  <2> QED
    BY <1>1, <2>2, SameHolder
<1>6. (Stored \ Unrevoked)' = (Stored \ Unrevoked) \cup {Holder(f) : f \in F}
  <2>1. \A t \in Unrevoked \cap done : \E f \in F : Holder(f) = t
    <3> SUFFICES ASSUME NEW t \in Unrevoked \cap done PROVE \E f \in F : Holder(f) = t
      OBVIOUS
    <3>1. session[t].family \in SessionId /\ Holder(session[t].family) = t
      BY <1>1, <1>2, HolderOf DEF IInv, FamilyOpened
    <3> QED
      BY <3>1
  <2>2. \A f \in F : Holder(f) \in Stored \cap done
    BY <1>3
  <2> QED
    BY <1>2, <1>3, <2>1, <2>2
<1>7. Families' = Families
  BY <1>2, <1>3 DEF Families
<1>8. CASE F = {}
  BY <1>5, <1>6, <1>7, <1>8 DEF Chain!vars
<1>9. CASE F # {}
  <2>1. Chain!Close(F)
    BY <1>4, <1>5, <1>6, <1>7, <1>9 DEF Chain!Close
  <2> QED
    BY <2>1
<1> QED
  BY <1>8, <1>9
-----------------------------------------------------------------------------
\* The table with its locks, overlapping statements and failures implements
\* the one-holder chain: refresh tokens are exchanged one at a time, in order.
THEOREM Refinement == Spec => RefinesSessionFamily
<1>1. Init => Chain!Init
  <2> SUFFICES ASSUME Init PROVE Chain!Init
    OBVIOUS
  <2>1. Stored = {} /\ Unrevoked = {}
    BY DEF Init, Stored, Unrevoked
  <2>2. \A f \in SessionId : Holder(f) = None
    BY <2>1 DEF Holder
  <2> QED
    BY <2>1, <2>2 DEF Chain!Init, Families
<1>2. IInv /\ IInv' /\ [Next]_vars => [Chain!Next]_(Chain!vars)
  <2> SUFFICES ASSUME IInv, IInv', [Next]_vars
               PROVE  Chain!Next \/ UNCHANGED Chain!vars
    OBVIOUS
  <2>1. CASE UNCHANGED session
    BY <2>1 DEF Chain!vars, Holder, Families, Stored, Unrevoked
  <2>2. ASSUME NEW u \in User, NEW s \in LoginId, StartSession(u, s)
        PROVE  Chain!Next
    BY <2>2, StartOpens DEF Chain!Next, SessionId
  <2>3. ASSUME NEW r \in Request, NEW n \in ReplacementId, CommitRotation(r, n)
        PROVE  Chain!Next
    <3>1. session[request[r].sid].family \in SessionId /\ n \in SessionId
      BY <2>3, RotationEffect DEF IInv, FamilyOpened, Unrevoked, Stored
    <3> QED
      BY <2>3, <3>1, RotationExchanges DEF Chain!Next
  <2>4. ASSUME NEW r \in Request, EndSweep(r)
        PROVE  Chain!Next \/ UNCHANGED Chain!vars
    BY <2>4, SweepCloses DEF Chain!Next
  <2> QED
    BY <2>1, <2>2, <2>3, <2>4, Writers
<1> QED
  BY <1>1, <1>2, Invariance, PTL DEF Spec, RefinesSessionFamily, Chain!Spec
=============================================================================
