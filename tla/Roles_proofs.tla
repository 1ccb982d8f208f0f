----------------------------- MODULE Roles_proofs -----------------------------
(***************************************************************************)
(* The array of a role for any size of it, any actions and any documents:  *)
(* what a sequence of calls leaves in it, and what the list of roles says. *)
(***************************************************************************)
EXTENDS Roles, FiniteSetTheorems, TLAPS

\* A role whose number of actions has not wrapped has no action more often
\* than it was given, and as often when none was to be taken that was absent.
GivenInv ==
    role # NoRole =>
        /\ Fits(role.n_actions) =>
              \A a \in Actions : /\ Occurrences(role, a) <= given[a]
                                 /\ ~missed => Occurrences(role, a) = given[a]
        /\ ~missed => Fits(role.n_actions)

ListInv ==
    roles # NoRoles =>
        \A k \in DOMAIN roles :
            /\ k \in DOMAIN docs
            /\ Fits(Len(docs[k].actions))
            /\ roles[k] = role_doc_parse(role_new(docs[k].name), docs[k])

IInv == TypeOK /\ GivenInv /\ ListInv

-----------------------------------------------------------------------------
(***************************************************************************)
(* The operations on the array.                                            *)
(***************************************************************************)

\* The modulus of an unsigned int is the identity below its size.
LEMMA Small ==
    ASSUME NEW n \in Nat, n < UINT
    PROVE  n % UINT = n
BY RolesAssumption

LEMMA CellsAreFinite ==
    ASSUME NEW S \in SUBSET Cells
    PROVE  IsFiniteSet(S) /\ Cardinality(S) \in Nat
<1>1. IsFiniteSet(Cells)
  BY RolesAssumption, FS_Interval DEF Cells
<1> QED BY <1>1, FS_Subset, FS_CardinalityType

LEMMA HoldingIsFinite ==
    ASSUME NEW r, NEW a
    PROVE  /\ Holding(r, a) \in SUBSET Cells
           /\ IsFiniteSet(Holding(r, a))
           /\ Occurrences(r, a) \in Nat
BY CellsAreFinite DEF Holding, Listed, Occurrences

LEMMA HeldOccurs ==
    ASSUME NEW r, NEW a
    PROVE  Holding(r, a) # {} <=> Occurrences(r, a) > 0
BY HoldingIsFinite, FS_EmptySet DEF Occurrences

\* A new role holds nothing.
LEMMA NewIsEmpty ==
    ASSUME NEW name \in Names
    PROVE  /\ role_new(name) \in Roles
           /\ \A a : Holding(role_new(name), a) = {}
<1>1. 0 \in 0 .. UINT - 1
  BY RolesAssumption
<1>2. role_new(name) \in Roles
  BY <1>1 DEF role_new, Roles
<1>3. ASSUME NEW a PROVE Holding(role_new(name), a) = {}
  BY RolesAssumption DEF Holding, Listed, role_new, Cells
<1> QED BY <1>2, <1>3

\* Adding an action adds one cell with what strncpy () leaves of it.
LEMMA AddedHolds ==
    ASSUME NEW r \in Roles, NEW a \in Actions, r.n_actions \in Cells
    PROVE  /\ Added(r, a) \in Roles
           /\ Fits(Added(r, a).n_actions)
           /\ Occurrences(Added(r, a), Cut[a]) = Occurrences(r, Cut[a]) + 1
           /\ \A b \in Actions \ {Cut[a]} :
                 Occurrences(Added(r, a), b) = Occurrences(r, b)
<1> DEFINE n == r.n_actions
           s == Added(r, a)
<1>1. n \in Nat /\ n + 1 <= ROLE_ACTIONS_SIZE /\ n + 1 < UINT
  BY RolesAssumption DEF Cells
<1>2. (n + 1) % UINT = n + 1
  BY <1>1, Small
<1>3. Cut[a] \in Actions
  BY RolesAssumption
<1>4. /\ s \in Roles /\ s.n_actions = n + 1
      /\ s.actions = [r.actions EXCEPT ![n] = Cut[a]]
  <2>1. s = [name |-> r.name, n_actions |-> n + 1,
             actions |-> [r.actions EXCEPT ![n] = Cut[a]]]
    BY <1>2 DEF Added
  <2>2. [r.actions EXCEPT ![n] = Cut[a]] \in [Cells -> Actions \cup {Unset}]
    BY <1>3 DEF Roles
  <2>3. n + 1 \in 0 .. UINT - 1
    BY <1>1, RolesAssumption
  <2> QED BY <2>1, <2>2, <2>3 DEF Roles
<1>8. \A i \in Cells : s.actions[i] = IF i = n THEN Cut[a] ELSE r.actions[i]
  BY <1>4 DEF Roles
<1>9. \A i \in Cells : i \in Listed(s) <=> i \in Listed(r) \/ i = n
  BY <1>1, <1>4 DEF Listed, Cells
<1>10. n \in Cells /\ n \notin Listed(r)
  BY <1>1 DEF Listed
<1>11. \A q, i : i \in Listed(q) => i \in Cells
  BY DEF Listed
<1>5. Holding(s, Cut[a]) = Holding(r, Cut[a]) \cup {n} /\ n \notin Holding(r, Cut[a])
  BY <1>8, <1>9, <1>10, <1>11 DEF Holding
<1>6. ASSUME NEW b \in Actions \ {Cut[a]} PROVE Holding(s, b) = Holding(r, b)
  BY <1>8, <1>9, <1>10, <1>11 DEF Holding
<1>7. Occurrences(s, Cut[a]) = Occurrences(r, Cut[a]) + 1
  BY <1>5, HoldingIsFinite, FS_AddElement DEF Occurrences
<1> QED BY <1>1, <1>4, <1>6, <1>7 DEF Fits, Occurrences

\* When an action is not there to be removed nothing moves, and the last one
\* is not counted any more; from 0 the number wraps.
LEMMA RemovedAbsent ==
    ASSUME NEW r \in Roles, NEW a \in Actions, Fits(r.n_actions),
           Holding(r, a) = {}
    PROVE  LET s == Removed(r, r.n_actions) IN
           /\ s \in Roles
           /\ Fits(s.n_actions) => \A b \in Actions : Holding(s, b) \subseteq Holding(r, b)
<1> DEFINE n == r.n_actions
           s == Removed(r, n)
<1>1. n \in Nat /\ n <= ROLE_ACTIONS_SIZE /\ n < UINT
  BY RolesAssumption DEF Fits, Roles
<1>2. s.actions = r.actions /\ s \in Roles /\ s.n_actions = Less(n)
  <2>1. Less(n) \in 0 .. UINT - 1
    BY <1>1, RolesAssumption DEF Less
  <2>2. Shifted(r, n) = r
    <3>1. [i \in Cells |-> IF n <= i /\ i < n - 1 THEN r.actions[i + 1] ELSE r.actions[i]]
            = r.actions
      <4>1. \A i \in Cells : ~(n <= i /\ i < n - 1)
        BY <1>1 DEF Cells
      <4> QED BY <4>1 DEF Roles
    <3> QED BY <3>1 DEF Shifted, Roles
  <2> QED BY <2>1, <2>2 DEF Removed, Roles
<1>3. CASE n = 0
  <2>1. (0 + UINT - 1) % UINT = UINT - 1
    BY Small, RolesAssumption
  <2> QED BY <1>2, <1>3, <2>1, RolesAssumption DEF Less, Fits
<1>4. CASE n # 0
  <2>1. Less(n) = n - 1
    BY <1>1, <1>4, RolesAssumption DEF Less
  <2>2. \A i \in Listed(s) : i \in Listed(r)
    BY <1>1, <1>2, <1>4, <2>1 DEF Listed, Cells
  <2> QED BY <1>2, <2>2 DEF Holding
<1> QED BY <1>3, <1>4

\* Removing an action that is there takes the first of its cells away and keeps
\* what is in the others: the cells behind it move up by one.
LEMMA RemovedHolds ==
    ASSUME NEW r \in Roles, NEW a \in Actions, Fits(r.n_actions),
           NEW idx \in Holding(r, a)
    PROVE  /\ Removed(r, idx) \in Roles
           /\ Fits(Removed(r, idx).n_actions)
           /\ Occurrences(Removed(r, idx), a) = Occurrences(r, a) - 1
           /\ \A b \in Actions \ {a} :
                 Occurrences(Removed(r, idx), b) = Occurrences(r, b)
<1> DEFINE n == r.n_actions
           s == Removed(r, idx)
           old(i) == IF i < idx THEN i ELSE i + 1
<1>1. /\ n \in Nat /\ n <= ROLE_ACTIONS_SIZE /\ n < UINT
      /\ idx \in Nat /\ idx < n
      /\ ROLE_ACTIONS_SIZE \in Nat /\ UINT \in Nat
  BY RolesAssumption DEF Fits, Roles, Holding, Listed, Cells
<1>2. Less(n) = n - 1
  BY <1>1, RolesAssumption DEF Less
<1>3. /\ s \in Roles /\ s.n_actions = n - 1
      /\ \A i \in Cells : i < n - 1 => s.actions[i] = r.actions[old(i)]
  <2>1. CASE n > 1
    <3> DEFINE cells == [i \in Cells |->
                            IF idx <= i /\ i < n - 1 THEN r.actions[i + 1] ELSE r.actions[i]]
    <3>1. \A i \in Cells : i < n - 1 => i + 1 \in Cells
      BY <1>1 DEF Cells
    <3>2. cells \in [Cells -> Actions \cup {Unset}]
      BY <3>1 DEF Roles
    <3>3. s.actions = cells /\ s.n_actions = n - 1 /\ s \in Roles
      <4>1. Shifted(r, idx).actions = cells /\ Shifted(r, idx).n_actions = n
            /\ Shifted(r, idx) \in Roles
        BY <3>2 DEF Shifted, Roles
      <4>2. s = [Shifted(r, idx) EXCEPT !.n_actions = n - 1]
        BY <1>2, <2>1, <4>1 DEF Removed
      <4>3. n - 1 \in 0 .. UINT - 1
        BY <1>1
      <4> HIDE DEF cells
      <4> QED BY <4>1, <4>2, <4>3 DEF Roles
    <3>4. \A i \in Cells : i < idx <=> ~(idx <= i)
      BY <1>1 DEF Cells
    <3> QED BY <3>3, <3>4
  <2>2. CASE ~(n > 1)
    <3>1. n = 1 /\ idx = 0
      BY <1>1, <2>2
    <3>2. \A i \in Cells : ~(i < n - 1)
      BY <3>1 DEF Cells
    <3>3. s = [r EXCEPT !.n_actions = n - 1] /\ n - 1 \in 0 .. UINT - 1
      BY <1>1, <1>2, <2>2 DEF Removed
    <3> QED BY <3>2, <3>3 DEF Roles
  <2> QED BY <2>1, <2>2
<1> HIDE DEF s
<1>4. ASSUME NEW b \in Actions
      PROVE  Occurrences(s, b) = Cardinality(Holding(r, b) \ {idx})
  <2> DEFINE S == Holding(s, b)
             T == Holding(r, b) \ {idx}
             f == [i \in S |-> old(i)]
  <2>1. \A i : i \in S <=> i \in Cells /\ i < n - 1 /\ r.actions[old(i)] = b
    BY <1>3 DEF Holding, Listed
  <2>2. \A i : i \in T <=> i \in Cells /\ i < n /\ r.actions[i] = b /\ i # idx
    BY DEF Holding, Listed
  <2>3. \A i \in S : i \in Nat /\ old(i) \in T
    BY <1>1, <2>1, <2>2 DEF Cells
  <2>4. \A i, j \in S : old(i) = old(j) => i = j
    BY <1>1, <2>3
  <2>5. ASSUME NEW j \in T PROVE \E i \in S : old(i) = j
    <3>1. j \in Nat /\ j < n /\ j # idx
      BY <2>2 DEF Cells
    <3>2. CASE j < idx
      <4>1. j \in S /\ old(j) = j
        BY <1>1, <2>1, <2>2, <3>1, <3>2 DEF Cells
      <4> QED BY <4>1
    <3>3. CASE ~(j < idx)
      <4>1. j - 1 \in Cells /\ j - 1 < n - 1 /\ old(j - 1) = j
        BY <1>1, <2>2, <3>1, <3>3 DEF Cells
      <4>2. j - 1 \in S
        BY <2>1, <2>2, <4>1
      <4> QED BY <4>1, <4>2
    <3> QED BY <3>2, <3>3
  <2>6. IsFiniteSet(S)
    BY HoldingIsFinite
  <2> HIDE DEF S, T
  <2>7. f \in Bijection(S, T)
    <3>1. \A i \in S : f[i] = old(i)
      OBVIOUS
    <3>2. f \in [S -> T]
      BY <2>3
    <3>5. \A i, j \in S : f[i] = f[j] => i = j
      BY <2>4, <3>1
    <3> HIDE DEF f
    <3>3. f \in Injection(S, T)
      BY <3>2, <3>5 DEF Injection, IsInjective
    <3>4. f \in Surjection(S, T)
      BY <2>5, <3>1, <3>2 DEF Surjection
    <3> QED BY <3>3, <3>4 DEF Bijection
  <2>8. Cardinality(T) = Cardinality(S)
    BY <2>6, <2>7, FS_Bijection DEF ExistsBijection
  <2> QED BY <2>8 DEF Occurrences, S, T
<1>5. Occurrences(s, a) = Occurrences(r, a) - 1
  BY <1>4, HoldingIsFinite, FS_RemoveElement DEF Occurrences
<1>6. ASSUME NEW b \in Actions \ {a} PROVE Occurrences(s, b) = Occurrences(r, b)
  <2>1. Holding(r, b) \ {idx} = Holding(r, b)
    BY DEF Holding
  <2> QED BY <1>4, <2>1 DEF Occurrences
<1>7. Fits(s.n_actions)
  BY <1>1, <1>3 DEF Fits
<1> QED BY <1>3, <1>5, <1>6, <1>7 DEF s

\* Reading a document adds each of its actions as often as it names it.
LEMMA ParsedHolds ==
    ASSUME NEW r \in Roles, NEW doc \in Documents, Fits(r.n_actions + Len(doc.actions))
    PROVE  /\ role_doc_parse(r, doc) \in Roles
           /\ Fits(role_doc_parse(r, doc).n_actions)
           /\ \A b \in Actions :
                 /\ Gives(doc, b) \in Nat
                 /\ Occurrences(role_doc_parse(r, doc), b) = Occurrences(r, b) + Gives(doc, b)
<1> DEFINE n == r.n_actions
           len == Len(doc.actions)
           s == role_doc_parse(r, doc)
<1>1. /\ n \in Nat /\ len \in Nat /\ n + len <= ROLE_ACTIONS_SIZE
      /\ ROLE_ACTIONS_SIZE \in Nat /\ UINT \in Nat /\ n + len < UINT
      /\ doc.name \in Names /\ doc.actions \in Seq(Actions)
  BY RolesAssumption DEF Roles, Documents, Fits
<1>2. \A k \in 1 .. len : Cut[doc.actions[k]] \in Actions
  BY <1>1, RolesAssumption
<1>3. /\ s \in Roles /\ s.n_actions = n + len
      /\ \A i \in Cells : s.actions[i] = IF n <= i /\ i < n + len
                                         THEN Cut[doc.actions[i - n + 1]] ELSE r.actions[i]
  <2> DEFINE cells == [i \in Cells |-> IF n <= i /\ i < n + len
                                       THEN Cut[doc.actions[i - n + 1]] ELSE r.actions[i]]
  <2>1. \A i \in Cells : n <= i /\ i < n + len => i - n + 1 \in 1 .. len
    BY <1>1 DEF Cells
  <2>2. cells \in [Cells -> Actions \cup {Unset}]
    BY <1>2, <2>1 DEF Roles
  <2>3. s = [name |-> doc.name, n_actions |-> n + len, actions |-> cells]
    BY DEF role_doc_parse
  <2>4. n + len \in 0 .. UINT - 1
    BY <1>1
  <2>5. \A i \in Cells : cells[i] = IF n <= i /\ i < n + len
                                    THEN Cut[doc.actions[i - n + 1]] ELSE r.actions[i]
    OBVIOUS
  <2> HIDE DEF cells, s
  <2> QED BY <1>1, <2>2, <2>3, <2>4, <2>5 DEF Roles
<1> HIDE DEF s
<1>4. ASSUME NEW b \in Actions
      PROVE  /\ Gives(doc, b) \in Nat
             /\ Occurrences(s, b) = Occurrences(r, b) + Gives(doc, b)
  <2> DEFINE K == {k \in 1 .. len : Cut[doc.actions[k]] = b}
             N == {i \in Cells : n <= i /\ i < n + len /\ Cut[doc.actions[i - n + 1]] = b}
             f == [k \in K |-> n + k - 1]
  <2>1. IsFiniteSet(K) /\ IsFiniteSet(N) /\ Cardinality(K) \in Nat
    <3>1. IsFiniteSet(1 .. len) /\ K \in SUBSET (1 .. len)
      BY <1>1, FS_Interval
    <3> QED BY <3>1, CellsAreFinite, FS_Subset, FS_CardinalityType
  <2>2. \A k \in K : /\ k \in Int /\ n + k - 1 \in Cells
                     /\ n <= n + k - 1 /\ n + k - 1 < n + len
                     /\ (n + k - 1) - n + 1 = k
    BY <1>1 DEF Cells
  <2>3. \A k \in K : n + k - 1 \in N
    BY <2>2
  <2>4. \A i \in N : i - n + 1 \in K /\ n + (i - n + 1) - 1 = i
    BY <1>1 DEF Cells
  <2>5. Cardinality(N) = Cardinality(K)
    <3>1. \A k \in K : f[k] = n + k - 1
      OBVIOUS
    <3>2. f \in [K -> N]
      BY <2>3
    <3>3. \A k, m \in K : f[k] = f[m] => k = m
      BY <1>1, <2>2, <3>1
    <3>4. \A i \in N : \E k \in K : f[k] = i
      BY <2>4, <3>1
    <3> HIDE DEF f, K, N
    <3>5. f \in Bijection(K, N)
      BY <3>2, <3>3, <3>4 DEF Bijection, Injection, Surjection, IsInjective
    <3> QED BY <2>1, <3>5, FS_Bijection DEF ExistsBijection
  <2>6. \A i \in Cells : i \in Listed(s) <=> i \in Listed(r) \/ (n <= i /\ i < n + len)
    BY <1>1, <1>3 DEF Listed, Cells
  <2>7. \A i \in Listed(r) : i \in Cells /\ ~(n <= i)
    BY <1>1 DEF Listed, Cells
  <2>8. Holding(s, b) = Holding(r, b) \cup N
    <3>1. ASSUME NEW i PROVE i \in Holding(s, b) <=> i \in Holding(r, b) \cup N
      <4>1. i \in Listed(s) => i \in Cells
        BY DEF Listed
      <4> QED BY <1>3, <2>6, <2>7, <4>1 DEF Holding
    <3> QED BY <3>1
  <2>9. Holding(r, b) \cap N = {}
    BY <2>7 DEF Holding
  <2> HIDE DEF N, K
  <2>10. Cardinality(Holding(s, b)) = Cardinality(Holding(r, b)) + Cardinality(N)
    <3>1. IsFiniteSet(Holding(r, b)) /\ Cardinality(Holding(r, b)) \in Nat
      BY HoldingIsFinite DEF Occurrences
    <3>2. Cardinality(Holding(r, b) \cup N) =
            Cardinality(Holding(r, b)) + Cardinality(N) - Cardinality(Holding(r, b) \cap N)
      BY <2>1, <3>1, FS_Union
    <3>3. Cardinality(Holding(r, b) \cap N) = 0
      BY <2>9, FS_EmptySet
    <3> QED BY <2>1, <2>5, <2>8, <3>1, <3>2, <3>3
  <2> QED BY <2>1, <2>5, <2>10 DEF Occurrences, Gives, K
<1>5. Fits(s.n_actions)
  BY <1>1, <1>3 DEF Fits
<1> QED BY <1>3, <1>4, <1>5 DEF s

\* A document without actions leaves a role of any number of actions as it is.
LEMMA ParsedNothing ==
    ASSUME NEW r \in Roles, NEW doc \in Documents, doc.actions = << >>
    PROVE  /\ role_doc_parse(r, doc) \in Roles
           /\ role_doc_parse(r, doc).n_actions = r.n_actions
           /\ \A b : Holding(role_doc_parse(r, doc), b) = Holding(r, b)
           /\ \A b : Gives(doc, b) = 0
<1>1. r.n_actions \in Nat /\ r.n_actions + Len(doc.actions) = r.n_actions
      /\ doc.name \in Names
  BY RolesAssumption DEF Roles, Documents
<1>2. \A i \in Cells : ~(r.n_actions <= i /\ i < r.n_actions + Len(doc.actions))
  BY <1>1, RolesAssumption DEF Cells
<1>3. role_doc_parse(r, doc) = [name |-> doc.name, n_actions |-> r.n_actions,
                                actions |-> r.actions]
  BY <1>1, <1>2 DEF role_doc_parse, Roles
<1>4. \A b : Gives(doc, b) = 0
  <2>1. ASSUME NEW b PROVE Gives(doc, b) = 0
    <3>1. {k \in 1 .. Len(doc.actions) : Cut[doc.actions[k]] = b} = {}
      OBVIOUS
    <3> QED BY <3>1, FS_EmptySet DEF Gives
  <2> QED BY <2>1
<1> QED BY <1>1, <1>3, <1>4 DEF Roles, Holding, Listed

-----------------------------------------------------------------------------
(***************************************************************************)
(* The steps.                                                              *)
(***************************************************************************)

\* At the start there is no role and no list.
THEOREM InitInv == Init => IInv
<1> SUFFICES ASSUME Init PROVE IInv
  OBVIOUS
<1>1. Nothing \in [Actions -> 0 .. MaxGiven]
  BY RolesAssumption DEF Nothing
<1>2. TypeOK
  BY <1>1 DEF Init, TypeOK
<1>3. GivenInv /\ ListInv
  BY DEF Init, GivenInv, ListInv
<1> QED BY <1>2, <1>3 DEF IInv

LEMMA DocsAreDocuments ==
    ASSUME docs \in Collections, NEW k \in DOMAIN docs
    PROVE  docs[k] \in Documents /\ Len(docs[k].actions) \in Nat
<1>1. docs \in Seq(Documents)
  BY RolesAssumption
<1>2. docs[k] \in Documents
  BY <1>1
<1> QED BY <1>2 DEF Documents

LEMMA BreakInv == IInv /\ Break => IInv'
<1> SUFFICES ASSUME IInv, Break PROVE IInv'
  OBVIOUS
<1>1. TypeOK'
  BY DEF IInv, Break, TypeOK
<1>2. GivenInv'
  BY DEF IInv, Break, GivenInv, Occurrences
<1>3. ListInv'
  BY DEF IInv, Break, ListInv
<1> QED BY <1>1, <1>2, <1>3 DEF IInv

LEMMA ListRead == IInv /\ pocket_roles_init => IInv'
<1> SUFFICES ASSUME IInv, pocket_roles_init PROVE IInv'
  OBVIOUS
<1>1. CASE Break
  BY <1>1, BreakInv
<1>2. CASE ~Break
  <2>1. PICK kept \in SUBSET DOMAIN docs :
          /\ \A k \in kept : Fits(Len(docs[k].actions))
          /\ roles' = [k \in kept |-> role_doc_parse(role_new(docs[k].name), docs[k])]
          /\ UNCHANGED <<docs, role, given, missed, broken>>
    BY <1>2 DEF pocket_roles_init
  <2>2. TypeOK'
    BY <2>1 DEF IInv, TypeOK
  <2>3. GivenInv'
    BY <2>1 DEF IInv, GivenInv, Fits, Occurrences, Holding, Listed
  <2>4. ListInv'
    BY <2>1 DEF IInv, ListInv
  <2> QED BY <2>2, <2>3, <2>4 DEF IInv
<1> QED BY <1>1, <1>2

\* a step that leaves the collection and the list alone
LEMMA ListStays == IInv /\ UNCHANGED <<docs, roles>> => ListInv'
BY DEF IInv, ListInv

LEMMA RoleCreated == IInv /\ role_create => IInv'
<1> SUFFICES ASSUME IInv, role_create PROVE IInv'
  OBVIOUS
<1>1. PICK name \in Names : role' = role_new(name)
  BY DEF role_create
<1>2. role' \in Roles /\ \A a : Holding(role', a) = {}
  BY <1>1, NewIsEmpty
<1>3. role'.n_actions = 0
  BY <1>1 DEF role_new
<1>7. /\ given' = Nothing /\ missed' = FALSE
      /\ docs' = docs /\ roles' = roles /\ broken' = broken
  BY DEF role_create
<1>8. Nothing \in [Actions -> 0 .. MaxGiven] /\ \A a \in Actions : Nothing[a] = 0
  BY RolesAssumption DEF Nothing
<1>4. TypeOK'
  BY <1>2, <1>7, <1>8 DEF IInv, TypeOK
<1>5. GivenInv'
  <2>1. Fits(role'.n_actions)
    BY <1>3, RolesAssumption DEF Fits
  <2>2. \A a : Occurrences(role', a) = 0
    BY <1>2, FS_EmptySet DEF Occurrences
  <2> QED BY <1>7, <1>8, <2>1, <2>2 DEF GivenInv
<1>6. ListInv'
  BY ListStays DEF role_create
<1> QED BY <1>4, <1>5, <1>6 DEF IInv

LEMMA RoleDeleted == IInv /\ role_delete => IInv'
<1> SUFFICES ASSUME IInv, role_delete PROVE IInv'
  OBVIOUS
<1>1. TypeOK' /\ GivenInv'
  BY DEF role_delete, IInv, TypeOK, GivenInv
<1>2. ListInv'
  BY ListStays DEF role_delete
<1> QED BY <1>1, <1>2 DEF IInv

LEMMA ActionAdded ==
    ASSUME IInv, NEW a \in Actions, role_add_action(a)
    PROVE  IInv'
<1>1. CASE Break
  BY <1>1, BreakInv
<1>2. CASE ~Break
  <2>1. /\ role \in Roles /\ role.n_actions \in Cells
        /\ given[Cut[a]] < MaxGiven
        /\ role' = Added(role, a)
        /\ given' = [given EXCEPT ![Cut[a]] = @ + 1]
        /\ UNCHANGED <<docs, roles, missed, broken>>
    BY <1>2 DEF role_add_action, IInv, TypeOK
  <2>2. /\ role' \in Roles /\ Fits(role'.n_actions)
        /\ Occurrences(role', Cut[a]) = Occurrences(role, Cut[a]) + 1
        /\ \A b \in Actions \ {Cut[a]} : Occurrences(role', b) = Occurrences(role, b)
    BY <2>1, AddedHolds
  <2>3. Cut[a] \in Actions /\ given \in [Actions -> 0 .. MaxGiven] /\ MaxGiven \in Nat
    BY RolesAssumption DEF IInv, TypeOK
  <2>4. TypeOK'
    BY <2>1, <2>2, <2>3 DEF IInv, TypeOK
  <2>5. Fits(role.n_actions)
    BY <2>1, RolesAssumption DEF Fits, Cells
  <2>6. \A b \in Actions : Occurrences(role, b) \in Nat /\ Occurrences(role', b) \in Nat
    BY HoldingIsFinite
  <2>7. role # NoRole
    BY DEF role_add_action
  <2>8. GivenInv'
    BY <2>1, <2>2, <2>3, <2>5, <2>6, <2>7 DEF IInv, GivenInv, Occurrences
  <2>9. ListInv'
    BY <2>1, ListStays
  <2> QED BY <2>4, <2>8, <2>9 DEF IInv
<1> QED BY <1>1, <1>2

LEMMA ActionRemoved ==
    ASSUME IInv, NEW a \in Actions, role_remove_action(a)
    PROVE  IInv'
<1>1. CASE Break
  BY <1>1, BreakInv
<1>2. CASE ~Break
  <2>1. /\ role # NoRole /\ role \in Roles /\ Fits(role.n_actions)
        /\ UNCHANGED <<docs, roles, broken>>
    BY <1>2 DEF role_remove_action, IInv, TypeOK
  <2>2. PICK idx \in 0 .. ROLE_ACTIONS_SIZE : Found(role, a, idx) /\ role' = Removed(role, idx)
    BY <1>2 DEF role_remove_action
  <2>3. /\ \A b \in Actions : /\ Occurrences(role, b) <= given[b]
                              /\ ~missed => Occurrences(role, b) = given[b]
        /\ given \in [Actions -> 0 .. MaxGiven] /\ MaxGiven \in Nat
        /\ \A b : Occurrences(role, b) \in Nat
    BY <2>1, HoldingIsFinite, RolesAssumption DEF IInv, GivenInv, TypeOK
  <2>4. CASE Holding(role, a) = {}
    <3>1. missed' = TRUE /\ given' = given
      BY <1>2, <2>4 DEF role_remove_action
    <3>2. role' = Removed(role, role.n_actions)
      BY <2>2, <2>4 DEF Found
    <3>3. /\ role' \in Roles
          /\ Fits(role'.n_actions) =>
                \A b \in Actions : Holding(role', b) \subseteq Holding(role, b)
      BY <2>1, <2>4, <3>2, RemovedAbsent
    <3>4. ASSUME Fits(role'.n_actions), NEW b \in Actions
          PROVE  Occurrences(role', b) <= given'[b]
      <4>1. Occurrences(role', b) <= Occurrences(role, b) /\ Occurrences(role', b) \in Nat
        BY <3>3, <3>4, HoldingIsFinite, FS_Subset DEF Occurrences
      <4>2. given[b] \in Nat
        BY <2>3
      <4> QED BY <2>3, <3>1, <4>1, <4>2
    <3>5. TypeOK'
      BY <2>1, <3>1, <3>3 DEF IInv, TypeOK
    <3>6. GivenInv'
      BY <3>1, <3>4 DEF GivenInv
    <3> QED BY <2>1, <3>5, <3>6, ListStays DEF IInv
  <2>5. CASE Holding(role, a) # {}
    <3>1. given' = [given EXCEPT ![a] = @ - 1] /\ missed' = missed
      BY <1>2, <2>5 DEF role_remove_action
    <3>2. idx \in Holding(role, a)
      BY <2>2, <2>5 DEF Found
    <3>3. /\ role' \in Roles /\ Fits(role'.n_actions)
          /\ Occurrences(role', a) = Occurrences(role, a) - 1
          /\ \A b \in Actions \ {a} : Occurrences(role', b) = Occurrences(role, b)
      BY <2>1, <2>2, <3>2, RemovedHolds
    <3>4. given[a] > 0
      BY <2>3, <2>5, HeldOccurs
    <3>5. TypeOK'
      BY <2>1, <2>3, <3>1, <3>3, <3>4 DEF IInv, TypeOK
    <3>6. GivenInv'
      BY <2>3, <3>1, <3>3 DEF GivenInv, Occurrences
    <3> QED BY <2>1, <3>5, <3>6, ListStays DEF IInv
  <2> QED BY <2>4, <2>5
<1> QED BY <1>1, <1>2

LEMMA RoleRead ==
    ASSUME IInv, NEW name \in Names, role_get_by_name(name)
    PROVE  IInv'
<1>1. CASE Break
  BY <1>1, BreakInv
<1>2. CASE ~Break
  <2>1. PICK k \in DOMAIN docs :
          /\ \A a \in Actions : given[a] + Gives(docs[k], a) <= MaxGiven
          /\ docs[k].actions = << >> \/ Fits(role.n_actions + Len(docs[k].actions))
          /\ role' = role_doc_parse(role, docs[k])
          /\ given' = [a \in Actions |-> given[a] + Gives(docs[k], a)]
          /\ UNCHANGED <<docs, roles, missed, broken>>
    BY <1>2 DEF role_get_by_name
  <2>2. role # NoRole /\ role \in Roles
    BY DEF role_get_by_name, IInv, TypeOK
  <2>3. docs[k] \in Documents
    BY DocsAreDocuments DEF IInv, TypeOK
  <2>4. given \in [Actions -> 0 .. MaxGiven] /\ MaxGiven \in Nat
    BY RolesAssumption DEF IInv, TypeOK
  <2>5. /\ role' \in Roles
        /\ Fits(role.n_actions) \/ ~Fits(role'.n_actions)
        /\ Fits(role.n_actions) => Fits(role'.n_actions)
        /\ \A b \in Actions :
              /\ Gives(docs[k], b) \in Nat
              /\ Fits(role.n_actions) =>
                    Occurrences(role', b) = Occurrences(role, b) + Gives(docs[k], b)
    <3>1. CASE docs[k].actions = << >>
      BY <2>1, <2>2, <2>3, <3>1, ParsedNothing, HoldingIsFinite DEF Occurrences
    <3>2. CASE Fits(role.n_actions + Len(docs[k].actions))
      <4>1. Fits(role.n_actions)
        BY <2>2, <2>3, <3>2, RolesAssumption DEF Fits, Roles, Documents
      <4> QED BY <2>1, <2>2, <2>3, <3>2, <4>1, ParsedHolds
    <3> QED BY <2>1, <3>1, <3>2
  <2>6. TypeOK'
    BY <2>1, <2>4, <2>5 DEF IInv, TypeOK
  <2>7. GivenInv'
    <3>1. ASSUME Fits(role'.n_actions), NEW b \in Actions
          PROVE  /\ Occurrences(role', b) <= given'[b]
                 /\ ~missed' => Occurrences(role', b) = given'[b]
      <4>1. /\ Occurrences(role, b) <= given[b] /\ given[b] \in Nat
            /\ ~missed => Occurrences(role, b) = given[b]
            /\ Occurrences(role, b) \in Nat
        BY <2>2, <2>4, <2>5, <3>1, HoldingIsFinite DEF IInv, GivenInv
      <4>2. given'[b] = given[b] + Gives(docs[k], b) /\ missed' = missed
        BY <2>1
      <4> QED BY <2>5, <3>1, <4>1, <4>2
    <3>2. ~missed' => Fits(role'.n_actions)
      BY <2>1, <2>2, <2>5 DEF IInv, GivenInv
    <3> QED BY <3>1, <3>2 DEF GivenInv
  <2> QED BY <2>1, <2>6, <2>7, ListStays DEF IInv
<1> QED BY <1>1, <1>2

\* Every call on a role or on the list keeps the inductive invariant.
THEOREM NextInv == IInv /\ [Next]_vars => IInv'
<1> SUFFICES ASSUME IInv, [Next]_vars PROVE IInv'
  OBVIOUS
<1>1. CASE Restart
  <2>1. Nothing \in [Actions -> 0 .. MaxGiven]
    BY RolesAssumption DEF Nothing
  <2>2. TypeOK'
    BY <1>1, <2>1 DEF Restart, IInv, TypeOK
  <2>3. GivenInv' /\ ListInv'
    BY <1>1 DEF Restart, GivenInv, ListInv
  <2> QED BY <2>2, <2>3 DEF IInv
<1>2. CASE UNCHANGED vars
  <2>1. TypeOK' /\ ListInv'
    BY <1>2 DEF vars, IInv, TypeOK, ListInv
  <2>2. GivenInv'
    BY <1>2 DEF vars, IInv, GivenInv, Occurrences
  <2> QED BY <2>1, <2>2 DEF IInv
<1> QED BY <1>1, <1>2, ListRead, RoleCreated, RoleDeleted, ActionAdded, ActionRemoved,
           RoleRead DEF Next

\* The inductive invariant of roles: what is in the array and in the list.
THEOREM Invariant == Spec => []IInv
BY InitInv, NextInv, PTL DEF Spec

-----------------------------------------------------------------------------
(***************************************************************************)
(* What a reader of the code should know of roles.                         *)
(***************************************************************************)

\* For any size of the array and any sequence of calls the state of a role and
\* of the list keeps its types: the number of actions stays within an unsigned
\* int, which role_remove_action () may wrap around.
THEOREM TypeCorrect == Spec => []TypeOK
<1>1. IInv => TypeOK
  BY DEF IInv
<1> QED BY <1>1, Invariant, PTL

\* As long as callers of role_remove_action () remove only what is there, the
\* array holds each action as often as it was given, wherever the removed ones
\* stood and however many documents were read into the role.
THEOREM HoldsWhatWasGivenHolds == Spec => []HoldsWhatWasGiven
<1>1. IInv => HoldsWhatWasGiven
  BY DEF IInv, GivenInv, HoldsWhatWasGiven
<1> QED BY <1>1, Invariant, PTL

\* Also when actions are removed that are not there, role_check_action () says
\* yes only to what the role was given, until the number of actions wraps.
THEOREM GrantsNothingElseHolds == Spec => []GrantsNothingElse
<1>1. IInv => GrantsNothingElse
  <2> SUFFICES ASSUME IInv, role # NoRole, Fits(role.n_actions), NEW a \in Actions,
                      TRUE \in role_check_action(role, a)
               PROVE  given[a] > 0
    BY DEF GrantsNothingElse
  <2>1. Occurrences(role, a) > 0
    BY HeldOccurs DEF role_check_action
  <2>2. Occurrences(role, a) <= given[a] /\ given[a] \in Nat /\ Occurrences(role, a) \in Nat
    BY HoldingIsFinite, RolesAssumption DEF IInv, GivenInv, TypeOK
  <2> QED BY <2>1, <2>2
<1> QED BY <1>1, Invariant, PTL

\* What pocket_role_search_and_check_action () finds is in a document of that
\* name, in the first one when there was memory for it.
THEOREM SearchSaysWhatIsStoredHolds == Spec => []SearchSaysWhatIsStored
<1>1. IInv => SearchSaysWhatIsStored
  <2> SUFFICES ASSUME IInv, roles # NoRoles, NEW name \in Names, NEW a \in Actions
               PROVE  LET says == pocket_role_search_and_check_action(name, a) IN
                      /\ says => \E k \in DOMAIN docs :
                                    docs[k].name = name /\ Gives(docs[k], a) > 0
                      /\ \A k \in FirstDocument(name) \cap DOMAIN roles :
                            says <=> Gives(docs[k], a) > 0
    BY DEF SearchSaysWhatIsStored
  <2>1. ASSUME NEW k \in DOMAIN roles
        PROVE  /\ k \in DOMAIN docs /\ roles[k].name = docs[k].name
               /\ Holding(roles[k], a) # {} <=> Gives(docs[k], a) > 0
    <3>1. /\ k \in DOMAIN docs /\ Fits(Len(docs[k].actions))
          /\ roles[k] = role_doc_parse(role_new(docs[k].name), docs[k])
      BY DEF IInv, ListInv
    <3>2. docs[k] \in Documents /\ docs[k].name \in Names /\ Len(docs[k].actions) \in Nat
      BY <3>1, DocsAreDocuments DEF IInv, TypeOK, Documents
    <3> DEFINE r == role_new(docs[k].name)
    <3>3. r \in Roles /\ r.n_actions = 0 /\ Holding(r, a) = {}
      BY <3>2, NewIsEmpty DEF role_new
    <3>4. Occurrences(r, a) = 0
      BY <3>3, FS_EmptySet DEF Occurrences
    <3> HIDE DEF r
    <3>5. r.n_actions + Len(docs[k].actions) = Len(docs[k].actions)
      BY <3>2, <3>3
    <3>6. Gives(docs[k], a) \in Nat
          /\ Occurrences(role_doc_parse(r, docs[k]), a) = Occurrences(r, a) + Gives(docs[k], a)
      BY <3>1, <3>2, <3>3, <3>5, ParsedHolds
    <3>7. roles[k].name = docs[k].name
      BY <3>1 DEF role_doc_parse
    <3> QED BY <3>1, <3>4, <3>6, <3>7, HeldOccurs DEF r
  <2>2. \A k \in DOMAIN roles, j \in DOMAIN roles : k \in Nat /\ j \in Nat
    BY RolesAssumption DEF IInv, TypeOK, ListInv
  <2>3. \A k \in DOMAIN docs : k \in Nat
    BY RolesAssumption DEF IInv, TypeOK
  <2>4. ASSUME NEW k \in FirstDocument(name) \cap DOMAIN roles
        PROVE  pocket_roles_get_by_name(name) = {k}
    BY <2>1, <2>2, <2>3, <2>4 DEF FirstDocument, pocket_roles_get_by_name
  <2> QED BY <2>1, <2>4 DEF pocket_role_search_and_check_action, pocket_roles_get_by_name
<1> QED BY <1>1, Invariant, PTL

=============================================================================
