----------------------- MODULE StoreTransitionsProofs -----------------------
(***************************************************************************)
(* What every event transition of StoreTransitions preserves, for all      *)
(* tools, sessions, keys and event ids.                                    *)
(***************************************************************************)
EXTENDS StoreTransitions, FiniteSetTheorems, TLAPS

(* The ordinals of the attention items have an upper bound: a Vec has a    *)
(* last element.  Without it NextOrd would not be defined.                 *)
OrdBounded(items) == \E b \in Nat : \A i \in items : i.ord <= b

(* Every nonempty set of naturals has a least element.                     *)
LEMMA LeastNat ==
    ASSUME NEW T, T \subseteq Nat, T # {}
    PROVE  \E m \in T : \A n \in T : m <= n
<1>1. \E m \in T : \A n \in T : ~(<<n, m>> \in OpToRel(<, Nat))
  BY NatLessThanWellFounded, WFMin, Zenon
<1>2. PICK m \in T : \A n \in T : ~(<<n, m>> \in OpToRel(<, Nat))
  BY <1>1
<1>3. \A n \in T : ~(n < m)
  BY <1>2 DEF OpToRel
<1> QED
  BY <1>3

(* A total preorder, as a set of pairs, has a first element in every       *)
(* finite set.                                                             *)
LEMMA FiniteFirst ==
    ASSUME NEW S, IsFiniteSet(S), S # {}, NEW R,
           \A x, y \in S : <<x, y>> \in R \/ <<y, x>> \in R,
           \A x, y, z \in S : <<x, y>> \in R /\ <<y, z>> \in R => <<x, z>> \in R
    PROVE  \E x \in S : \A y \in S : <<x, y>> \in R
<1> DEFINE n == Cardinality(S)
<1>1. n \in Nat /\ ExistsBijection(1..n, S)
  BY FS_CardinalityType
<1>2. PICK f \in [1..n -> S] : \A y \in S : \E j \in 1..n : f[j] = y
  BY <1>1 DEF ExistsBijection, Bijection, Surjection
<1> HIDE DEF n
<1> DEFINE Without == {m \in 1..n : ~\E x \in S : \A j \in 1..m : <<x, f[j]>> \in R}
<1>3. n # 0
  BY <1>1, <1>2
<1>4. CASE Without = {}
  <2>1. n \in 1..n
    BY <1>1, <1>3
  <2>2. PICK x \in S : \A j \in 1..n : <<x, f[j]>> \in R
    BY <1>4, <2>1
  <2> QED BY <1>2, <2>2
<1>5. CASE Without # {}
  <2>1. PICK m \in Without : \A k \in Without : m <= k
    <3>1. Without \subseteq Nat
      BY <1>1
    <3> HIDE DEF Without
    <3> QED BY <1>5, <3>1, LeastNat
  <2>2. CASE m = 1
    <3>1. f[1] \in S /\ <<f[1], f[1]>> \in R
      BY <1>1, <1>3
    <3>2. \A j \in 1..m : f[j] = f[1]
      BY <2>2
    <3>3. \A j \in 1..m : <<f[1], f[j]>> \in R
      BY <3>1, <3>2
    <3> QED BY <2>1, <3>1, <3>3
  <2>3. CASE m # 1
    <3>1. m - 1 \in 1..n /\ m - 1 \notin Without /\ m \in 1..n
      <4>1. m \in 1..n
        BY <2>1
      <4>2. m - 1 \in 1..n /\ ~(m <= m - 1)
        BY <1>1, <2>3, <4>1
      <4> HIDE DEF Without
      <4> QED BY <2>1, <4>1, <4>2
    <3>2. PICK x \in S : \A j \in 1..(m - 1) : <<x, f[j]>> \in R
      BY <3>1
    <3>3. f[m] \in S /\ <<f[m], f[m]>> \in R
      BY <3>1
    <3>4. \A j \in 1..m : j = m \/ j \in 1..(m - 1)
      BY <1>1, <3>1
    <3>5. CASE <<x, f[m]>> \in R
      BY <2>1, <3>2, <3>4, <3>5
    <3>6. CASE <<f[m], x>> \in R
      <4>1. \A j \in 1..m : <<f[m], f[j]>> \in R
        <5>1. \A j \in 1..(m - 1) : j \in 1..n /\ f[j] \in S
          BY <1>1, <3>1
        <5>2. ASSUME NEW j \in 1..(m - 1)
              PROVE  <<f[m], f[j]>> \in R
          <6>1. <<x, f[j]>> \in R /\ f[j] \in S
            BY <3>2, <5>1
          <6> QED BY <3>3, <3>6, <6>1, Zenon
        <5> QED BY <3>3, <3>4, <5>2
      <4> QED BY <2>1, <3>3, <4>1
    <3> QED BY <3>2, <3>3, <3>5, <3>6
  <2> QED BY <2>2, <2>3
<1> QED BY <1>4, <1>5

(* The first item of a nonempty vector is one of its items.                *)
LEMMA FirstIsItem ==
    ASSUME NEW items, items # {}, \A i \in items : i.ord \in Nat
    PROVE  (CHOOSE i \in items : IsFirst(i, items)) \in items
<1> DEFINE T == {i.ord : i \in items}
<1>1. PICK m \in T : \A n \in T : m <= n
  <2>1. T \subseteq Nat /\ T # {}
    OBVIOUS
  <2> HIDE DEF T
  <2> QED
    BY <2>1, LeastNat
<1>2. PICK i \in items : i.ord = m
  BY <1>1
<1>3. IsFirst(i, items)
  BY <1>1, <1>2 DEF IsFirst
<1> QED
  BY <1>2, <1>3

(* Pushing onto a bounded vector gives the new item a natural ordinal.     *)
LEMMA NextOrdIsNat ==
    ASSUME NEW items, \A i \in items : i.ord \in Nat, OrdBounded(items)
    PROVE  NextOrd(items) \in Nat
<1>1. CASE items = {}
  BY <1>1 DEF NextOrd
<1>2. CASE items # {}
  <2> DEFINE T == {i.ord : i \in items}
             U == {b \in Nat : \A n \in T : n <= b}
  <2>1. T \subseteq Nat /\ T # {}
    BY <1>2
  <2>2. U \subseteq Nat /\ U # {}
    BY DEF OrdBounded
  <2> HIDE DEF T, U
  <2>3. PICK m \in U : \A b \in U : m <= b
    BY <2>2, LeastNat
  <2>4. m \in T
    <3>1. SUFFICES ASSUME m \notin T PROVE FALSE
      OBVIOUS
    <3>2. PICK n \in T : TRUE
      BY <2>1
    <3>3. \A k \in T : k < m
      BY <2>1, <2>3, <3>1 DEF U
    <3>4. m - 1 \in U
      BY <2>1, <2>3, <3>2, <3>3 DEF U
    <3> QED
      BY <2>2, <2>3, <3>4
  <2>5. \A n \in T : m >= n
    BY <2>1, <2>3 DEF U
  <2>6. Max(T) \in T
    BY <2>4, <2>5 DEF Max
  <2> QED
    BY <1>2, <2>1, <2>6 DEF NextOrd, T
<1> QED
  BY <1>1, <1>2

-----------------------------------------------------------------------------
(* Restoring touches one status only, and makes it a blocked one exactly   *)
(* when the session still has items.                                       *)
LEMMA RestoreFacts ==
    ASSUME NEW ids, NEW st \in StoredState(ids), NEW k \in Sessions,
           NEW r, r = restore_session_attention_status(st, k)
    PROVE  /\ r \in StoredState(ids)
           /\ r.attention_items = st.attention_items
           /\ r.latest_activity = st.latest_activity
           /\ \A j \in Sessions \ {k} : r.runtime_states[j] = st.runtime_states[j]
           /\ r.runtime_states[k].status \in BlockedStatuses \cup {st.runtime_states[k].status}
           /\ \A i \in st.attention_items :
                SessionOf(i) = k /\ st.runtime_states[k].status # "Absent"
                    => r.runtime_states[k].status \in BlockedStatuses
<1> DEFINE mine  == {i \in st.attention_items : SessionOf(i) = k}
           first == CHOOSE i \in mine : IsFirst(i, mine)
<1>1. CASE mine = {} \/ st.runtime_states[k].status = "Absent"
  <2>1. r = st
    BY <1>1 DEF restore_session_attention_status
  <2> QED
    BY <1>1, <2>1
<1>2. CASE mine # {} /\ st.runtime_states[k].status # "Absent"
  <2>1. \A i \in mine : i \in AttentionItem(ids) /\ i.ord \in Nat
    BY DEF StoredState, AttentionItem
  <2>2. r = [st EXCEPT !.runtime_states[k].status = first.status]
    BY <1>2 DEF restore_session_attention_status
  <2>3. first \in mine
    <3> HIDE DEF mine
    <3> QED
      BY <1>2, <2>1, FirstIsItem
  <2>4. first.status \in BlockedStatuses
    BY <2>1, <2>3 DEF AttentionItem
  <2> HIDE DEF first, mine
  <2>5. r.runtime_states = [st.runtime_states EXCEPT ![k].status = first.status]
    BY <2>2 DEF StoredState
  <2>6. r.attention_items = st.attention_items /\ r.latest_activity = st.latest_activity
    BY <2>2 DEF StoredState
  <2>7. r.runtime_states \in [Sessions -> RuntimeStateItem(ids)]
    BY <2>4, <2>5 DEF StoredState, RuntimeStateItem, RuntimeStatuses
  <2>8. r \in StoredState(ids)
    BY <2>2, <2>7 DEF StoredState
  <2>9. r.runtime_states[k].status = first.status
    BY <2>5 DEF StoredState, RuntimeStateItem
  <2> QED
    BY <2>4, <2>5, <2>6, <2>8, <2>9 DEF StoredState
<1> QED
  BY <1>1, <1>2

(* upsert writes the event's status and id into its own session's entry.   *)
LEMMA UpsertFacts ==
    ASSUME NEW ids, NEW st \in StoredState(ids), NEW e, IsEvent(e, ids),
           NEW r, r = upsert_runtime_state(st, e)
    PROVE  /\ r \in StoredState(ids)
           /\ SessionOf(e) \in Sessions
           /\ r.attention_items = st.attention_items
           /\ r.latest_activity = st.latest_activity
           /\ \A j \in Sessions \ {SessionOf(e)} : r.runtime_states[j] = st.runtime_states[j]
           /\ r.runtime_states[SessionOf(e)].status = status_from_event(e.type)
           /\ status_from_event(e.type) \in RuntimeStatuses
<1>1. SessionOf(e) \in Sessions
  BY DEF IsEvent, SessionOf, Sessions
<1>2. status_from_event(e.type) \in RuntimeStatuses
  BY DEF IsEvent, EventTypes, status_from_event, RuntimeStatuses, BlockedStatuses
<1> DEFINE k == SessionOf(e)
           entry == [status |-> status_from_event(e.type), last_event_id |-> e.id,
                     last_activity_at |-> e.at]
<1>3. entry \in RuntimeStateItem(ids)
  BY <1>2 DEF IsEvent, RuntimeStateItem
<1>4. r = [st EXCEPT !.runtime_states[k] = entry]
  BY DEF upsert_runtime_state
<1>5. entry.status = status_from_event(e.type)
  OBVIOUS
<1>6. k \in Sessions
  BY <1>1
<1> HIDE DEF entry, k
<1>7. r.runtime_states = [st.runtime_states EXCEPT ![k] = entry]
  BY <1>4 DEF StoredState
<1>8. r.attention_items = st.attention_items /\ r.latest_activity = st.latest_activity
  BY <1>4 DEF StoredState
<1>9. r \in StoredState(ids)
  BY <1>3, <1>4, <1>6 DEF StoredState
<1> QED
  BY <1>1, <1>2, <1>5, <1>6, <1>7, <1>8, <1>9 DEF StoredState, k

-----------------------------------------------------------------------------
(* The invariant of a stored state.                                        *)
GoodState(ids, st) ==
    /\ st \in StoredState(ids)
    /\ ItemsReflected(st)
    /\ ActivityListed(st)
    /\ OrdBounded(st.attention_items)

(* The default state is good.                                              *)
LEMMA DefaultGood ==
    ASSUME NEW ids
    PROVE  /\ GoodState(ids, DefaultState)
           /\ DefaultState.attention_items = {}
           /\ DefaultState.latest_activity = IdleActivity
<1>1. NoRuntimeState \in RuntimeStateItem(ids)
  BY DEF NoRuntimeState, RuntimeStateItem
<1>2. [k \in Sessions |-> NoRuntimeState] \in [Sessions -> RuntimeStateItem(ids)]
  BY <1>1
<1>3. DefaultState \in StoredState(ids)
  BY <1>2 DEF DefaultState, StoredState, LatestActivity
<1>4. OrdBounded({})
  BY DEF OrdBounded
<1> QED
  BY <1>3, <1>4 DEF DefaultState, GoodState, ItemsReflected, ActivityListed

(* A smaller set of items keeps its bound.                                 *)
LEMMA BoundedSubset ==
    ASSUME NEW items, OrdBounded(items), NEW kept, kept \subseteq items
    PROVE  OrdBounded(kept)
BY DEF OrdBounded

(* Pushing an item keeps the vector typed and bounded.                     *)
LEMMA PushFacts ==
    ASSUME NEW ids, NEW items, items \subseteq AttentionItem(ids), OrdBounded(items),
           NEW e, IsEvent(e, ids), status_from_event(e.type) \in BlockedStatuses,
           NEW r, r = push_attention_item(items, e)
    PROVE  /\ r \subseteq AttentionItem(ids)
           /\ OrdBounded(r)
           /\ items \subseteq r
           /\ \A i \in r : i \in items \/ (SessionOf(i) = SessionOf(e) /\ i.event_id = e.id)
<1> DEFINE new == [ord |-> NextOrd(items), event_id |-> e.id, tool |-> e.tool,
                   session |-> e.session, status |-> status_from_event(e.type), key |-> e.key]
<1>1. \A i \in items : i.ord \in Nat
  BY DEF AttentionItem
<1>2. NextOrd(items) \in Nat
  BY <1>1, NextOrdIsNat
<1>3. new \in AttentionItem(ids)
  BY <1>2 DEF IsEvent, AttentionItem
<1>4. r = items \cup {new}
  BY DEF push_attention_item
<1>5. SessionOf(new) = SessionOf(e) /\ new.event_id = e.id /\ new.ord = NextOrd(items)
  BY DEF SessionOf
<1> HIDE DEF new
<1>6. OrdBounded(r)
  <2>1. PICK b \in Nat : \A i \in items : i.ord <= b
    BY DEF OrdBounded
  <2>2. b + NextOrd(items) \in Nat
    BY <1>2, <2>1
  <2>3. \A i \in r : i.ord <= b + NextOrd(items)
    BY <1>1, <1>2, <1>4, <1>5, <2>1
  <2> QED
    BY <2>2, <2>3 DEF OrdBounded
<1> QED
  BY <1>3, <1>4, <1>5, <1>6

(* An event of a blocking type.                                            *)
LEMMA AddBlockerGood ==
    ASSUME NEW ids, NEW st, st \in StoredState(ids), OrdBounded(st.attention_items),
           NEW e, IsEvent(e, ids), status_from_event(e.type) \in BlockedStatuses,
           NEW r, r = add_blocker(st, e)
    PROVE  /\ r \in StoredState(ids)
           /\ OrdBounded(r.attention_items)
           /\ r.runtime_states = st.runtime_states
           /\ r.latest_activity = st.latest_activity
           /\ \A i \in r.attention_items :
                i \in st.attention_items \/ (SessionOf(i) = SessionOf(e) /\ i.event_id = e.id)
<1> DEFINE kept == IF is_keyed_relay_input_event(e)
                   THEN {i \in st.attention_items :
                           ~(SessionOf(i) = SessionOf(e) /\ is_unkeyed_input(i))}
                   ELSE st.attention_items
<1>1. kept \subseteq st.attention_items
  OBVIOUS
<1>2. r = st \/ r = [st EXCEPT !.attention_items = push_attention_item(kept, e)]
  BY DEF add_blocker
<1> HIDE DEF kept
<1>3. kept \subseteq AttentionItem(ids) /\ OrdBounded(kept)
  BY <1>1, BoundedSubset DEF StoredState
<1>4. /\ push_attention_item(kept, e) \subseteq AttentionItem(ids)
      /\ OrdBounded(push_attention_item(kept, e))
      /\ \A i \in push_attention_item(kept, e) :
            i \in kept \/ (SessionOf(i) = SessionOf(e) /\ i.event_id = e.id)
  BY <1>3, PushFacts
<1> QED
  BY <1>1, <1>2, <1>4 DEF StoredState

(* The invariant survives every event, applied to any good state.          *)
LEMMA ApplyEventGood ==
    ASSUME NEW ids, NEW st, GoodState(ids, st), NEW e, IsEvent(e, ids)
    PROVE  GoodState(ids, apply_event(st, e))
<1> DEFINE k == SessionOf(e)
           u == upsert_runtime_state(st, e)
           r == apply_event(st, e)
<1>a. st \in StoredState(ids)
  BY DEF GoodState
<1>1. /\ u \in StoredState(ids)
      /\ k \in Sessions
      /\ u.attention_items = st.attention_items
      /\ u.latest_activity = st.latest_activity
      /\ \A j \in Sessions \ {k} : u.runtime_states[j] = st.runtime_states[j]
      /\ u.runtime_states[k].status = status_from_event(e.type)
      /\ status_from_event(e.type) \in RuntimeStatuses
  BY <1>a, UpsertFacts
<1>2. \A i \in st.attention_items : i \in AttentionItem(ids) /\ SessionOf(i) \in Sessions
  BY <1>a DEF StoredState, AttentionItem, SessionOf, Sessions
<1>3. r = apply_attention_transition(u, e)
  BY DEF apply_event
<1>4. OrdBounded(u.attention_items)
  BY <1>1 DEF GoodState
<1>5. \A i \in u.attention_items :
        SessionOf(i) # k => u.runtime_states[SessionOf(i)].status \in BlockedStatuses
  BY <1>1, <1>2 DEF GoodState, ItemsReflected
<1>6. \/ u.latest_activity = IdleActivity
      \/ /\ SessionOf(u.latest_activity) \in Sessions
         /\ SessionOf(u.latest_activity) # k
            => u.runtime_states[SessionOf(u.latest_activity)].status
                  \notin {"Absent", "Stale", "Idle"}
  BY <1>1, <1>a DEF GoodState, ActivityListed, StoredState, LatestActivity, SessionOf, Sessions
<1> HIDE DEF k, u, r
<1>7. CASE e.type = "ManualDismissed"
  <2>1. r = [u EXCEPT !.attention_items = {}]
    BY <1>3, <1>7 DEF apply_attention_transition
  <2>2. u.runtime_states[k].status = "Completed"
    BY <1>1, <1>7 DEF status_from_event
  <2>3. /\ r \in StoredState(ids)
        /\ r.attention_items = {}
        /\ r.runtime_states = u.runtime_states
        /\ r.latest_activity = u.latest_activity
    BY <1>1, <2>1 DEF StoredState
  <2>4. OrdBounded(r.attention_items)
    BY <2>3, <1>4, BoundedSubset
  <2> QED
    BY <1>6, <2>2, <2>3, <2>4 DEF GoodState, ItemsReflected, ActivityListed, r
<1>8. CASE e.type \in {"ApprovalReturnedToCodex", "ApprovalReturnedToTool"}
  <2>1. r = restore_session_attention_status(u, k)
    BY <1>3, <1>8 DEF apply_attention_transition, k
  <2>2. u.runtime_states[k].status = "WaitingApproval"
    BY <1>1, <1>8 DEF status_from_event
  <2>3. /\ r \in StoredState(ids)
        /\ r.attention_items = u.attention_items
        /\ r.latest_activity = u.latest_activity
        /\ \A j \in Sessions \ {k} : r.runtime_states[j] = u.runtime_states[j]
        /\ r.runtime_states[k].status \in BlockedStatuses \cup {u.runtime_states[k].status}
    BY <1>1, <2>1, RestoreFacts
  <2>4. r.runtime_states[k].status \in BlockedStatuses
    BY <2>2, <2>3 DEF BlockedStatuses
  <2>5. ItemsReflected(r)
    BY <1>1, <1>2, <1>5, <2>3, <2>4 DEF ItemsReflected
  <2>6. ActivityListed(r)
    BY <1>6, <2>3, <2>4 DEF ActivityListed, BlockedStatuses
  <2> QED
    BY <1>4, <2>3, <2>5, <2>6 DEF GoodState, r
<1>9. CASE e.type \in {"ApprovalRequested", "InputRequested", "TaskFailed"}
  <2>1. r = add_blocker(u, e)
    BY <1>3, <1>9 DEF apply_attention_transition
  <2>2. status_from_event(e.type) \in BlockedStatuses
    BY <1>9 DEF status_from_event, BlockedStatuses
  <2>3. /\ r \in StoredState(ids)
        /\ OrdBounded(r.attention_items)
        /\ r.runtime_states = u.runtime_states
        /\ r.latest_activity = u.latest_activity
        /\ \A i \in r.attention_items : i \in u.attention_items \/ SessionOf(i) = k
    BY <1>1, <1>4, <2>1, <2>2, AddBlockerGood DEF k
  <2>4. ItemsReflected(r)
    BY <1>1, <1>5, <2>2, <2>3 DEF ItemsReflected
  <2>5. ActivityListed(r)
    BY <1>1, <1>6, <2>2, <2>3 DEF ActivityListed, BlockedStatuses
  <2> QED
    BY <2>3, <2>4, <2>5 DEF GoodState, r
<1>10. CASE e.type \in {"SessionStarted", "ApprovalResolved", "SessionActivity",
                        "AssistantMessageCompleted"}
  <2> DEFINE settled  == [u EXCEPT !.attention_items = @ \ resolved_items(@, e)]
             restored == restore_session_attention_status(settled, k)
  <2>1. r = restored \/ r = [restored EXCEPT !.latest_activity = LatestActivityOf(e)]
    BY <1>3, <1>10 DEF apply_attention_transition, settle_blockers, k
  <2>2. u.runtime_states[k].status \in {"Running", "Completed"}
    BY <1>1, <1>10 DEF status_from_event
  <2>3. /\ settled \in StoredState(ids)
        /\ settled.attention_items \subseteq u.attention_items
        /\ settled.runtime_states = u.runtime_states
        /\ settled.latest_activity = u.latest_activity
    BY <1>1 DEF StoredState
  <2> HIDE DEF settled
  <2>4. /\ restored \in StoredState(ids)
        /\ restored.attention_items = settled.attention_items
        /\ restored.latest_activity = settled.latest_activity
        /\ \A j \in Sessions \ {k} : restored.runtime_states[j] = settled.runtime_states[j]
        /\ restored.runtime_states[k].status
              \in BlockedStatuses \cup {settled.runtime_states[k].status}
        /\ \A i \in settled.attention_items :
             SessionOf(i) = k /\ settled.runtime_states[k].status # "Absent"
                 => restored.runtime_states[k].status \in BlockedStatuses
    BY <1>1, <2>3, RestoreFacts
  <2> HIDE DEF restored
  <2>5. LatestActivityOf(e) \in LatestActivity(ids) /\ SessionOf(LatestActivityOf(e)) = k
    BY <1>10 DEF LatestActivityOf, LatestActivity, IsEvent, status_from_event, SessionOf, k
  <2>6. /\ r \in StoredState(ids)
        /\ r.attention_items = settled.attention_items
        /\ r.runtime_states = restored.runtime_states
        /\ r.latest_activity \in {u.latest_activity, LatestActivityOf(e)}
    BY <2>1, <2>3, <2>4, <2>5 DEF StoredState
  <2>7. restored.runtime_states[k].status \notin {"Absent", "Stale", "Idle"}
    BY <2>2, <2>3, <2>4 DEF BlockedStatuses
  <2>8. ItemsReflected(r)
    <3>1. SUFFICES ASSUME NEW i \in r.attention_items
                   PROVE  r.runtime_states[SessionOf(i)].status \in BlockedStatuses
      BY DEF ItemsReflected
    <3>2. CASE SessionOf(i) = k
      BY <2>2, <2>3, <2>4, <2>6, <3>2
    <3>3. CASE SessionOf(i) # k
      BY <1>1, <1>2, <1>5, <2>3, <2>4, <2>6, <3>3
    <3> QED
      BY <3>2, <3>3
  <2>9. ActivityListed(r)
    <3>1. CASE r.latest_activity = LatestActivityOf(e)
      BY <2>5, <2>6, <2>7, <3>1 DEF ActivityListed
    <3>2. CASE r.latest_activity = u.latest_activity
      BY <1>6, <2>3, <2>4, <2>6, <2>7, <3>2 DEF ActivityListed
    <3> QED
      BY <2>6, <3>1, <3>2
  <2>10. OrdBounded(r.attention_items)
    BY <1>4, <2>3, <2>6, BoundedSubset
  <2> QED
    BY <2>6, <2>8, <2>9, <2>10 DEF GoodState, r
<1>11. CASE e.type \in {"SessionStaled", "SessionIdled"}
  <2> DEFINE gone == [u EXCEPT !.attention_items = {i \in @ : SessionOf(i) # k}]
  <2>1. IF SessionOf(u.latest_activity) = k
        THEN r = [gone EXCEPT !.latest_activity = IdleActivity]
        ELSE r = gone
    BY <1>3, <1>11 DEF apply_attention_transition, end_session, k
  <2>2. /\ gone \in StoredState(ids)
        /\ gone.attention_items = {i \in u.attention_items : SessionOf(i) # k}
        /\ gone.runtime_states = u.runtime_states
        /\ gone.latest_activity = u.latest_activity
    BY <1>1 DEF StoredState
  <2> HIDE DEF gone
  <2>3. IdleActivity \in LatestActivity(ids)
    BY DEF LatestActivity
  <2>4. /\ r \in StoredState(ids)
        /\ r.attention_items = gone.attention_items
        /\ r.runtime_states = u.runtime_states
        /\ \/ r.latest_activity = IdleActivity
           \/ r.latest_activity = u.latest_activity /\ SessionOf(u.latest_activity) # k
    BY <2>1, <2>2, <2>3 DEF StoredState
  <2>5. ItemsReflected(r)
    BY <1>5, <2>2, <2>4 DEF ItemsReflected
  <2>6. ActivityListed(r)
    BY <1>6, <2>4 DEF ActivityListed
  <2>7. OrdBounded(r.attention_items)
    BY <1>4, <2>2, <2>4, BoundedSubset
  <2> QED
    BY <2>4, <2>5, <2>6, <2>7 DEF GoodState, r
<1> QED
  BY <1>7, <1>8, <1>9, <1>10, <1>11 DEF IsEvent, EventTypes, r

(* Where the items and the activity of the new state come from.            *)
LEMMA ApplyEventSources ==
    ASSUME NEW ids, NEW st, GoodState(ids, st), NEW e, IsEvent(e, ids),
           NEW r, r = apply_event(st, e)
    PROVE  /\ \A i \in r.attention_items :
                \/ i \in st.attention_items
                \/ /\ i.event_id = e.id
                   /\ e.type \in {"ApprovalRequested", "InputRequested", "TaskFailed"}
           /\ r.latest_activity \in {st.latest_activity, IdleActivity, LatestActivityOf(e)}
<1> DEFINE k == SessionOf(e)
           u == upsert_runtime_state(st, e)
<1>1. st \in StoredState(ids) /\ OrdBounded(st.attention_items)
  BY DEF GoodState
<1>2. /\ u \in StoredState(ids)
      /\ k \in Sessions
      /\ u.attention_items = st.attention_items
      /\ u.latest_activity = st.latest_activity
  BY <1>1, UpsertFacts
<1>3. r = apply_attention_transition(u, e)
  BY DEF apply_event
<1> HIDE DEF k, u
<1>4. CASE e.type = "ManualDismissed"
  <2>1. r = [u EXCEPT !.attention_items = {}]
    BY <1>3, <1>4 DEF apply_attention_transition
  <2> QED
    BY <1>2, <2>1 DEF StoredState
<1>5. CASE e.type \in {"ApprovalReturnedToCodex", "ApprovalReturnedToTool"}
  <2>1. r = restore_session_attention_status(u, k)
    BY <1>3, <1>5 DEF apply_attention_transition, k
  <2> QED
    BY <1>2, <2>1, RestoreFacts
<1>6. CASE e.type \in {"ApprovalRequested", "InputRequested", "TaskFailed"}
  <2>1. r = add_blocker(u, e)
    BY <1>3, <1>6 DEF apply_attention_transition
  <2>2. status_from_event(e.type) \in BlockedStatuses
    BY <1>6 DEF status_from_event, BlockedStatuses
  <2> QED
    BY <1>1, <1>2, <1>6, <2>1, <2>2, AddBlockerGood
<1>7. CASE e.type \in {"SessionStarted", "ApprovalResolved", "SessionActivity",
                       "AssistantMessageCompleted"}
  <2> DEFINE settled  == [u EXCEPT !.attention_items = @ \ resolved_items(@, e)]
             restored == restore_session_attention_status(settled, k)
  <2>1. r = restored \/ r = [restored EXCEPT !.latest_activity = LatestActivityOf(e)]
    BY <1>3, <1>7 DEF apply_attention_transition, settle_blockers, k
  <2>2. /\ settled \in StoredState(ids)
        /\ settled.attention_items \subseteq u.attention_items
        /\ settled.latest_activity = u.latest_activity
    BY <1>2 DEF StoredState
  <2> HIDE DEF settled
  <2>3. /\ restored \in StoredState(ids)
        /\ restored.attention_items = settled.attention_items
        /\ restored.latest_activity = settled.latest_activity
    BY <1>2, <2>2, RestoreFacts
  <2> HIDE DEF restored
  <2> QED
    BY <1>2, <2>1, <2>2, <2>3 DEF StoredState
<1>8. CASE e.type \in {"SessionStaled", "SessionIdled"}
  <2> DEFINE gone == [u EXCEPT !.attention_items = {i \in @ : SessionOf(i) # k}]
  <2>1. r = gone \/ r = [gone EXCEPT !.latest_activity = IdleActivity]
    BY <1>3, <1>8 DEF apply_attention_transition, end_session, k
  <2>2. /\ gone \in StoredState(ids)
        /\ gone.attention_items \subseteq u.attention_items
        /\ gone.latest_activity = u.latest_activity
    BY <1>2 DEF StoredState
  <2> HIDE DEF gone
  <2> QED
    BY <1>2, <2>1, <2>2 DEF StoredState
<1> QED
  BY <1>4, <1>5, <1>6, <1>7, <1>8 DEF IsEvent, EventTypes

(* At most one item is new, and it is of the event's session.              *)
LEMMA ApplyEventAdds ==
    ASSUME NEW ids, NEW st, GoodState(ids, st), NEW e, IsEvent(e, ids),
           NEW r, r = apply_event(st, e)
    PROVE  \E new : /\ r.attention_items \subseteq st.attention_items \cup {new}
                    /\ new.event_id = e.id /\ SessionOf(new) = SessionOf(e)
<1> DEFINE pushed(items) ==
             [ord |-> NextOrd(items), event_id |-> e.id, tool |-> e.tool, session |-> e.session,
              status |-> status_from_event(e.type), key |-> e.key]
<1>1. \A items : pushed(items).event_id = e.id /\ SessionOf(pushed(items)) = SessionOf(e)
  BY DEF SessionOf
<1>2. CASE e.type \in {"ApprovalRequested", "InputRequested", "TaskFailed"}
  <2> DEFINE u == upsert_runtime_state(st, e)
  <2>1. u \in StoredState(ids) /\ u.attention_items = st.attention_items
    BY UpsertFacts DEF GoodState
  <2>2. r = add_blocker(u, e)
    BY <1>2 DEF apply_event, apply_attention_transition
  <2> HIDE DEF u, pushed
  <2>3. ASSUME NEW kept, kept \subseteq u.attention_items,
               r = [u EXCEPT !.attention_items = kept \cup {pushed(kept)}]
        PROVE  r.attention_items \subseteq st.attention_items \cup {pushed(kept)}
    BY <2>1, <2>3 DEF StoredState
  <2>4. \/ r = u
        \/ \E kept : /\ kept \subseteq u.attention_items
                      /\ r = [u EXCEPT !.attention_items = kept \cup {pushed(kept)}]
    BY <2>2 DEF add_blocker, push_attention_item, pushed
  <2> QED BY <1>1, <2>1, <2>3, <2>4
<1>3. CASE e.type \notin {"ApprovalRequested", "InputRequested", "TaskFailed"}
  <2>1. r.attention_items \subseteq st.attention_items
    BY <1>3, ApplyEventSources
  <2> QED BY <1>1, <2>1
<1> QED BY <1>2, <1>3

(* Ending a running session removes no item and touches no other session.  *)
LEMMA StaleEventFrame ==
    ASSUME NEW ids, NEW st, GoodState(ids, st), NEW e, IsEvent(e, ids),
           e.type = "SessionStaled",
           st.runtime_states[SessionOf(e)].status = "Running",
           NEW r, r = apply_event(st, e)
    PROVE  /\ r.attention_items = st.attention_items
           /\ r.latest_activity \in {st.latest_activity, IdleActivity}
           /\ \A j \in Sessions \ {SessionOf(e)} : r.runtime_states[j] = st.runtime_states[j]
<1> DEFINE k == SessionOf(e)
           u == upsert_runtime_state(st, e)
           gone == [u EXCEPT !.attention_items = {i \in @ : SessionOf(i) # k}]
<1>1. st \in StoredState(ids)
  BY DEF GoodState
<1>2. /\ u \in StoredState(ids)
      /\ u.attention_items = st.attention_items
      /\ u.latest_activity = st.latest_activity
      /\ \A j \in Sessions \ {k} : u.runtime_states[j] = st.runtime_states[j]
  BY <1>1, UpsertFacts
<1>3. \A i \in st.attention_items : SessionOf(i) # k
  BY DEF GoodState, ItemsReflected, BlockedStatuses
<1>4. r = gone \/ r = [gone EXCEPT !.latest_activity = IdleActivity]
  BY DEF apply_event, apply_attention_transition, end_session
<1> HIDE DEF k, u
<1>5. /\ gone \in StoredState(ids)
      /\ gone.attention_items = u.attention_items
      /\ gone.latest_activity = u.latest_activity
      /\ gone.runtime_states = u.runtime_states
  BY <1>2, <1>3 DEF StoredState
<1> HIDE DEF gone
<1> QED
  BY <1>2, <1>4, <1>5 DEF StoredState, k

(* Switching a tool off keeps the invariant for the other tools.           *)
LEMMA ClearToolGood ==
    ASSUME NEW ids, NEW st, GoodState(ids, st), NEW tool \in Tools,
           NEW r, r = clear_tool(st, tool)
    PROVE  /\ GoodState(ids, r)
           /\ r.attention_items \subseteq st.attention_items
           /\ r.latest_activity \in {st.latest_activity, IdleActivity}
<1>1. st \in StoredState(ids)
  BY DEF GoodState
<1>2. /\ r.runtime_states = [k \in Sessions |-> IF k[1] = tool THEN NoRuntimeState
                                                ELSE st.runtime_states[k]]
      /\ r.attention_items = {i \in st.attention_items : i.tool # tool}
      /\ r.latest_activity = IF st.latest_activity.tool = tool THEN IdleActivity
                             ELSE st.latest_activity
      /\ r = [runtime_states |-> r.runtime_states, attention_items |-> r.attention_items,
              latest_activity |-> r.latest_activity]
  BY <1>1 DEF clear_tool, StoredState
<1>3. NoRuntimeState \in RuntimeStateItem(ids)
  BY DEF NoRuntimeState, RuntimeStateItem
<1>4. r.runtime_states \in [Sessions -> RuntimeStateItem(ids)]
  BY <1>1, <1>2, <1>3 DEF StoredState
<1>5. r \in StoredState(ids)
  BY <1>1, <1>2, <1>4 DEF StoredState, LatestActivity
<1>6. ItemsReflected(r)
  <2>1. SUFFICES ASSUME NEW i \in r.attention_items
                 PROVE  r.runtime_states[SessionOf(i)].status \in BlockedStatuses
    BY DEF ItemsReflected
  <2>2. i \in st.attention_items /\ i.tool # tool /\ i \in AttentionItem(ids)
    BY <1>1, <1>2 DEF StoredState
  <2>3. SessionOf(i) \in Sessions /\ SessionOf(i)[1] = i.tool
    BY <2>2 DEF AttentionItem, SessionOf, Sessions
  <2> QED
    BY <1>2, <2>2, <2>3 DEF GoodState, ItemsReflected
<1>7. ActivityListed(r)
  <2>1. CASE r.latest_activity = IdleActivity
    BY <2>1 DEF ActivityListed
  <2>2. CASE r.latest_activity # IdleActivity
    <3>1. r.latest_activity = st.latest_activity /\ st.latest_activity.tool # tool
      BY <1>2, <2>2
    <3>2. /\ SessionOf(st.latest_activity) \in Sessions
          /\ SessionOf(st.latest_activity)[1] = st.latest_activity.tool
      BY <1>1, <2>2, <3>1 DEF StoredState, LatestActivity, SessionOf, Sessions
    <3> QED
      BY <1>2, <2>2, <3>1, <3>2 DEF GoodState, ActivityListed
  <2> QED
    BY <2>1, <2>2
<1>8. OrdBounded(r.attention_items)
  BY <1>2, BoundedSubset DEF GoodState
<1> QED
  BY <1>2, <1>5, <1>6, <1>7, <1>8 DEF GoodState

-----------------------------------------------------------------------------
(* What an event does to the approvals that are shown.                     *)
SettlingTypes == {"SessionStarted", "ApprovalResolved", "SessionActivity",
                  "AssistantMessageCompleted"}

EndingTypes == {"ManualDismissed", "SessionStaled", "SessionIdled"}

(* An approval with a key stays in the list under every event but those    *)
(* that end its session or settle that key.                                *)
LEMMA ApplyEventKeeps ==
    ASSUME NEW ids, NEW st, GoodState(ids, st), NEW e, IsEvent(e, ids),
           e.type \notin EndingTypes,
           NEW i \in st.attention_items, is_keyed_approval(i),
           e.type \in SettlingTypes => e.key # i.key,
           NEW r, r = apply_event(st, e)
    PROVE  i \in r.attention_items
<1> DEFINE k == SessionOf(e)
           u == upsert_runtime_state(st, e)
<1>1. /\ u \in StoredState(ids)
      /\ k \in Sessions
      /\ u.attention_items = st.attention_items
  BY UpsertFacts DEF GoodState
<1>2. r = apply_attention_transition(u, e)
  BY DEF apply_event
<1> HIDE DEF k, u
<1>3. CASE e.type \in {"ApprovalReturnedToCodex", "ApprovalReturnedToTool"}
  <2>1. r = restore_session_attention_status(u, k)
    BY <1>2, <1>3 DEF apply_attention_transition, k
  <2> QED
    BY <1>1, <2>1, RestoreFacts
<1>4. CASE e.type \in {"ApprovalRequested", "InputRequested", "TaskFailed"}
  <2> DEFINE kept == IF is_keyed_relay_input_event(e)
                     THEN {j \in u.attention_items : ~(SessionOf(j) = SessionOf(e) /\ is_unkeyed_input(j))}
                     ELSE u.attention_items
  <2>1. r = add_blocker(u, e)
    BY <1>2, <1>4 DEF apply_attention_transition
  <2>2. i \in kept
    BY <1>1 DEF is_keyed_approval, is_unkeyed_input
  <2>3. r = u \/ r = [u EXCEPT !.attention_items = push_attention_item(kept, e)]
    BY <2>1 DEF add_blocker
  <2> HIDE DEF kept
  <2>4. i \in push_attention_item(kept, e)
    BY <2>2 DEF push_attention_item
  <2> QED
    BY <1>1, <2>3, <2>4 DEF StoredState
<1>5. CASE e.type \in SettlingTypes
  <2> DEFINE settled  == [u EXCEPT !.attention_items = @ \ resolved_items(@, e)]
             restored == restore_session_attention_status(settled, k)
  <2>1. r = restored \/ r = [restored EXCEPT !.latest_activity = LatestActivityOf(e)]
    BY <1>2, <1>5 DEF apply_attention_transition, settle_blockers, k, SettlingTypes
  <2>2. i \notin resolved_items(u.attention_items, e)
    BY <1>5 DEF resolved_items, attention_item_resolved_by_key, is_keyed_approval,
                is_unkeyed_approval, is_unkeyed_input
  <2>3. settled \in StoredState(ids) /\ i \in settled.attention_items
    BY <1>1, <2>2 DEF StoredState
  <2> HIDE DEF settled
  <2>4. restored \in StoredState(ids) /\ i \in restored.attention_items
    BY <1>1, <2>3, RestoreFacts
  <2> HIDE DEF restored
  <2> QED
    BY <2>1, <2>4 DEF StoredState
<1> QED
  BY <1>3, <1>4, <1>5 DEF IsEvent, EventTypes, EndingTypes, SettlingTypes

(* A new approval is in the list.                                          *)
LEMMA ApplyEventShows ==
    ASSUME NEW ids, NEW st, GoodState(ids, st), NEW e, IsEvent(e, ids),
           e.type = "ApprovalRequested",
           NEW r, r = apply_event(st, e)
    PROVE  \E i \in r.attention_items : i.key = e.key /\ i.status = "WaitingApproval"
<1> DEFINE u == upsert_runtime_state(st, e)
           new(items) == [ord |-> NextOrd(items), event_id |-> e.id, tool |-> e.tool,
                          session |-> e.session, status |-> status_from_event(e.type),
                          key |-> e.key]
<1>1. u \in StoredState(ids)
  BY UpsertFacts DEF GoodState
<1>2. r = add_blocker(u, e)
  BY DEF apply_event, apply_attention_transition
<1> HIDE DEF u
<1>3. r = [u EXCEPT !.attention_items = push_attention_item(u.attention_items, e)]
  BY <1>2 DEF add_blocker, should_skip_unkeyed_input_fallback, is_keyed_relay_input_event
<1>4. r.attention_items = u.attention_items \cup {new(u.attention_items)}
  BY <1>1, <1>3 DEF StoredState, push_attention_item
<1>5. new(u.attention_items).key = e.key /\ new(u.attention_items).status = "WaitingApproval"
  BY DEF status_from_event
<1> HIDE DEF new
<1> QED
  BY <1>4, <1>5

(* The ids of the entries: only the event's is new.                        *)
LEMMA RestoreIds ==
    ASSUME NEW ids, NEW st \in StoredState(ids), NEW k \in Sessions,
           NEW r, r = restore_session_attention_status(st, k)
    PROVE  \A j \in Sessions : r.runtime_states[j].last_event_id = st.runtime_states[j].last_event_id
<1>1. CASE r = st
  BY <1>1
<1>2. CASE r # st
  <2>1. PICK s : r = [st EXCEPT !.runtime_states[k].status = s]
    BY <1>2 DEF restore_session_attention_status
  <2>2. r.runtime_states = [st.runtime_states EXCEPT ![k].status = s]
    BY <2>1 DEF StoredState
  <2>3. st.runtime_states \in [Sessions -> RuntimeStateItem(ids)]
    BY DEF StoredState
  <2> QED
    BY <2>2, <2>3 DEF RuntimeStateItem
<1> QED
  BY <1>1, <1>2

LEMMA ApplyEventIds ==
    ASSUME NEW ids, NEW st, GoodState(ids, st), NEW e, IsEvent(e, ids),
           NEW r, r = apply_event(st, e)
    PROVE  \A j \in Sessions :
              r.runtime_states[j].last_event_id \in {st.runtime_states[j].last_event_id, e.id}
<1> DEFINE k == SessionOf(e)
           u == upsert_runtime_state(st, e)
           entry == [status |-> status_from_event(e.type), last_event_id |-> e.id,
                     last_activity_at |-> e.at]
<1>1. /\ st \in StoredState(ids) /\ OrdBounded(st.attention_items)
      /\ u \in StoredState(ids)
      /\ k \in Sessions
      /\ u.attention_items = st.attention_items
  BY UpsertFacts DEF GoodState
<1>2. u.runtime_states = [st.runtime_states EXCEPT ![k] = entry]
  BY <1>1 DEF upsert_runtime_state, StoredState
<1>3. entry.last_event_id = e.id
  OBVIOUS
<1> HIDE DEF entry
<1>4. \A j \in Sessions :
         u.runtime_states[j].last_event_id \in {st.runtime_states[j].last_event_id, e.id}
  BY <1>1, <1>2, <1>3 DEF StoredState
<1>5. r = apply_attention_transition(u, e)
  BY DEF apply_event
<1> HIDE DEF k, u
<1>6. ASSUME r.runtime_states = u.runtime_states
      PROVE  \A j \in Sessions : r.runtime_states[j].last_event_id = u.runtime_states[j].last_event_id
  BY <1>6
<1>7. CASE e.type = "ManualDismissed"
  BY <1>1, <1>4, <1>5, <1>7 DEF apply_attention_transition, StoredState
<1>8. CASE e.type \in {"ApprovalReturnedToCodex", "ApprovalReturnedToTool"}
  <2>1. r = restore_session_attention_status(u, k)
    BY <1>5, <1>8 DEF apply_attention_transition, k
  <2> QED
    BY <1>1, <1>4, <2>1, RestoreIds
<1>9. CASE e.type \in {"ApprovalRequested", "InputRequested", "TaskFailed"}
  <2>1. r = add_blocker(u, e)
    BY <1>5, <1>9 DEF apply_attention_transition
  <2>2. status_from_event(e.type) \in BlockedStatuses
    BY <1>9 DEF status_from_event, BlockedStatuses
  <2>3. r.runtime_states = u.runtime_states
    BY <1>1, <2>1, <2>2, AddBlockerGood
  <2> QED
    BY <1>4, <2>3
<1>10. CASE e.type \in SettlingTypes
  <2> DEFINE settled  == [u EXCEPT !.attention_items = @ \ resolved_items(@, e)]
             restored == restore_session_attention_status(settled, k)
  <2>1. r = restored \/ r = [restored EXCEPT !.latest_activity = LatestActivityOf(e)]
    BY <1>5, <1>10 DEF apply_attention_transition, settle_blockers, k, SettlingTypes
  <2>2. settled \in StoredState(ids) /\ settled.runtime_states = u.runtime_states
    BY <1>1 DEF StoredState
  <2> HIDE DEF settled
  <2>3. /\ restored \in StoredState(ids)
        /\ \A j \in Sessions : restored.runtime_states[j].last_event_id
                                 = settled.runtime_states[j].last_event_id
    BY <1>1, <2>2, RestoreFacts, RestoreIds
  <2> HIDE DEF restored
  <2>4. r.runtime_states = restored.runtime_states
    BY <2>1, <2>3 DEF StoredState
  <2> QED
    BY <1>4, <2>2, <2>3, <2>4
<1>11. CASE e.type \in {"SessionStaled", "SessionIdled"}
  <2> DEFINE gone == [u EXCEPT !.attention_items = {i \in @ : SessionOf(i) # k}]
  <2>1. r = gone \/ r = [gone EXCEPT !.latest_activity = IdleActivity]
    BY <1>5, <1>11 DEF apply_attention_transition, end_session, k
  <2>2. gone \in StoredState(ids) /\ gone.runtime_states = u.runtime_states
    BY <1>1 DEF StoredState
  <2> HIDE DEF gone
  <2>3. r.runtime_states = u.runtime_states
    BY <2>1, <2>2 DEF StoredState
  <2> QED
    BY <1>4, <2>3
<1> QED
  BY <1>7, <1>8, <1>9, <1>10, <1>11 DEF IsEvent, EventTypes, SettlingTypes

(* So an event that is visible afterwards was so before, or has the id of  *)
(* the one applied.                                                        *)
LEMMA ApplyEventVisible ==
    ASSUME NEW ids, NEW st, GoodState(ids, st), NEW e, IsEvent(e, ids),
           NEW r, r = apply_event(st, e),
           NEW x, x.id # None, already_applied(r, x)
    PROVE  already_applied(st, x) \/ x.id = e.id
<1>1. CASE \E j \in Sessions : r.runtime_states[j].last_event_id = x.id
  BY <1>1, ApplyEventIds DEF already_applied
<1>2. CASE \E i \in r.attention_items : i.event_id = x.id
  BY <1>2, ApplyEventSources DEF already_applied
<1>3. CASE r.latest_activity.event_id = x.id
  <2>1. r.latest_activity \in {st.latest_activity, IdleActivity, LatestActivityOf(e)}
    BY ApplyEventSources
  <2>2. IdleActivity.event_id = None /\ LatestActivityOf(e).event_id = e.id
    BY DEF IdleActivity, LatestActivityOf
  <2> QED
    BY <1>3, <2>1, <2>2 DEF already_applied
<1> QED
  BY <1>1, <1>2, <1>3 DEF already_applied

-----------------------------------------------------------------------------
(* Induction over the naturals, as a statement about a set.                *)
LEMMA InductiveSet ==
    ASSUME NEW S \in SUBSET Nat, 0 \in S, \A n \in S : n + 1 \in S
    PROVE  S = Nat
<1> SUFFICES ASSUME Nat \ S # {} PROVE FALSE
  OBVIOUS
<1>1. PICK m \in Nat \ S : \A n \in Nat \ S : m <= n
  <2> DEFINE T == Nat \ S
  <2>1. T \subseteq Nat /\ T # {}
    OBVIOUS
  <2> HIDE DEF T
  <2> QED
    BY <2>1, LeastNat DEF T
<1>2. m # 0 /\ m - 1 \in Nat /\ ~(m <= m - 1)
  OBVIOUS
<1>3. m - 1 \in S
  BY <1>1, <1>2
<1> QED
  BY <1>1, <1>2, <1>3

=============================================================================
