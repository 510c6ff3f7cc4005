-------------------------- MODULE SessionContents ---------------------------
(***************************************************************************)
(* The session snapshots that the provider plugins report                  *)
(* (ToolSessionRegistry in crates/niuma-api/src/tool_sessions.rs), and what*)
(* the project groups and the session details make of them and of the      *)
(* stored state together.                                                  *)
(***************************************************************************)
EXTENDS SessionViews, SharedStore

CONSTANTS FirstSnapshot, Snapshots  \* the session snapshots the providers may report

VARIABLE snapshots  \* ToolSessionRegistry: per tool a set of items

-----------------------------------------------------------------------------
(* A plugin indexes its items by session.  It knows for every session the  *)
(* one it is normalized to: the parent of a subagent, if that was recorded *)
(* (identity_for_session of the Codex plugin), or it knows no lineage at   *)
(* all (the plugin of Claude Code).                                        *)
IsItem(tool, i) ==
    /\ i.tool = tool /\ i.session \in SessionIds \cap Int
    /\ i.modified_at \in Int /\ i.is_subagent \in BOOLEAN
    /\ i.scope \in {None, IF i.is_subagent THEN "Subagent" ELSE "Main"}

KnowsNoLineage(i) == i.parent = None /\ i.normalized = None

KnowsItsParent(i) ==
    i.normalized = IF i.is_subagent /\ i.parent # None THEN i.parent ELSE i.session

IsListing(tool, items) ==
    /\ IsFiniteSet(items) /\ \A i \in items : IsItem(tool, i)
    /\ \A i, j \in items : i.session = j.session => i = j
    /\ (\A i \in items : KnowsNoLineage(i)) \/ (\A i \in items : KnowsItsParent(i))

ASSUME ListingAssumption ==
    /\ None \notin {"Main", "Subagent"}
    /\ \A snap \in Snapshots \cup {FirstSnapshot} :
          DOMAIN snap = Tools /\ \A tool \in Tools : IsListing(tool, snap[tool])

(* An event is found by its id.                                            *)
ASSUME EventIdAssumption == \A e, f \in Events : e.id = f.id => e = f

(* What is not so of every listing.  Sessions with a parent are subagents; *)
(* the parent is listed, with the project of the subagent, and is a main   *)
(* session; or else it is not listed, and nobody else has it as a parent.  *)
FamilyListed(items) ==
    \A i \in items : i.parent # None =>
        /\ i.is_subagent
        /\ \/ \E j \in items : j.session = i.parent /\ ~j.is_subagent /\ j.project = i.project
           \/ \A j \in items \ {i} : i.parent \notin {j.session, j.parent}

(* The events of a listed session have its lineage, or none.               *)
EventsOfFamily(items) ==
    \A i \in items : \A e \in Events : SessionOf(e) = SessionOf(i) =>
        e.parent \in {None, i.parent} /\ e.normalized \in {None, normalized_session_id_for(i)}

FamiliesListed ==
    \A snap \in Snapshots \cup {FirstSnapshot} : \A tool \in Tools :
        FamilyListed(snap[tool]) /\ EventsOfFamily(snap[tool])

-----------------------------------------------------------------------------
GroupsContent == project_groups_with_runtime(state, snapshots)

SessionDetail(tool, session) ==
    session_detail_with_pending_action(state, Events, snapshots, tool, session)

(* A normalized session has one status: the project groups and the detail  *)
(* of its primary session show the same, although one is computed from the *)
(* raw sessions of the group and the other from the lineage in the snapshot*)
(* (runtime_normalized_summary, runtime_for_detail).                       *)
GroupAndDetailAgree ==
    \A g \in GroupsContent : \A s \in g.sessions :
        SessionDetail(g.tool, s.primary).runtime_status = s.runtime_status

(* A detail that asks the user for something also says that the session is *)
(* blocked, when the session the question comes from is listed: the action *)
(* comes from the attention list and the lineage of the event, the status  *)
(* from the runtime states and the lineage in the snapshot.                *)
PendingActionIsBlocked ==
    \A tool \in Tools : \A i \in snapshots[tool] :
        LET d == SessionDetail(tool, i.session)
        IN  d.pending_action # None =>
              \/ d.runtime_status \in BlockedStatuses
              \/ \E e \in Events : /\ e.id = d.pending_action.source_event_id
                                    /\ find_session(snapshots, tool, e.session) = {}

=============================================================================
