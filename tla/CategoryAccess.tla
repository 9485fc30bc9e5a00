--------------------------- MODULE CategoryAccess ---------------------------
(***************************************************************************)
(* Who may read what in one document space: the tree of its categories,    *)
(* the access rules of the directory's groups, the temporary grants and    *)
(* the owner, and the synchronization that removes the groups the          *)
(* directory has lost, with their rules (authorization.service.ts,         *)
(* category-permissions.ts, directory.service.ts, controllers.ts).         *)
(*                                                                         *)
(* A rule on a category replaces, for its branch and for everybody, what   *)
(* is inherited.  The nine permissions are decided alike; here there is    *)
(* one, read.  Administrators and moderators read everything and are left  *)
(* out.  An inactive group decides nothing, like one without rules: rows   *)
(* are active groups.                                                      *)
(*                                                                         *)
(* A change to the tree checks what it read, then writes; the search of    *)
(* the groups in the directory takes a step for each.                      *)
(***************************************************************************)
EXTENDS Integers, FiniteSets

CONSTANTS
  Categories,
  Groups,
  Tasks,      \* requests and synchronizations at the same time
  MaxRules,   \* bound on the rules and grants at the same time
  Root,       \* the space itself: no category
  Unset,
  Gone

ASSUME AccessAssumption ==
  /\ Root \notin Categories /\ Unset # Gone
  /\ {Unset, Gone} \cap (Categories \cup {Root} \cup Groups) = {}
  /\ IsFiniteSet(Categories)

VARIABLES
  parent,     \* of each category: another one or Root; Unset before it is created
              \* and Gone once deletedAt is set
  filed,      \* the category of a document of the space
  directory,  \* groups in the LDAP directory under a name: the synchronization passes
              \* over an entry without one as over an absent one
  rows,       \* DirectoryGroup rows
  linked,     \* those with a directoryConnectionId
  rules,      \* AccessRule rows in their validity window: the others decide nothing
  grants,     \* groups with a TemporaryAccessGrant
  owner,      \* the space's owner group
  task,       \* the request or synchronization under way in each
  crossed     \* a change of the tree overtook another one (history)

treeVars == <<parent, filed>>
groupVars == <<rows, linked, rules, grants, owner>>
accessVars == <<parent, filed, directory, rows, linked, rules, grants, owner, task,
                crossed>>

Places == Categories \cup {Root}
Rules == [group : Groups, place : Places, read : BOOLEAN]
NoTask == [step |-> "idle", cat |-> Unset, to |-> Unset, from |-> Unset, stale |-> FALSE,
           todo |-> {}, found |-> {}, absent |-> {}, late |-> {}]
Doing(t, step) == task[t].step = step
Proceed(t, r) == task' = [task EXCEPT ![t] = r]

Present(c) == parent[c] \in Places
Live == {c \in Categories : Present(c)}

\* A category and what is above it, the space included: what every set has that has
\* the category and, with a category, its parent.
Upward(U) == \A k \in U \cap Live : parent[k] \in U
Branch(c) == {k \in Places : \A U \in SUBSET Places : c \in U /\ Upward(U) => k \in U}

AccessInit ==
  /\ parent = [c \in Categories |-> Unset] /\ filed = Root
  /\ directory = Groups
  /\ rows = {} /\ linked = {} /\ rules = {} /\ grants = {} /\ owner = Unset
  /\ task = [t \in Tasks |-> NoTask]
  /\ crossed = FALSE

-----------------------------------------------------------------------------
(* The decision *)

\* aclRoot
RootAllowed(G) ==
  \/ owner \in G
  \/ \E r \in rules : r.place = Root /\ r.group \in G /\ r.read
  \/ grants \cap G # {}

Overrides(c) == \E r \in rules : r.place = c

\* Fault: every rule of the user's groups has to allow.
Grants_All(G, c) ==
  LET own == {r \in rules : r.place = c /\ r.group \in G}
  IN own # {} /\ \A r \in own : r.read

Grants(G, c) == \E r \in rules : r.place = c /\ r.group \in G /\ r.read

\* Fault: the rule nearest to the root decides.
Resolve_Farthest(G, c) ==
  LET walk[n \in 0 .. Cardinality(Categories)] ==
        [k \in Places |->
           IF k = Root THEN RootAllowed(G)
           ELSE IF n = 0 \/ ~Present(k) THEN FALSE
           ELSE IF parent[k] = Root /\ Overrides(k) THEN Grants(G, k)
           ELSE walk[n - 1][parent[k]]]
  IN walk[Cardinality(Categories)][c]

\* resolveCategories: from the category upwards to the first rule; a category met
\* twice, or not there, refuses.
Resolve(G, c) ==
  LET walk[n \in 0 .. Cardinality(Categories)] ==
        [k \in Places |->
           IF k = Root THEN RootAllowed(G)
           ELSE IF n = 0 \/ ~Present(k) THEN FALSE
           ELSE IF Overrides(k) THEN Grants(G, k)
           ELSE walk[n - 1][parent[k]]]
  IN walk[Cardinality(Categories)][c]

\* aclRoot for what is filed under the space, aclCategories for the rest: the owner
\* has every category that is there, whatever its rules.
MayRead(G, p) ==
  IF p = Root THEN RootAllowed(G) ELSE p \in Live /\ (owner \in G \/ Resolve(G, p))

-----------------------------------------------------------------------------
(* The tree *)

\* Bounds: the tree changes before the first group comes, and no more after it; one
\* synchronization at a time.
Planting == rows = {}
Planted == ~crossed /\ filed = Root /\ \A t \in Tasks : task[t].cat = Unset

\* What other requests have read of the tree is out of date.
Overtake(t, r) ==
  task' = [x \in Tasks |-> IF x = t THEN r
                          ELSE [task[x] EXCEPT !.stale = task[x].cat # Unset]]

\* createCategory: the parent is looked for, and the category inserted under it
\* whatever became of it meanwhile.
CheckCreate(t, p) ==
  /\ Doing(t, "idle") /\ Planting /\ p \in Live \cup {Root}
  /\ Proceed(t, [NoTask EXCEPT !.step = "create", !.cat = p])
  /\ UNCHANGED <<parent, filed, directory>> /\ UNCHANGED groupVars /\ UNCHANGED crossed

WriteCreate(t, c) ==
  /\ Doing(t, "create") /\ parent[c] = Unset
  /\ parent' = [parent EXCEPT ![c] = task[t].cat]
  /\ crossed' = (crossed \/ (task[t].stale /\ task[t].cat # Root))
  /\ Proceed(t, NoTask)
  /\ UNCHANGED <<filed, directory>> /\ UNCHANGED groupVars

\* Fault: a category is only kept from being its own parent.
Above_Self(c, p) == {p}

\* The categories that updateCategory walks through, in the tree as it was read: the
\* parent asked for, and what is above it.
Above(c, p) == Branch(p)

\* The parent is in this space.  A category without documents and children may also
\* leave for another space, which is not modelled.
CheckParent(t, c, p) ==
  /\ Doing(t, "idle") /\ Planting /\ c \in Live
  /\ p = Root \/ p \in Live
  /\ c \notin Above(c, p)
  /\ Proceed(t, [NoTask EXCEPT !.step = "move", !.cat = c, !.to = p])
  /\ UNCHANGED <<parent, filed, directory>> /\ UNCHANGED groupVars /\ UNCHANGED crossed

WriteParent(t) ==
  /\ Doing(t, "move")
  /\ LET c == task[t].cat
     IN parent' = [parent EXCEPT ![c] = IF Present(c) THEN task[t].to ELSE Gone]
  /\ crossed' = (crossed \/ task[t].stale)
  /\ Overtake(t, NoTask)
  /\ UNCHANGED <<filed, directory>> /\ UNCHANGED groupVars

\* deleteCategory reads the category, then in one transaction files its documents
\* under the space, gives its children the parent that was read, and marks it.
CheckDelete(t, c) ==
  /\ Doing(t, "idle") /\ Planting /\ c \in Live
  /\ Proceed(t, [NoTask EXCEPT !.step = "delete", !.cat = c, !.to = parent[c]])
  /\ UNCHANGED <<parent, filed, directory>> /\ UNCHANGED groupVars /\ UNCHANGED crossed

Adopted(c, p, k) == IF parent[k] = c THEN p ELSE parent[k]

\* Fault: its documents stay with it.
Refiled_Not(c) == filed

Refiled(c) == IF filed = c THEN Root ELSE filed

WriteDelete(t) ==
  /\ Doing(t, "delete")
  /\ LET c == task[t].cat IN
     /\ parent' = [k \in Categories |-> IF k = c THEN Gone ELSE Adopted(c, task[t].to, k)]
     /\ filed' = Refiled(c)
  /\ crossed' = (crossed \/ task[t].stale)
  /\ Overtake(t, NoTask)
  /\ UNCHANGED directory /\ UNCHANGED groupVars

\* PUT /documents/:id/category: the category is checked, then written if the
\* document is still where it was.
CheckFile(t, p) ==
  /\ Doing(t, "idle") /\ Planting /\ p \in Live \cup {Root}
  /\ Proceed(t, [NoTask EXCEPT !.step = "file", !.cat = p, !.from = filed])
  /\ UNCHANGED <<parent, filed, directory>> /\ UNCHANGED groupVars /\ UNCHANGED crossed

WriteFile(t) ==
  /\ Doing(t, "file")
  /\ IF filed = task[t].from
     THEN filed' = task[t].cat /\ crossed' = (crossed \/ task[t].stale)
     ELSE UNCHANGED <<filed, crossed>>
  /\ Proceed(t, NoTask)
  /\ UNCHANGED <<parent, directory>> /\ UNCHANGED groupVars

-----------------------------------------------------------------------------
(* Groups, rules and grants *)

\* createGroup by hand, or importGroup from the directory.
CreateGroup(g) ==
  /\ g \notin rows /\ Planted
  /\ rows' = rows \cup {g}
  /\ UNCHANGED <<linked, rules, grants, owner, directory, task>>
  /\ UNCHANGED treeVars /\ UNCHANGED crossed

ImportGroup(g) ==
  /\ g \in directory /\ g \notin linked /\ Planted
  /\ rows' = rows \cup {g} /\ linked' = linked \cup {g}
  /\ task' = [t \in Tasks |-> IF Doing(t, "search")
                             THEN [task[t] EXCEPT !.late = @ \cup {g}] ELSE task[t]]
  /\ UNCHANGED <<rules, grants, owner, directory>> /\ UNCHANGED treeVars /\ UNCHANGED crossed

\* deleteGroup, purgeSynchronizedGroups: the rules of the groups go with them, and
\* so do their grants and their ownership.
Forget(gs) ==
  /\ rows' = rows \ gs /\ linked' = linked \ gs
  /\ rules' = {r \in rules : r.group \notin gs}
  /\ grants' = grants \ gs
  /\ owner' = IF owner \in gs THEN Unset ELSE owner

DeleteGroups(gs) ==
  /\ gs # {} /\ (gs = linked \/ \E g \in rows : gs = {g})
  /\ Forget(gs)
  /\ UNCHANGED <<directory, task>> /\ UNCHANGED treeVars /\ UNCHANGED crossed

Room == Cardinality(rules) + Cardinality(grants) < MaxRules

Others(g, p) == {r \in rules : ~(r.group = g /\ r.place = p)}

\* createRule, updateRule and bulkAccessRules, or validFrom passes: one rule for a
\* group and a place.
SaveRule(g, p, read) ==
  /\ g \in rows /\ p \in Live \cup {Root}
  /\ Room \/ Others(g, p) # rules
  /\ rules' = Others(g, p) \cup {[group |-> g, place |-> p, read |-> read]}
  /\ UNCHANGED <<rows, linked, grants, owner, directory, task>>
  /\ UNCHANGED treeVars /\ UNCHANGED crossed

\* deleteRule, or validUntil passes.
EndRule(r) ==
  /\ r \in rules
  /\ rules' = rules \ {r}
  /\ UNCHANGED <<rows, linked, grants, owner, directory, task>>
  /\ UNCHANGED treeVars /\ UNCHANGED crossed

\* An approved access request gives its group a grant.
GrantAccess(g) ==
  /\ g \in rows \ grants /\ Room
  /\ grants' = grants \cup {g}
  /\ UNCHANGED <<rows, linked, rules, owner, directory, task>>
  /\ UNCHANGED treeVars /\ UNCHANGED crossed

SetOwner(o) ==
  /\ o \in rows \cup {Unset} /\ o # owner
  /\ owner' = o
  /\ UNCHANGED <<rows, linked, rules, grants, directory, task>>
  /\ UNCHANGED treeVars /\ UNCHANGED crossed

\* A grant's validUntil passes; the scheduler deletes the row.
GrantEnds(g) ==
  /\ g \in grants
  /\ grants' = grants \ {g}
  /\ UNCHANGED <<rows, linked, rules, owner, directory, task>>
  /\ UNCHANGED treeVars /\ UNCHANGED crossed

-----------------------------------------------------------------------------
(* Synchronization *)

\* The groups to look for are listed and the connection bound.
StartSync(t) ==
  /\ Doing(t, "idle") /\ linked # {} /\ \A x \in Tasks : ~Doing(x, "search")
  /\ Proceed(t, [NoTask EXCEPT !.step = "search", !.todo = linked])
  /\ UNCHANGED directory /\ UNCHANGED treeVars /\ UNCHANGED groupVars /\ UNCHANGED crossed

\* Fault: an error on one group passes for its absence.
Unanswered_Absent(t, g) == [task[t] EXCEPT !.todo = @ \ {g}]

Unanswered(t, g) == NoTask

\* One group is searched: found, absent, or the directory does not answer and the
\* synchronization ends.  A row deleted meanwhile ends it too.
Search(t, g) ==
  /\ Doing(t, "search") /\ g \in task[t].todo
  /\ \/ /\ g \in directory /\ g \in rows
        /\ Proceed(t, [task[t] EXCEPT !.todo = @ \ {g}, !.found = @ \cup {g}])
     \/ /\ g \in directory /\ g \notin rows
        /\ Proceed(t, NoTask)
     \/ /\ g \notin directory
        /\ Proceed(t, [task[t] EXCEPT !.todo = @ \ {g}, !.absent = @ \cup {g}])
     \/ Proceed(t, Unanswered(t, g))
  /\ UNCHANGED <<directory, crossed>> /\ UNCHANGED treeVars /\ UNCHANGED groupVars

\* The rows that were not found are removed.  A group imported during the search is
\* one of them.
RemoveStale(t) ==
  /\ Doing(t, "search") /\ task[t].todo = {}
  /\ Forget(linked \ task[t].found)
  /\ Proceed(t, NoTask)
  /\ UNCHANGED <<directory, crossed>> /\ UNCHANGED treeVars

\* The directory loses a group or its name, or gets it.
DirectoryChanges(g) ==
  /\ directory' = IF g \in directory THEN directory \ {g} ELSE directory \cup {g}
  /\ UNCHANGED task /\ UNCHANGED treeVars /\ UNCHANGED groupVars /\ UNCHANGED crossed

-----------------------------------------------------------------------------
AccessNext ==
  \/ \E t \in Tasks, p \in Places : CheckCreate(t, p)
  \/ \E t \in Tasks, c \in Categories : WriteCreate(t, c)
  \/ \E t \in Tasks, c \in Categories, p \in Places : CheckParent(t, c, p)
  \/ \E t \in Tasks, c \in Categories : CheckDelete(t, c)
  \/ \E t \in Tasks, p \in Places : CheckFile(t, p)
  \/ \E t \in Tasks : WriteParent(t) \/ WriteDelete(t) \/ WriteFile(t)
  \/ \E g \in Groups : CreateGroup(g) \/ ImportGroup(g) \/ GrantAccess(g) \/ GrantEnds(g)
                         \/ DirectoryChanges(g)
  \/ \E gs \in SUBSET rows : DeleteGroups(gs)
  \/ \E g \in Groups, p \in Places, read \in BOOLEAN : SaveRule(g, p, read)
  \/ \E r \in rules : EndRule(r)
  \/ \E o \in Groups \cup {Unset} : SetOwner(o)
  \/ \E t \in Tasks : StartSync(t) \/ RemoveStale(t)
  \/ \E t \in Tasks, g \in Groups : Search(t, g)

AccessSpec == AccessInit /\ [][AccessNext]_accessVars

-----------------------------------------------------------------------------
(* Properties *)

\* The types of the rows, and what the database keeps true of them: rules, grants and
\* the owner refer to groups that exist, and a group has one rule for a place.
AccessTypeOK ==
  /\ parent \in [Categories -> Places \cup {Unset, Gone}]
  /\ filed \in Places /\ directory \subseteq Groups
  /\ linked \subseteq rows /\ rows \subseteq Groups /\ grants \subseteq rows
  /\ owner \in rows \cup {Unset}
  /\ rules \subseteq Rules
  /\ \A r, q \in rules : r.group = q.group /\ r.place = q.place => r = q
  /\ \A r \in rules : r.group \in rows
  /\ crossed \in BOOLEAN

\* The categories form a tree under the space (controllers.ts, createCategory,
\* updateCategory and deleteCategory), as long as no change was checked against a
\* tree that another request then changed.  A cycle would make the check of a later
\* change run forever, and a category under a deleted one is out of everybody's reach.
TreeSound ==
  crossed \/ \A c \in Live : parent[c] \in Live \cup {Root} /\ Root \in Branch(c)

\* A document is never filed under a category that was deleted, where nobody would
\* see it (controllers.ts, deleteCategory and updateCategory), with the same
\* reservation.
DocumentFiled == crossed \/ filed \in Live \cup {Root}

\* Every category and every document of the space can be reached from it.
FilingSound == TreeSound /\ DocumentFiled

\* The rule nearest to a category decides, alone, and without any the space does
\* (category-permissions.ts, resolveCategories): the walk of the code agrees with
\* the definition on the tree, with the reservation of TreeSound.
NearestRuleDecides ==
  \A G \in SUBSET Groups, c \in Live :
    LET ruled == {k \in Branch(c) \cap Live : Overrides(k)}
        nearest == {k \in ruled : \A j \in ruled : k \in Branch(j) => j = k}
    IN ~crossed => (Resolve(G, c) <=> IF ruled = {} THEN RootAllowed(G)
                                      ELSE \E k \in nearest : Grants(G, k))

\* A synchronization removes only the groups the directory did not have, or not under
\* a name, when it searched them (directory.service.ts, synchronize), and those imported while it
\* ran.  A directory that fails to answer costs no group its rules.
SyncRemovesAbsent ==
  \A t \in Tasks : RemoveStale(t) =>
    linked \ linked' \subseteq task[t].absent \cup task[t].late

Ends == \/ \E r \in rules : EndRule(r)
        \/ \E g \in Groups : GrantEnds(g)
        \/ \E t \in Tasks : RemoveStale(t)

\* When a rule or a grant ends, or a synchronization removes a group, nobody gains
\* the reading of a category, except below one that lost its last rule and inherits
\* again (authorization.service.ts, permittedSpacesFor).
OnlyLastRuleWidens ==
  Ends => \A G \in SUBSET Groups, p \in Live \cup {Root} :
    ~MayRead(G, p) /\ MayRead(G, p)' =>
      \E c \in Branch(p) \cap Live : Overrides(c) /\ ~Overrides(c)'

\* What ends by itself or by a synchronization takes what it should and gives
\* nothing: no group the directory has, and no access but by inheritance.
RemovalsSound == [][SyncRemovesAbsent /\ OnlyLastRuleWidens]_accessVars
=============================================================================
