----------------------------- MODULE MapPickers -----------------------------
(***************************************************************************)
(* The filters of the web application and the modes in which a click on    *)
(* the map gives one of them its area (web/src/App.tsx,                    *)
(* components/query/QueryBuilder.tsx): a point, a drawn polygon, or an     *)
(* airspace, which the server looks up at the place of the click while the *)
(* user goes on, and which is chosen from a menu where there are several.  *)
(*                                                                         *)
(* A filter is its shape and what it holds for one; the other conditions   *)
(* of a filter (with shape "none" its only ones), nested groups and        *)
(* negation only pass through the same calls and are left out.  Places,    *)
(* polygons and airspaces are names.  An option (null in the code) is a    *)
(* set of at most one value.  React renders between any two steps, so that *)
(* each handler sees the state it acts on.                                 *)
(* The operators named Bug... are faulty variants, each a mistake the code *)
(* could have made: the properties are checked to notice them.             *)
(***************************************************************************)
EXTENDS Integers, FiniteSets

CONSTANTS
    Places,      \* where the map can be clicked
    Drawn,       \* the polygons that can be drawn
    At,          \* the airspaces that the server finds at a place
    MaxFilters,  \* bounds of the model: filters that are added,
    MaxEdits,    \* changes to them by the user,
    MaxLookups   \* airspaces that are asked for

Shapes == {"circle", "polygon", "viewport", "airspace"}

VARIABLES
    group,            \* rootGroup: its identity, the ids made, the filters by id
    picking,          \* pickingId
    drawing,          \* drawingId
    airspacePicking,  \* airspacePickingId
    menu,             \* airspaceMenu: where it was opened, for which filter, candidates
    lookups,          \* requests for airspaces that are under way
    looked            \* how many there have been

modes   == <<picking, drawing, airspacePicking, menu>>
pickers == <<group, modes, lookups, looked>>

None == {}

Filter(shape) == [shape |-> shape, spot |-> None, polygon |-> None]

PickersInit ==
    /\ group = [version |-> 0, made |-> 1, filters |-> [p \in {1} |-> Filter("viewport")]]
    /\ picking = None /\ drawing = None /\ airspacePicking = None /\ menu = None
    /\ lookups = {} /\ looked = 0

-----------------------------------------------------------------------------
(* The filters.  Every change makes a new group, even one to a filter that *)
(* is there no more.                                                       *)

Ids == DOMAIN group.filters

PutFilters(filters) == [group EXCEPT !.version = @ + 1, !.filters = filters]

UpdatePredInGroup(p, filter) ==
    PutFilters([q \in Ids |-> IF q = p THEN filter ELSE group.filters[q]])

CanEdit == group.version < MaxEdits

AddFilter(shape) ==
    /\ CanEdit /\ group.made < MaxFilters
    /\ LET id == group.made + 1
       IN  group' = [PutFilters([q \in Ids \cup {id} |-> IF q = id THEN Filter(shape)
                                                          ELSE group.filters[q]])
                        EXCEPT !.made = id]
    /\ UNCHANGED <<modes, lookups, looked>>

RemoveFilter(p) ==
    /\ CanEdit
    /\ group' = PutFilters([q \in Ids \ {p} |-> group.filters[q]])
    /\ UNCHANGED <<modes, lookups, looked>>

SetShape(p, shape) ==
    /\ CanEdit /\ group.filters[p].shape # shape
    /\ group' = UpdatePredInGroup(p, [group.filters[p] EXCEPT !.shape = shape])
    /\ UNCHANGED <<modes, lookups, looked>>

IsPredValid(f) ==
    CASE f.shape = "viewport" -> TRUE
      [] f.shape = "circle"   -> f.spot # None
      [] OTHER                -> f.polygon # None

IsGroupValid == \A p \in Ids : IsPredValid(group.filters[p])

-----------------------------------------------------------------------------
(* The modes.  The button of a filter arms its mode or, when it is armed,  *)
(* disarms it; all other modes end.                                        *)

Toggled(mode, p) == IF mode = {p} THEN None ELSE {p}

ArmPicker(p) ==
    /\ group.filters[p].shape = "circle"
    /\ picking' = Toggled(picking, p)
    /\ drawing' = None /\ airspacePicking' = None /\ menu' = None
    /\ UNCHANGED <<group, lookups, looked>>

ArmDraw(p) ==
    /\ group.filters[p].shape = "polygon"
    /\ drawing' = Toggled(drawing, p)
    /\ picking' = None /\ airspacePicking' = None /\ menu' = None
    /\ UNCHANGED <<group, lookups, looked>>

ArmAirspacePicker(p) ==
    /\ group.filters[p].shape = "airspace"
    /\ airspacePicking' = Toggled(airspacePicking, p)
    /\ picking' = None /\ drawing' = None /\ menu' = None
    /\ UNCHANGED <<group, lookups, looked>>

(* A click on the map: the airspace picker comes first, then the point.    *)
HandlePickPoint(place) ==
    /\ CanEdit /\ airspacePicking = None
    /\ \E p \in picking :
          group' = UpdatePredInGroup(p, [group.filters[p] EXCEPT !.spot = {place}])
    /\ picking' = None
    /\ UNCHANGED <<drawing, airspacePicking, menu, lookups, looked>>

HandleDrawComplete(polygon) ==
    /\ CanEdit
    /\ \E p \in drawing :
          group' = UpdatePredInGroup(p, [group.filters[p] EXCEPT !.polygon = {polygon}])
    /\ drawing' = None
    /\ UNCHANGED <<picking, airspacePicking, menu, lookups, looked>>

(* The menu opens at once, without candidates, and they are asked for. *)
HandlePickAirspace(place) ==
    /\ looked < MaxLookups
    /\ \E p \in airspacePicking :
          /\ menu' = {[place |-> place, pred |-> p, candidates |-> None]}
          /\ lookups' = lookups \cup {[n |-> looked + 1, place |-> place, pred |-> p]}
    /\ looked' = looked + 1
    /\ airspacePicking' = None
    /\ UNCHANGED <<group, picking, drawing>>

ApplyAirspace(p, airspace) ==
    group' = UpdatePredInGroup(p, [group.filters[p] EXCEPT !.shape = "airspace", !.polygon = {airspace}])

BugOpenAgain(l) == {[place |-> l.place, pred |-> l.pred, candidates |-> {At[l.place]}]}

(* setAirspaceMenu((m) => (m ? { ...m, candidates } : null)) *)
WithCandidates(l) == {[m EXCEPT !.candidates = {At[l.place]}] : m \in menu}

(* The answer: none closes the menu, one is taken, several fill the menu   *)
(* that is open by then.                                                   *)
LookupAnswers(l) ==
    /\ lookups' = lookups \ {l}
    /\ IF Cardinality(At[l.place]) > 1
       THEN menu' = WithCandidates(l) /\ UNCHANGED group
       ELSE /\ menu' = None
            /\ IF At[l.place] = {} THEN UNCHANGED group
               ELSE \E airspace \in At[l.place] : ApplyAirspace(l.pred, airspace)
    /\ UNCHANGED <<picking, drawing, airspacePicking, looked>>

LookupFails(l) ==
    /\ lookups' = lookups \ {l}
    /\ menu' = None
    /\ UNCHANGED <<group, picking, drawing, airspacePicking, looked>>

ChooseAirspace(airspace) ==
    /\ CanEdit
    /\ \E m \in menu : airspace \in UNION m.candidates /\ ApplyAirspace(m.pred, airspace)
    /\ menu' = None
    /\ UNCHANGED <<picking, drawing, airspacePicking, lookups, looked>>

DismissMenu ==
    /\ menu # None
    /\ menu' = None
    /\ UNCHANGED <<group, picking, drawing, airspacePicking, lookups, looked>>

PickersNext ==
    \/ \E shape \in {"circle", "polygon"} : AddFilter(shape)
    \/ \E p \in Ids : \/ RemoveFilter(p)
                      \/ ArmPicker(p) \/ ArmDraw(p) \/ ArmAirspacePicker(p)
                      \/ \E shape \in Shapes : SetShape(p, shape)
    \/ \E place \in Places : HandlePickPoint(place) \/ HandlePickAirspace(place)
    \/ \E polygon \in Drawn : HandleDrawComplete(polygon)
    \/ \E l \in lookups : LookupAnswers(l) \/ LookupFails(l)
    \/ \E airspace \in UNION {At[place] : place \in Places} : ChooseAirspace(airspace)
    \/ DismissMenu

-----------------------------------------------------------------------------
(* A click on the map serves one filter in one mode: at most one of the    *)
(* modes is on, whatever is armed while airspaces are looked up and        *)
(* whenever they arrive (App.tsx lines 391-410 and 412-475).               *)
OneMode ==
    /\ \A m \in 1..4 : \A x, y \in modes[m] : x = y
    /\ \A m, n \in 1..4 : modes[m] # None /\ modes[n] # None => m = n

(* The candidates in the menu are those of the place where it was opened.  *)
(* Refuted: a lookup is not aborted by a later one, whose menu its answer  *)
(* then fills (App.tsx line 468).                                          *)
MenuOfItsPlace == \A m \in menu : m.candidates \subseteq {At[m.place]}
=============================================================================
