----------------------------- MODULE RouteGroups -----------------------------
(***************************************************************************)
(* Registration of handlers on groups of routes (bot.go 585-760).          *)
(*                                                                         *)
(* On().Group(...) makes a group of routes with middlewares of its own by  *)
(* append, so groups are slices: an array, which several may share, and a  *)
(* length.  Do copies the handlers of a route out of its group's slice.    *)
(***************************************************************************)
EXTENDS Integers, Sequences, FiniteSets

CONSTANTS
    Keys,       \* routes: commands, texts, states, callbacks, kinds of updates
    SystemKeys, \* those of callbacks "_sys_...", to which handlers are added
    MaxGroups,  \* bound: groups
    MaxAdded    \* bound: middlewares given to one Group

VARIABLES
    groups, \* the groups' slices: number of the array, length
    arrays, \* the arrays: their cells, 0 where nothing is yet
    told,   \* history: the middlewares each group was made with, the outer groups' first
    routes, \* per route the middlewares in front of its handlers
    owners  \* history: per route the groups it was registered on

groupVars == <<groups, arrays, told, routes, owners>>

-----------------------------------------------------------------------------
\* Go's append: the capacity for n elements behind a slice of capacity c.
Grown(c, n) ==
    LET wanted == IF n > 2 * c THEN n ELSE 2 * c
    IN  IF wanted > 4 /\ wanted % 2 = 1 THEN wanted + 1 ELSE wanted

Cells(g) == SubSeq(arrays[groups[g].array], 1, groups[g].len)

InitGroups ==
    /\ groups = <<[array |-> 1, len |-> 0]>>     \* On()
    /\ arrays = <<<<>>>>
    /\ told = <<<<>>>>
    /\ routes = [k \in Keys |-> <<>>]
    /\ owners = [k \in Keys |-> <<>>]

\* Group(middlewares...): append writes behind the parent's elements, in place when
\* the array has room there.
Group ==
    /\ Len(groups) <= MaxGroups
    /\ \E g \in DOMAIN groups, k \in 1..MaxAdded :
          LET slice == groups[g]
              cells == arrays[slice.array]
              n == slice.len + k
              new == [i \in 1..k |-> 10 * Len(groups) + i]
              filled == [i \in 1..Len(cells) |-> IF i \in (slice.len + 1)..n THEN new[i - slice.len] ELSE cells[i]]
          IN  /\ IF n <= Len(cells)
                 THEN /\ arrays' = [arrays EXCEPT ![slice.array] = filled]
                      /\ groups' = Append(groups, [array |-> slice.array, len |-> n])
                 ELSE /\ arrays' = Append(arrays, [i \in 1..Grown(Len(cells), n) |->
                                                     IF i > n THEN 0
                                                     ELSE IF i > slice.len THEN new[i - slice.len] ELSE cells[i]])
                      /\ groups' = Append(groups, [array |-> Len(arrays'), len |-> n])
              /\ told' = Append(told, told[g] \o new)
    /\ UNCHANGED <<routes, owners>>

\* Do: the group's middlewares as they are now, in front of the handlers.  A system
\* callback is added behind those that are there, any other route is replaced.
Do ==
    /\ \E g \in DOMAIN groups, k \in Keys :
          LET before == IF k \in SystemKeys THEN routes[k] ELSE <<>>
              others == IF k \in SystemKeys THEN owners[k] ELSE <<>>
          IN  /\ g \notin {owners[k][i] : i \in DOMAIN owners[k]}
              /\ routes' = [routes EXCEPT ![k] = Append(before, Cells(g))]
              /\ owners' = [owners EXCEPT ![k] = Append(others, g)]
    /\ UNCHANGED <<groups, arrays, told>>

GroupsNext == Group \/ Do

GroupsSpec == InitGroups /\ [][GroupsNext]_groupVars

-----------------------------------------------------------------------------
\* "Group creates a nested routing sub-group with its own private middlewares": a
\* route runs the middlewares of the group it was registered on and of those around it.
PrivateMiddlewares ==
    \A k \in Keys : \A i \in DOMAIN owners[k] : routes[k][i] = told[owners[k][i]]
=============================================================================
