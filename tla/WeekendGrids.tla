----------------------------- MODULE WeekendGrids -----------------------------
(* A race weekend with a qualifying session q, two heats a and b that take    *)
(* their drivers from it, and a final f that takes its drivers from the heats *)
(* (race_weekend_manager.go: UpdateGrid, UpdateSessionSorting, PreviewGrid,   *)
(* StartSession).  No grid is stored: whenever one is wanted, all the         *)
(* sessions before are gone through again, with the filters of the moment.    *)
EXTENDS GridFilter

CONSTANTS Weekends,     \* weekends: what GridFilter has, and list, options
          LinksGiven,   \* [from, to, filter]: what an administrator may set
          SortingGiven, \* [session, sort, reverse]
          Outcomes,     \* what may happen in a session
          Raced(_, _, _),\* the results file of a session, a grid, an outcome
          MaxEdits      \* bound on the administrator's changes

Base == "w"
Sessions == {"q", "a", "b", "f"}
Parents == [q |-> <<Base>>, a |-> <<"q">>, b |-> <<"q">>, f |-> <<"a", "b">>]

VARIABLES rw,       \* the weekend
          links,    \* [from, to] -> filter, where one was set
          sorting,  \* session -> [sort, reverse]
          run,      \* session -> [grid, with, results, completed, ...]
          edits     \* how often something was changed

gvars == <<rw, links, sorting, run, edits>>

NoResults == [type |-> "none", laps |-> <<>>, events |-> <<>>, cars |-> <<>>, result |-> <<>>]
NotRun == [started |-> FALSE, grid |-> <<>>, wanted |-> {}, with |-> <<>>, fixed |-> FALSE,
           completed |-> FALSE, results |-> NoResults]

GridInit ==
  /\ rw \in Weekends
  /\ links = <<>>
  /\ sorting = [s \in Sessions |-> [sort |-> "", reverse |-> 0]]
  /\ run = [s \in Sessions |-> NotRun]
  /\ edits = 0

(* The dummy session that stands for the entry list of the weekend.           *)
Session(s) ==
  IF s = Base THEN [id |-> Base, type |-> "", completed |-> TRUE, results |-> NoResults, sort |-> "",
                    reverse |-> 0, base |-> TRUE]
  ELSE [id |-> s, type |-> IF s = "q" THEN "QUALIFY" ELSE Race, completed |-> run[s].completed,
        results |-> run[s].results, sort |-> sorting[s].sort, reverse |-> sorting[s].reverse, base |-> FALSE]

CanBeRun(s) == \A p \in (IF s = Base THEN {} ELSE Range(Parents[s]) \ {Base}) : run[p].completed

GetFilterOrUseDefault(p, s) ==
  IF <<p, s>> \in DOMAIN links THEN links[<<p, s>>]
  ELSE DefaultFilter(IF p # Base /\ run[p].completed THEN Len(run[p].results.cars) ELSE Len(rw.list))

(* The entry list of the weekend as one of its sessions.                      *)
FromEntryList ==
  [k \in DOMAIN rw.list |->
     LET e == rw.list[k] IN
     [car |-> [guid |-> {e.guid}, guids |-> <<e.guid>>, name |-> e.guid, model |-> e.model, id |-> k - 1],
      guid |-> {e.guid}, model |-> e.model, best |-> 0, total |-> 0, class |-> 0, res |-> NoResults,
      sid |-> Base, pit |-> k - 1, placeholder |-> e.placeholder, setup |-> ""]]

(* What the sessions before s give it, with their filters; over is the filter  *)
(* to use for one of them, if any.                                            *)
RECURSIVE EntryLists(_, _)
Finishing(p) == {FinishingGrid(rw, Session(p), l) : l \in EntryLists(p, <<>>)}

FilterOf(p, s, over) == IF over # <<>> /\ over[1] = p THEN over[2] ELSE GetFilterOrUseDefault(p, s)
From(p, s, over) ==
  {<<[session |-> Session(p), grid |-> g, filter |-> FilterOf(p, s, over)]>> : g \in Finishing(p)}
FromBase == <<[session |-> Session(Base), grid |-> FromEntryList, filter |-> DefaultFilter(Len(rw.list))]>>

GridsBefore(s, over) ==
  IF s = Base THEN {FromBase} ELSE Concatenations([k \in DOMAIN Parents[s] |-> From(Parents[s][k], s, over)])

EntryLists(s, over) ==
  UNION {GetRaceWeekendEntryList(rw, Session(s), ps, CanBeRun(s)) : ps \in GridsBefore(s, over)}

Brief(list) == [k \in DOMAIN list |-> [guid |-> list[k].guid, pit |-> list[k].pit, class |-> list[k].class,
                                       sid |-> list[k].sid, model |-> list[k].model, setup |-> list[k].setup]]

(* An EntryList is a map by pit box: who comes later replaces who was there.  *)
AsEntryList(list) ==
  SelectSeq(list, LAMBDA e : e = LastOr(list, LAMBDA o : o.pit = e.pit, e))

(* What the page shows for a session with a filter that may not be saved.     *)
PreviewGrid(p, s, f) == {ByPitBox(l) : l \in EntryLists(s, <<p, [f EXCEPT !.preview = TRUE]>>)}

------------------------------------------------------------------------------
(* The page offers classes for a weekend of a championship (GetAvailable-     *)
(* SplitTypes).  A bound: it is the link of a session that has not started.   *)
UpdateGrid(l) ==
  /\ edits < MaxEdits /\ ~run[l.to].started /\ (l.filter.split = "Championship Class" => rw.linked)
  /\ links' = [x \in DOMAIN links \cup {<<l.from, l.to>>} |-> IF x = <<l.from, l.to>> THEN l.filter ELSE links[x]]
  /\ edits' = edits + 1
  /\ UNCHANGED <<rw, sorting, run>>

UpdateSessionSorting(u) ==
  /\ edits < MaxEdits /\ ~run[u.session].started
  /\ sorting' = [sorting EXCEPT ![u.session] = [sort |-> u.sort, reverse |-> u.reverse]]
  /\ edits' = edits + 1
  /\ UNCHANGED <<rw, links, run>>

(* Whether the grids up to this session come out the same each time: nothing  *)
(* is drawn by lot; the classes of a session before all have best laps, no    *)
(* two the same, by which they follow each other; and all who were to drive   *)
(* in it have results, or else those grids do.                                *)
Ordered(es) ==
  \A i, j \in DOMAIN es :
    es[i].class # es[j].class => /\ BestOfClass(es, es[i].class) > 0
                                /\ BestOfClass(es, es[i].class) # BestOfClass(es, es[j].class)
RECURSIVE Fixed(_)
Fixed(s) ==
  /\ sorting[s].sort # "random"
  /\ \A p \in Range(Parents[s]) :
       /\ GetFilterOrUseDefault(p, s).sort # "random"
       /\ p # Base => \A g \in Finishing(p) :
                        Ordered(g) /\ (Fixed(p) \/ \A k \in DOMAIN g : Some(run[p].results.result, LAMBDA q : q.guid = g[k].guid /\ ~q.disq))
  /\ \A ps \in GridsBefore(s, <<>>) : \A l \in Joined(rw, Session(s), ps) : Ordered(l)

(* One session at a time is on the server.                                    *)
StartSession(s) ==
  /\ ~run[s].started /\ CanBeRun(s) /\ \A t \in Sessions : run[t].started => run[t].completed
  /\ \E list \in EntryLists(s, <<>>) :
       LET grid == StartingList(AsEntryList(list), rw.options) IN
       run' = [run EXCEPT ![s] = [@ EXCEPT !.started = TRUE, !.grid = Brief(grid),
                                           !.wanted = {list[k].guid : k \in DOMAIN list},
                                           !.with = [k \in DOMAIN Parents[s] |-> GetFilterOrUseDefault(Parents[s][k], s)],
                                           !.fixed = Fixed(s)]]
  /\ UNCHANGED <<rw, links, sorting, edits>>

(* acServer, and the end of the session in UDPCallback.                       *)
FinishSession(s, o) ==
  /\ run[s].started /\ ~run[s].completed
  /\ run' = [run EXCEPT ![s] = [@ EXCEPT !.completed = TRUE, !.results = Raced(Session(s), run[s].grid, o)]]
  /\ UNCHANGED <<rw, links, sorting, edits>>

GridNext ==
  \/ \E l \in LinksGiven : UpdateGrid(l)
  \/ \E u \in SortingGiven : UpdateSessionSorting(u)
  \/ \E s \in Sessions : StartSession(s)
  \/ \E s \in Sessions, o \in Outcomes : FinishSession(s, o)

------------------------------------------------------------------------------
Drivers == {rw.list[k].guid : k \in {n \in DOMAIN rw.list : ~rw.list[n].placeholder}}
OnGrid(s) == {run[s].grid[k].guid : k \in DOMAIN run[s].grid}

Complementary(fa, fb) ==
  \/ /\ fa.split = "Numeric" /\ fb.split = "Numeric" /\ fa.sort = fb.sort /\ fa.reverse = fb.reverse
     /\ fa.from = 1 /\ fb.from = fa.to + 1 /\ fb.to >= Len(rw.list)
  \/ fa.split = "Championship Class" /\ fb.split = "Championship Class"
     /\ fa.classes \cap fb.classes = {} /\ fa.classes \cup fb.classes = Range(rw.classOf)

(* Two heats that split the field have every driver on the grid of one of     *)
(* them, though each computes the order of the qualifying by itself: when     *)
(* nothing is drawn by lot.                                                   *)
HeatsPartition ==
  (/\ run.a.started /\ run.b.started /\ run.a.fixed /\ run.b.fixed
   /\ Complementary(run.a.with[1], run.b.with[1]))
    => OnGrid("a") \cap OnGrid("b") = {} /\ OnGrid("a") \cup OnGrid("b") = {{d} : d \in Drivers}

(* Every driver the filters let through starts, once, in a pit box of his     *)
(* own, also when two sessions send the same driver or the same pit box.      *)
EveryoneStarts ==
  \A s \in Sessions :
    run[s].started =>
      /\ OnGrid(s) = {g \in run[s].wanted : \E d \in Drivers : g = {d}}
      /\ Cardinality({run[s].grid[k].pit : k \in DOMAIN run[s].grid}) = Cardinality(OnGrid(s))
      /\ Len(run[s].grid) = Cardinality(OnGrid(s))

Classified(p) ==
  LET rows == run[p].results.result
  IN  {rows[k].guid : k \in {n \in DOMAIN rows : ~rows[n].disq /\ rows[n].total # 0}}

(* What a session takes over from a heat in the order of the heat.            *)
Plain(s, f) ==
  /\ f.split # "Manual Driver Selection" /\ f.sort # "championship_standings_order"
  /\ sorting[s].sort # "championship_standings_order"
  /\ s = "f" => f.sort = "" /\ f.reverse = 0 /\ sorting[s].sort = "" /\ sorting[s].reverse = 0

(* Of two drivers of a class who come from the same session, one who was      *)
(* classified starts before one who was not there, was disqualified or drove  *)
(* no lap.  In the final only when the order of the heats is kept: a sort     *)
(* goes by the results that the other has from the qualifying.                *)
FinishersAhead ==
  \A s \in Sessions \ {"q"} :
    \A i, j \in DOMAIN run[s].grid :
      LET x == run[s].grid[i]  y == run[s].grid[j]  p == x.sid IN
      (/\ run[s].started /\ x.sid = y.sid /\ x.class = y.class
       /\ \A k \in DOMAIN run[s].with : Plain(s, run[s].with[k])
       /\ x.guid \in Classified(p) /\ y.guid \notin Classified(p))
      => x.pit < y.pit

(* A session starts with the grid that the page shows for it, though each is  *)
(* computed by itself.                                                        *)
OnPage(list) == LET real == SelectSeq(list, LAMBDA e : ~e.placeholder) IN [k \in DOMAIN real |-> real[k].guid]
PreviewHolds ==
  \A s \in Sessions : ~run[s].started /\ CanBeRun(s) /\ Fixed(s) =>
    \A list \in EntryLists(s, <<>>), p \in Range(Parents[s]) :
      \A preview \in PreviewGrid(p, s, GetFilterOrUseDefault(p, s)) : OnPage(preview) = OnPage(AsEntryList(list))
==============================================================================
