# Ion3 in TLA+

Ion3 is a tiling, tabbing window manager for X.  Its C code is single
threaded, but hardly anything in it happens in one step: events of the X
server arrive late and out of date, actions are deferred to the main loop,
signals interrupt it, hooks and handlers call back into the code that called
them, and any object may be destroyed under anybody who holds a pointer to it.
The modules here model the parts of the program where this matters, TLC checks
them on small instances, and TLAPS proves the most important properties for
instances of any size.

`PROJECT.json` lists the components, the runs, the mutants (a changed
definition for each property, under which TLC finds the property violated),
the source lines of each definition, the hazards and the theorems.

To check: `tlc -workers 2 -config X.cfg MCX` for the runs and
`tlapm XProofs.tla` for the proofs.  A run takes seconds to three minutes on
two cores, a proof module at most two minutes, but
`GrabsProofs` about three and `ClientsProofs` about five.

## The system

### Components

| Component | Where | State it keeps | Operations | Modelled in |
|---|---|---|---|---|
| Objects and watches, deferred actions | `libtu/obj.c`, `libmainloop/defer.c` | watch lists; list of deferrals, static buffer with its mask | create, destroy, `mainloop_defer_*`, `mainloop_execute_deferred` | `ObjWatches`, `Deferred` |
| Object lists, tags | `libtu/objlist.c`, `ioncore/tags.c` | watched lists, tag flags | insert, remove, take first | `ObjList`, `Tags` |
| Activity, managers | `ioncore/activity.c`, part of `region.c` | counts and flags in regions, activity list, managers | set, unset, focus, manager changes | `Activity` |
| Timers, signals, waiting | `libmainloop/signal.c`, `select.c`, `ioncore/event.c` | timer queue, signal flags, `ITIMER_REAL` | set, reset, handlers, `mainloop_select` | `TimeVals`, `Timers` |
| Input focus | `ioncore/focus.c`, `eventh.c`, `window.c`, `region.c` | active flags, `active_sub`, `focus_next`, await watch, focus list | events, requests, flush, goto | `Focus` |
| Multiplexers, placeholders | `ioncore/mplex.c`, `mplexpholder.c`, `llist.c`, `frame.c` | list, current region, placeholders, mapped windows | attach, remove, switch, rescue, recreate | `PlaceLine`, `MPlex` |
| Groups, stacking | `ioncore/group.c`, `group-cw.c`, `grouppholder.c`, `stacking.c` | members, bottom, a window's stacking list, placeholders | attach, detach, raise, dispose, rescue | `Stacking`, `Groups` |
| Return, full screen | `ioncore/return.c`, `fullscreen.c`, `detach.c`, `pholder.c` | return placeholders | go full screen and back, detach, reattach | `Groups`, `MPlex`, `Clients` |
| Grabs and modes | `ioncore/grab.c`, `key.c`, `pointer.c`, `kbresize.c`, `presize.c`, `tabdrag`, `mod_menu/grabmenu.c` | stack of grabs, entered submaps, pressed region, resize mode and its timer | keys, Escape, buttons, drags, timeouts | `Grabs` |
| Client windows | `ioncore/clientwin.c`, `manage.c`, `netwm.c`, `property.c` | X window, its state as it was told, event masks, parents | manage, unmap, destroy, hide, move, configure, exit | `Clients` |
| Session management | `mod_sm/`, `ioncore/exec.c` | connection, `save_complete_fn`, `sent_save_done` | requests, the conversation with the session manager | `Session` |
| The saved layout | `ioncore/saveload.c`, part of `clientwin.c`, `mod_sm/sm_matchwin.c` | file, check codes, matches | save, load, match | `Layout` |
| Tilings | `mod_tiling/` | split tree, status display | split, remove, resize, flip, transpose, rotate, (un)sink, load | `Paths`, `SplitTree`, `SplitStdisp`, `FrameTree`, `Tiling` |
| Queries and the line editor | `mod_query/` | text, cursor, mark, history ring, listing of completions, waiting id, timer | editing, browsing, completing, finishing | `LineEdit`, `QueryHistory`, `RecentList`, `Query` |
| Hooks, descriptors, children's pipes, names, bindings, menus, dock, status bar, scratchpad, geometry, drawing, Lua bridge, libraries, start-up, scripts | the rest | | | no |

### How they interact

* The **main loop** (`ioncore/event.c:218`) is the scheduler: check signals
  (hooks, children, timers), run deferred actions, handle one X event, and
  when there is none flush the focus request and sleep.  Everything else is
  called from there.  Grabs and button presses have inner loops of their own.
* **Ownership** is by parent (X windows), by manager (who decides about focus,
  place and visibility) and by placeholders (who remember a place).  A region
  is moved by a manager making a placeholder, the old manager forgetting the
  region (`region_managed_remove`) and the placeholder attaching it.
* **Weak references** are watches: lists, deferrals, timers, grabs, the focus
  wait and Lua's proxies all hold one, and `destroy_obj` calls their handlers
  before the object's own `deinit`.
* **Notifications** are hooks, and a hook may call anything.
* **The X server**, the **session manager** and the **completors** of a query
  are others' programs: requests take effect later, what they tell is of a
  state that has passed, and windows of clients go at any time.

### What is hard, and what makes each part correct

* *Deferred actions*: no deferral is leaked, used twice, doubled, or run on an
  object that is gone; a flag that says one is pending is never left set.
* *Tags and lists*: a region on the list exists and says so; order is kept.
* *Activity*: the count of a manager is exact while flags, managers, focus and
  existence change in any order.
* *Timers*: the alarm stands for the earliest timer in every state; nothing is
  slept through; timers fire, and not early.
* *Focus*: the window manager's idea of the focus agrees with the server's
  whenever both are quiet; requests survive stale events; focus that a client
  drops comes back.
* *Multiplexer*: nothing on the list moves unless it was asked to; one region
  of the exclusive list is shown; a region returns between its neighbours.
* *Groups*: a group's members, the window's stacking list and the placeholders
  agree; what is modal keeps the focus; what went full screen comes back.
* *Grabs*: grabs are taken off in whatever order what they stand for ends; a
  mode lasts exactly as long as what ends it can come.
* *Client windows*: server and window manager come to agree about each window,
  and a window manager that ends takes none along.
* *Session*: every save is answered once, what is done on completion is what
  was asked for last, windows come back to their places.
* *Tilings*: the parts of a split divide its area exactly, the status display
  stays in its corner, and the frames' tree changes only where it was told to.
* *Queries*: answers come late, and meanwhile the text, the list and the
  history change; each refers to the others by position.

## The modules

```
Lists, ListLemmas            sequences of distinct elements
ObjWatches                   watch lists, the stack of destroy_obj
  Deferred                   + MainLoopProofs, MCDeferred
ObjList                      watched object lists with dead nodes
  Tags                       + MainLoopProofs, MCTags
  Activity                   + DialogueProofs, MCActivity
TimeVals                     arithmetic of struct timeval
  Timers                     + MainLoopProofs, MCTimers
Focus                        + FocusProofs, MCFocus
PlaceLine                    abstract: what a multiplexer's list promises
  MPlex                      implements PlaceLine; + MPlexProofs, MCMPlex
Stacking                     the stacking list of a window
  Groups                     + GroupsProofs, MCGroups
Grabs                        + GrabsProofs, MCGrabs
Clients                      + ClientsProofs, MCClients
Layout                       what is saved and found again
  Session                    + MainLoopProofs, MCSession
Paths, SplitTree             the split tree and the sizes in it
  SplitStdisp                the status display sunk into it
  FrameTree                  abstract: the tree that is told to change
    Tiling                   implements FrameTree; + MCTiling
LineEdit                     the text, cursor and mark
QueryHistory                 the ring of the history
RecentList                   abstract: the last different entries
  Query                      implements RecentList; + DialogueProofs,
                             MCQuery
```

A step is a call that changes state, or a part of one where something else
can come in between: another call from a hook or handler, a signal, the X
server, the session manager or a completor.  Definitions have the names of the
functions they model, and a "Faulty variant" in front of a definition is the
mutant that breaks a property; it is used by nothing.

**ObjWatches, Deferred** (`obj.c`, `defer.c`, `regbind.c`).  `state` is an
object's life (`dest` is `OBJ_DEST`), `stack` the nested calls of
`destroy_obj`, each going through its watches before `deinit`; `watches` are
the `WDeferred`s that watch an object; `deferred` is the list, `used` and
`heap` the allocator.  `defer_watch_handler` is `CancelDeferral`; the
execution loop is `EnterExecute`, `ExecuteNext`, `ActionReturns`,
`ExecuteDone`, and while an action runs any other call may come.  `scheduled`
is `REGION_BINDING_UPDATE_SCHEDULED`.

**ObjList, Tags** (`objlist.c`, `tags.c`).  A list is a sequence in which a
node whose object has gone is `Dead`, as in the code, where the watch handler
can unlink only nodes that are in the middle.  `tagged` is `REGION_TAGGED`.
`ioncore_tagged_clear` is a loop of `ClearRound`.  Where the code aborts
(`objlist.c:303`) the model sets `aborted` and stops.

**Activity** (`activity.c`, `region.c`, `focus.c:200-260`).  `mgd` is
`mgd_activity`, `act` `REGION_ACTIVITY`, `pseudo` `REGION_PSEUDOACTIVE`.  The
recursion along managers is `prop`, a manager at a time.  Detaching is in two
steps (`region_detach_manager` calls the manager first), and destruction in
two (the watches run first, the rest is `deinit`).

**TimeVals, Timers** (`signal.c`, `select.c`, `event.c`).  `pc` is where the
program is between signal check and system call; signal handlers run between
any two steps and set flags; `pending` are signals blocked for `pselect`;
`alarm` is `ITIMER_REAL`.  Both builds are modelled (`pselect` TRUE with
`_POSIX_SELECT`, FALSE without).  Hooks, timer handlers and descriptor
callbacks may create, set, reset and destroy timers (`Calling`).  Names such as
`TimersInit` and `TimersSpec`, in `Tags`, `Activity` and `Session` too, keep a
module apart from the one with which a proof module extends it.

**Focus** (`focus.c`, `eventh.c`, `event.c`, `window.c`, `mplex.c`,
`clientwin.c`).  `active`, `sub`, `history`, `next`, `source` and `await` are
the window manager's variables (`REGION_ACTIVE`, `active_sub`, the focus list,
`ioncore_g.focus_next`, `focus_next_source`, `await_watch`); `xfocus`,
`xrevert` and `queue` the server's.  Events of a change of focus are put in
the queue in the order of the protocol and handled one at a time; between
them clients take, drop and lose the focus.  Regions have their own window and
their parent for manager; groups and tilings are left out.

**PlaceLine, MPlex** (`mplex.c`, `mplexpholder.c`, `llist.c`, `frame.c`).  The
`WMPlex` is one record, and each function that changes it an operator on the
record (`Link`, `Unlinked`, `MovePhs`, `IndexToAfter`, `Display`,
`ManagedRemove`, `AttachAt`), so that an action is a composition of calls as in
the code: `Attach` makes a temporary placeholder, detaches the region from
where it is, attaches it and destroys the placeholder.  `ring` are the
placeholders that a disposed floating frame leaves, out of which it can be made
again.  Whether the focus is in the multiplexer, which unnumbered regions hide
each other, and whether a new window is small are left open.  `PlaceLine` is
the abstract specification: a line of regions and places in which only the
region asked for moves; `KeepsLine` is the refinement.

**Stacking, Groups** (`stacking.c`, `group.c`, `group-cw.c`, `grouppholder.c`,
`detach.c`, `fullscreen.c`, `return.c`).  The state of all groups is one
record `w`: members, bottoms, placeholders, which window each group is in, and
for each window the stacking list.  A window's list is shared by all groups in
it, and a group's members are a subset kept in order; `Stacking` has weaving,
unweaving, restacking by level and the search for what takes the focus.  A
client window's group is disposed of when its last member leaves and made again
out of a placeholder's ring; going full screen takes a member out through a return
placeholder, and coming back looks for it again.

**Grabs** (`grab.c`, `key.c`, `pointer.c`, `kbresize.c`, `presize.c`,
`mod_menu/grabmenu.c`).  `grabs` is the array with its killed handlers, `subs`
the entered submap of each window, `press` the region, drag and click that a
button went down on, `resize` the resize mode with its timer.  A key, Escape, a
button and a timer are actions; destruction of a region comes anywhere outside
the loop that handles a key or button.

**Clients** (`clientwin.c`, `manage.c`, `netwm.c`, `event.c`, `rootwin.c`).
The server's side of a window (exists, mapped, parent, save set, masks), the
queue of events and the window manager's side are separate, each request that
waits for an answer is a step of its own, and the client acts between any two.
Exits, crashes and restarts take the window manager's side away.

**Layout, Session** (`sm_session.c`, `sm_matchwin.c`, `exec.c`, `saveload.c`).
`Layout` is pure: what is written for each window, with which check code, how
a save fails, and which window is found for what when the file is read.
`Session` has the process (`ion`: connection, `save_complete_fn`,
`sent_save_done`, restart hint), the session manager (external) and the two
streams of messages between them, which keep their order.

**Paths, SplitTree, SplitStdisp, FrameTree, Tiling** (`mod_tiling/split.c`,
`split-stdisp.c`, `tiling.c`).  A tree is a function from paths (sequences of
`"tl"` and `"br"`) to nodes.  `SplitTree` has the bounds of nodes, resizing
(also of ancestors) and removal, `SplitStdisp` the rotations that take the
status display down and up.  The tree without the display must change as
`FrameTree` says (`KeepsLayout`), whatever is rotated under it.  `Rq` is a request
for an edge of a frame (a resize mode's), `RqWeak` a script's for another size of any
node but the display, which asks by `StdispAsks`.

**LineEdit, QueryHistory, RecentList, Query** (`edln.c`, `wedln.c`, `history.c`,
`complete.c`, `mod_query.lua`).  `LineEdit` is the editing of one line with
cursor, mark and selection; `QueryHistory` is the ring with its head, its
count, and the search by context; `Query` is a query with its listing of
completions, the id of the answer it waits for, the autocomplete timer and the
place in the history.  Completors answer at any time, also after the query was
finished.  `RecentList` is the abstract history: the last different entries.

## The runs

| Run | Instance | What it shows |
|---|---|---|
| `deferred` | one object, two slots of the buffer, two heap cells | Allocation, list, watches and flag agree; what is deferred is run or cancelled |
| `tags` | three regions, five nodes | Flag and list agree; tags are taken in order |
| `activity` | two groups, a frame, a root window | Counts, flags and list agree; what has the focus shows no activity |
| `timers` | two timers, two children, `SIGTERM`, `SIGUSR1`, `SIGUSR2`, both builds | The alarm stands for the queue, nothing is slept through, timers fire and not early |
| `focus` | root, frame, a client in each; three acts | References are to what exists, belief comes to agree with the server, requests survive, dropped focus returns |
| `mplex` | three regions, two placeholders | What is seen is what was meant, regions return to their places; refinement of `PlaceLine` |
| `groups` | a workspace, a client window's group, two windows, a window, its dialog and a float, one placeholder | Lists agree, modal keeps the focus, full screen returns |
| `grabs` | two frames, a client window, two menus or queries, six button bindings | Modes last as long as their ends can come, grabs serve what exists, a resize left alone ends |
| `clients` | one window of each kind, two frames, a screen, four acts, one stop | Views agree, no window is lost |
| `session` | two windows, two places, four acts, two starts, with and without a session manager | Answered once, left as asked, windows in place, nobody waits for ever |
| `tiling` | three frames and a display of 2 by 1 in an area of 3 by 4 | Splits divide their areas, the display is in its corner; refinement of `FrameTree` |
| `query` | texts of three from two characters, a history of three, three acts | Positions are in the line, own text returns, late answers change nothing they are not about, lists settle; refinement of `RecentList` |

### Bounds, and why they are enough

* `deferred`: the three actions of an object and those without one, of which
  Lua functions may be pending more than once, are more than the cells there
  are, so that the heap is used and memory runs out.  The invariants are proved
  for any numbers.
* `tags`: three regions and five nodes hold up to five dead nodes, at both
  ends and in the middle; `optimise` handles at most two at the head.
* `activity`: two groups in a frame or in each other give chains of three
  managers; moving one under the other while it shows activity is included.
  `MaxNodes` bounds the list, which dead nodes make longer than the regions.
* `timers`: with two microseconds in a second and a clock that starts at the
  last of them, additions carry and differences borrow; a timer may be set
  for now or for later; two children make merged signals.  The clock stops
  at `MaxUsecs`, which a guard of `SetTimer` takes into account so that every
  timer that is set can be due.
* `focus`: after `MaxActs` acts of users and clients only the window manager
  moves.  Three acts are a request, a change that makes it out of date and a
  third that meets both.
* `mplex`: nothing is bounded but the sets; three regions give a neighbour on
  both sides.  Indices are the special values, 0 and 1.
* `groups`: nothing is bounded but the sets.  One placeholder outlives what it
  stands next to; with one, the ring a disposed group leaves has one element.
* `grabs`: nothing is bounded but the sets.  The stack of grabs reaches depth
  three of `MAX_GRABS` 4 and no more; buttons have one function of each kind.
* `clients`: four acts and one stop may come between any two requests.  Two
  windows were also checked with two acts; they meet only in the frame that is
  destroyed under both.
* `session`: four acts are a restart, a shutdown that the user asks for in
  between, its cancellation and an unasked checkpoint; two starts are a layout
  that is saved, found and saved again.  The two conversations are proved for
  any numbers.
* `tiling`: three frames and the display are the largest tree in which the
  display can be sunk two levels deep; in 3 by 4 their minimal sizes fit in any
  arrangement, so that resizing is limited by neighbours and never fails for
  want of space.  One corner, one wanted size and one area are few; with the
  top right corner as a second place, so that the display also moves between two,
  the run was checked beside it (25,692 states) and takes too long to be kept.
* `query`: three acts from any query that is open: two edits and what depends
  on them, while timers and answers are free.  Four acts were also checked
  with a smaller instance.  Texts of three with a separator have words of one
  and two letters; the history wraps at its third entry.

### Symmetry and deadlock

Regions, placeholders, groups, windows and frames that are alike are permuted
only where all properties of the run are safety properties.  Deadlock is not
checked where the program may end (`Tags`, `Timers`, `Session`) or where it has
nothing left to do when users and clients have acted (`Focus`, `Clients`,
`Query`).

### Fairness

* `Deferred!LiveSpec`: the main loop goes on (weak fairness for what it does
  between handlers), and a handler makes finitely many calls, so it returns
  (strong fairness for returns, which calls in between may disable for a
  time).  Nothing is assumed of users.
* `Timers!LiveTimersSpec`: the program takes its steps, the clock runs, the kernel
  delivers `SIGALRM` once it is due, and an event that `ioncore_get_event`
  waits for comes, since callers ask the server for it first.  No signal but
  `SIGALRM` is assumed to be sent.
* `Focus!FairSpec`: the window manager runs its main loop; nothing of clients
  or users.
* `Grabs!Spec`: time passes and the main loop looks at timers before every
  event.  `ResizeTimesOut` promises an end only if the user presses no more
  keys of the resize mode, each of which sets the timer again.
* `Session!SessionSpec`: the main loop reads messages, and a session manager goes on
  with what it began.  Nothing makes anybody cancel, crash or close.
* `Query!Spec`: timers go off and completors answer; users need not type.

| Theorem | Module | States |
|---|---|---|
| `InvariantHolds` | `MainLoopProofs` | `Spec => []IInv` for any objects, buffer and heap |
| `CellsSafe`, `LivingSafe`, `FlagSafe` | `MainLoopProofs` | the invariants of the run |
| `TypesHold`, `CountsExact`, `ListHonest`, `FocusSilences` | `DialogueProofs` | the invariants of the run, for any finite set of regions |
| `FlagsAndListAgree`, `TagsKeepTheirOrder` | `MainLoopProofs` | the tag list holds only existing regions that have the flag, each once; no step changes the order of those that stay |
| `TimersInvariance`, `SleepIsSafe`, `TimersPunctual` | `MainLoopProofs` | nothing is slept through; no timer fires early or stays behind an earlier one |
| `MPlexIsSeenAsMeant`, `ReturnsToItsPlace`, `MPlexKeepsLine` | `MPlexProofs` | nothing is linked twice, what is seen is what was meant, regions return to their places; `MPlex` implements `PlaceLine` |
| `AlwaysAtRest`, `GroupsListsAgree`, `GroupsModalFocus`, `GroupsReturn` | `GroupsProofs` | lists, bottoms and placeholders agree between two calls; a modal region keeps the focus; what was full screen is again as it was |
| `FocusInvariance`, `NothingFreedIsReferredTo`, `BeliefIsTrue` | `FocusProofs` | nothing refers to a freed region; with all events handled, the window manager's idea of the focus is the server's |
| `Invariance`, `ClientsAreKnown`, `ServerIsAgreedWith`, `NoneIsTaken` | `ClientsProofs` | the window manager and the server end up with the same view of each window; none is taken along by an exit or crash |
| `Invariance`, `ModesEnd`, `GrabsAreServed` | `GrabsProofs` | a mode and what ends it live and die together; the press, the dragged tab and the entered submaps are those whose grab is held |
| `Invariance`, `SavesAnswered`, `LeavingIsAsked`, `WindowsAreInPlace` | `MainLoopProofs` | each request is answered once; the program leaves only when it was asked to; windows come back to their places |
| `Invariance`, `ShownIsThere`, `TextComesBack`, `LateAnswersChangeNothing`, `RingKeepsRecent` | `DialogueProofs` | positions are in the line, browsing loses no text, late answers are dropped, the ring implements `RecentList` |

*Deferred.*  None of the invariants is inductive alone: that a deferral is
freed only once needs that its watch is there (`TargetsWatched`), which needs
that watches are gone before `deinit` and that an object which is being
destroyed gets no new ones (`WatchesInOrder`, `StackMatchesState`).
`ListInOrder` is needed for the allocator: `free_defer` clears bits by an index
that is scaled by the size of the structure, and this is right only because
`alloc_defer` never gives out a slot but the first.  Assumed are only that the
buffer has a slot and that a `WDeferred` is at least as long in bytes as the
buffer has slots (it is 48 bytes, and the buffer has 16 slots).

*Activity.*  `ActivityInv` adds `Hierarchy` (nothing outside the hierarchy has a
manager).  The heart is a count: `mgd[m]`, with what a propagation under way
still owes `m`, is the cardinality of the regions that `m` manages and that
show activity.  Each action changes that set by at most one element, and the
lemmas of the module turn this into arithmetic.  The bound `MaxNodes` may have
any value.

*Tags.*  The same list, with the flag `REGION_TAGGED` instead of a count.
`Agree` says which nodes are dead and that the living ones are distinct;
`optimise` and the iterations that skip dead nodes keep it.  `TagOrderKept`
is about steps: no operation of the list moves a node past another or puts one
ahead of those that wait, and a node is used again only where it stands; this
is what `InLine` says of one list and its next.

*Timers.*  `TimersInv` says what is known at each place of the way to sleep.
`OnTheWay` has which flags are down and whether a timeout is set once signals
are blocked, in either build.  `TimersWake` is the claim for the queue (the
alarm is set for its head, or on its way as a signal or flag),
`ZombiesNoticed` that for children.  The queue is sorted by
`timeval`s; `LaterIsAfter`, `DifferenceIs` and `AddMsecsIs` say that the C
macros compare, subtract and add what they should for any length of a second,
and `DoTimerSetArms` that the alarm is armed for the head, never with the zero
value that would switch it off.  `SleepsUnsignalled` excepts `SIGUSR1` and the
deadly signals, which `signal.c:558` does not block.  `TimersPunctual` has a
hypothesis: `NoWrap`, that no interval overflows `msecs * 1000`
(`signal.c:281`), which for 32 bits means 71 minutes; beyond it the timer does
fire early.  `SleepIsSafe` needs no hypothesis.

*MPlex.*  `SeenAsMeant` is inductive as it stands.  The work is in the line,
which `mplexpholder.c` keeps as a list of regions with a list of placeholders on
each node.  Of a list whose elements are distinct all there is to know is which
elements it has and in which order (`OrderDetermines`); `LineOf` says both of the
line that the nodes and placeholders make, as `InLine`.  `Agree(q, p, X)` says that
two multiplexers have the same order but for what is in `X`, and is proved of
each function: moving placeholders to another node leaves it alone (`MovePhsIs`,
`NodeOut`, `NodeIn`), linking and unlinking one changes it by one
(`LinkLine`, `UnlinkedLine`).  An action composes them, and `AgreeDropping` turns
the result into what `PlaceLine` speaks of, the list without what was to move.
So `WorksStep` says of every step which of `PlaceLine`'s it is, and with what is
shown (`Seen`) it is the proof of the invariant and of the refinement.
Disposal of a frame, which removes any number of regions one after the
other and moves all placeholders to the first place, is by `Induction` over
the list (`AllRemovedIs`, `FlattenLine`).  Assumed is `MPlexAssumption`, that regions,
placeholders and `None` are different.

*Groups.*  `ListsAgree` is what the run checks; the induction needs more, and not
only between two calls: a handler runs several functions, each of which may leave
placeholders that wait to be destroyed (`dead`) or a group that is about to go.
`Agree` is what holds in all those states too.  `MembersAgree` says that each
window's list holds exactly the members of the groups in it, once, in the order
of their levels, and each after what it is stacked above, which is of its group and level;
`ListsApart`, that a placeholder is on one list at most, of a group or of those a
disposed group left (`rings`); `ReturnsApart`, that the placeholder by which a
region is to return is its own and is neither lost nor to be destroyed.  It is
proved of each operator, and an action composes them; `AtRest` adds that
nothing waits to be destroyed when the call is over.  What weaving does to a list
is said of the order it makes (`WeaveIs`): a list sorted by levels stays so, what
was there keeps its order, and what comes in is above, or below, its level.
`Unweaved` and `Restack` move what is stacked above each other as a whole:
`WithAbove` is the least set that is closed (`WithAboveIs`), and in a list that
agrees it lies in one group and level (`AboveIn`).  `GroupsReturn` follows a member from
the invariant through its way out and back: what its placeholder knows of it (`Known`), what
another member that leaves in between, and the group with it, may change
of this (`Waiting`), and what the group finds when the region comes back, or is made
anew for it (`Returning`).  Destroying a group destroys its members one after
the other, by `Induction` over the list.  Assumed is `GroupsAssumption`: a group is
of one of the two kinds, `None` is no name of anything, and there are finitely
many regions and placeholders, as in any state of the program.

*Focus.*  `BeliefTrue` speaks of the moments when all events have been handled.
`FocusInv` says the same of any moment: `Believed`, that the last focus event
on its way about a window, or the flag if there is none, agrees with where the
server's focus is, and `Latest`, that the last one of all is the focus-in of
the window with the focus, or else this window heads the list.  The
server's side is then one lemma, `FocusEventsEnd`: the events of a change turn
the flags from the old focus's windows to the new one's.  That `sub` of the
window with the focus is empty when its focus-in is handled (only then does
`region_got_focus` move it to the front) follows from the belief about its children
(`NoSubLeft`).  The tree has its own invariant, `TreeInv`: windows are in each
other without a cycle, up to the root window, and those that exist are in
others that exist; `DyingInv` says that what is being destroyed lies one in
the other.  What a window is in (`Inside`) is the least set closed under
parents, by which `TreeInduction` replaces induction over data and gives the
recursive `ChainIn` its meaning (`ChainElements`, `Unshared`).  Assumed is
`WindowsAssumption`, that the windows are a tree to begin with.

*Clients.*  The invariants speak of moments when nothing is under way; the
induction needs what holds in between, with any number of requests in the
buffer and events in the queue.  `Finally(w, f)` is what the server will know of
a property of a window once it has every request, and `AtTheEnd` and
`ShownAtTheEnd` say that this is what the window manager believes, at each
place between two requests of a call.  `Sound` says of every request on the way that
it unmaps nothing that is selected, unless this is wanted, and puts nothing in
a frame before the save set has it; `Kept` and `Promise`, that a window which is
wanted is mapped or saved after each of them, or waits to be managed.  The
events are the reverse: `UnmapThenMap`, `MapThenUnmap`, `Leaves` and `Awaited`
say that what the window manager does not know yet follows in the queue, in the
order that makes it right in the end.  All of it is said of one window at a
time, so a step's proof is about the window it concerns, and `Elsewhere` about
the others.  Assumed is `ClientsAssumption` only; the bounds of acts and stops
may have any value.

*Grabs.*  Both invariants need to know what may lie on the stack, which
`Shape` says: at most three grabs, a submap's between two that a bound function
asked for, and a pointer's below all others.  From this follows that
`ioncore_grab_establish` never finds the stack full (four, `grab.c:45`), that
`ioncore_grab_remove`, which takes the topmost grab of a handler, takes the
right one, and that a handler which is done is on the top or below the one it
started.  `Owned` says that holders of unmarked grabs live and that a menu has
no grab below its own, `Resizing` that the mode, its target and its timer come
with a grab of `resize` or the drag that began it, `Pressed` what the loop of
a button press holds, `Entered` which submaps are entered.  They
are stated of a record, since a step runs several functions on it one after
the other; `Firm` leaves out `Entered`, because `do_key` enters a map before
it has the grab.  Assumed is `GrabsAssumption`: menus are neither frames nor the root
window, and no button both drags to resize and begins a keyboard resize (see
below for what happens then).

*Session.*  `SessionIInv` adds two groups of facts.  `Conversation` says who waits for
which message: there is one request and one second phase at most, an answer the
session manager waits for is on its way or will be asked for, and a cancellation
that is on its way is known to have been sent.  `Told` is about leaving: the
hint for a restart is told before the answer, and `SaveComplete` is read only when nothing
of a save is under way.  `WindowsAreInPlace` is proved of the layout beside it:
a window that the file knows and that was not moved has the file's code, unless
it was given another (`CodesKept`); one that is not managed while a process
runs was given another (`StraysRecoded`), and under a session manager its match
waits for it and for no other window (`MatchesKept`, by what `Alone` says of
the marks that `match_cwin` counts).  Of windows and places only
`LayoutAssumption` is assumed, of the bounds nothing, and `None` is none of the
names of wishes.

*Query.*  `FineQuery` bounds cursor, mark and selection (`SoundQuery`), orders the
numbers of requests (`Ordered`), and says that a completion that is shown is
the one selected (`SelectedShown`).  `Requests` relates each answer that may
still come to the request it is for.  `KeptHistory` says that the entries which
the ring's indices name exist and are distinct.  That the ring implements
`RecentList` needs recursion and induction over the entries; the module gets
both for functions over a finite interval (`RecursionExists`, `Induction`),
which takes no operator as a parameter.

`ListLemmas` holds what is used of lists and object lists: removing an
element, inserting one, filtering, the watch handler and `optimise` keep
elements distinct and lose none but the dead.

Before the proofs, TLC checked the inductive invariants as invariants of the
runs: of `Session` in 534,264 states, `Query` in 135,559, `Timers` in
384,006, `Clients` in 493,069, `Grabs` in 137,309, `Focus` in 380,874 and `Groups` in
66,839.

Only model-checked are:

* liveness (`PendingSettles`, `TimersFire`, `FocusRestored`, `RequestServed`,
  `ResizeTimesOut`, `Settles`, `ListSettles`) and what uses `ENABLED`, which
  the prover cannot treat;
* the safety property of `Tiling` and its refinement of `FrameTree`, which are
  not proved yet.

## What was met while modelling

No run expects a violation: the properties hold of the code as it is, where
necessary with a premise that says where its promise ends.  These are the
places where that premise, or a stronger property that TLC refuted, shows
something that a maintainer may want to look at.

* **Grabs** `region.c:114`: the assertion that a dying region has no entered
  submap fails for a query or menu, whose keys are not grabbed: after
  `Control+K` in a query (`etc/cfg_query.lua`), destroying its frame, or
  shutting down, aborts.  For windows whose keys are grabbed this is
  part of `GrabsServe`.  Escape in a keyboard resize or a grabbed menu pops
  the grab in its killed handler and then marks the slot below the array's
  first (`grab.c:161`).  `submapgrab_handler` goes on with a region that the
  bound function may have destroyed (`key.c:357`, `:391`).  A drag whose region
  dies does not get its own killed handler called.  `window_p_resize` and the
  like bound to `mpress` never begin; `menu_press` cannot set drag handlers.  A
  keyboard resize by a press with a drag-resize on the same button leaves the
  keyboard grabbed until Escape (`presize.c:72`; left out of `Buttons`).
  If `opaque_resize` changes during a mode the server stays grabbed.
* **Object lists** `objlist.c:303`: with three dead nodes at the head
  `objlist_take_first` aborts; `Tags` reaches this (`aborted`).
  `objlist.c:145`, `:150`: a dead node that is reused is not watched;
  `activity.c:147`: the first region with activity is not found behind a dead
  node.
* **Multiplexer placeholders** `mplexpholder.c:91-95`: unlinking from a
  detached ring of two or more fails an assertion (the last one) or makes a
  cycle (the first).  `grouppholder.c:53-84` has the same code.
* **Multiplexer** `mplex.c:318`, `:841-843`, `:1447`, `:1536`: an index of -2
  or -3 for the current region links its node after itself; a current region
  that was hidden is shown and hidden again; `modal` alone sets a level that is
  not looked at; the first numbered region attached while an unnumbered one is
  active is not shown.
* **Activity** `region.c:553`: pseudoactivity is a flag, and any region that
  leaves clears it for the others.
* **Deferred** `defer.c:54`: the static buffer serves one deferral at a time
  (`HeapWhenBufferFull`, which no run checks); `defer.c:181`, `:199`.
* **Timers** `event.c:48`: `SIGUSR1` under a session manager ends in
  `assert(0)`, though `signal.c` offers it; `signal.c:558`: it and the deadly
  signals are not blocked before `pselect()`; `signal.c:281`: `msecs*1000`
  wraps above 71 minutes.
* **Focus**: a region reparented to an ancestor while its focus event is under
  way leaves the old chain of `active_sub` behind; `await_watch` can stay set
  after `SetInputFocus` of a window that is gone; with the focus None and
  nothing shown, "Restore focus" (`eventh.c:402`) does nothing until something
  is asked for; a manager that refocuses when a region is removed overrides a
  pending request.  The premises of `RequestServed` and `FocusRestored` say
  so.  `region_focuslist_deinit` passes a replacement that is always NULL.
* **Groups** `group.c:557`, `group.c:187` (a list in the order of members, not
  of stacking), `fullscreen.c:79` (the placeholder is unset before the return
  is refused); the sole bottom of a workspace that goes full screen disposes
  of the workspace; `group_do_load` skips the check for a second bottom; asking
  whether a rescue is needed moves placeholders (`frame.c:637-672`,
  `group-cw.c:228`); `region_rqclose`'s documentation of `relocate` is not what
  `region.c:476` does.
* **Client windows**: while hide, show and reparent have `StructureNotify`
  deselected, a window that is destroyed or unmapped is not noticed, which is
  why `ServerAgrees` is about what was noticed; `MapRequest`s pending at an exit
  are lost; windows withdrawn but not yet handled are mapped at exit or by the
  save set; a window found by its check code does not get `_NET_WM_STATE`
  updated; a hook of Lua that attaches a window and then returns false leaves
  it in a frame and out of the save set; a failed attempt to go full screen
  leaves its request set; acrobatic windows that are hidden when first
  attached are never mapped; X errors other than `BadWindow` raise `SIGTRAP`;
  `manage.c` passes a NULL placeholder's target when full screen fails;
  `sm_matchwin.c:192` uses an `XGetClassHint` that may have failed.
* **Session**: an earlier `SaveComplete` is taken for that of a restart's own
  save, so that Ion leaves unsaved (this is why `LeavesAsAsked` has `since`);
  `smhook` stays set when the connection is lost and the next request passes
  NULL to libSM; `extl_serialise` writes over the only copy of the layout;
  the timer that is to purge matches is never started; a match is the first
  that is good enough; a snapshot while clients are still returning forgets
  the rest; `get_configuration` called by a script changes check codes.
* **Tilings** `split.c:1744`: after `split_fliptrans_to` the ancestors' bounds
  are stale, and areas may overlap or become negative; `StaysTiled` excepts
  exactly this.  Flip and rotate never flip the node's own split; booleans are
  passed as `primn` (`split.c:990`): where a script
  gives no position, a split gives the change to its left part, or to its lower one; some early returns leave resizing without
  `end_resize`.
* **Queries**: the mark inside a word that is erased backwards ends before
  the start; cutting reports no change, so that a late answer overwrites the
  text (why `AnsweredAsAsked` is about `autoshowcompl`, and looks at what was
  changed); resetting while the history is browsed drops the text put
  aside; a failed completion from the history restores an old id; the place in
  the history goes stale when another query pushes; `transpose-words` at the
  start of `-a-` moves a negative length (the model does not take it);
  `chld_handler` calls `maybe_finish` with an undefined variable
  (`mod_query.lua:140`).
* **Menus** (not modelled) `menu.c:214` compares with `>` where `>=` is meant;
  `menu_motion` can select an entry out of range (`menu.c:899`); `do_scroll`
  (`menu.c:1127`) may use a submenu that was destroyed; `menu.c:827` overwrites
  the submenu when a grabbed menu meets the mouse.
* Places that are exposed to the hazards above and not listed with a property:
  `presize.c:72`, `focus.c:221`, `:355`, `:486`, `signal.c:92`, `:213`, `:230`,
  `:472`, `hooks.c:352`, `exec.c:285`, `sm_matchwin.c:150`, `objlist.c:251`,
  `event.c:149`, `sm_session.c:67`, `activity.c:29`, `region.c:560`.

## What is not modelled, and why

* Values: geometry outside of tilings, text outside of queries, colours, time
  stamps.
* Of the modelled parts: class descriptors and dynamic functions; iteration
  over object lists with callbacks; the list of input descriptors; in `Focus`
  groups and tilings (whose windows are dummies), warping, grabs, colour maps
  and `REGION_SKIP_FOCUS`; in `MPlex` stacking levels, size policies, the
  status display, navigation, loading and saving, and the placeholders of
  unnumbered regions, which mark no place; in `Groups` geometry, groups within
  groups, navigation and loading; in `Clients` dock applications, names, size
  hints, colour maps, transients (in `Session` too, whose matching passes them
  over) and the targets that window properties name;
  in `Tiling` floating splits, the current node and navigation, requests that
  only try, size hints, and areas too small for the minima; in `Query` drawing,
  passwords and who computes the completions.
* Parts that are listed as `not_modelled` in `PROJECT.json`, with a reason for
  each: drawing, vendored libraries, parsing, start-up and scripts are sequential
  or only input and output; the others are in the plan.
* The X server, the kernel, the session manager and Lua are modelled only as
  far as the code relies on them.

## Plan

Done, in this order: deferred actions and watches (everything relies on them),
object lists with tags and activity, timers and the main loop's wait, focus
against the server, the multiplexer with its abstract line; groups with rescue
and return, grabs, client windows, session management with the layout, tilings,
queries; the proofs listed above.

Next:

* Proofs: `Tiling`, whose tree is walked by recursive operators.
* Modules: menus; the search for a place in `manage.c` and for a rescue place
  through the managers; bindings and their references; hooks and input
  descriptors (lists that change while they are run through); names (against a
  reference definition).
