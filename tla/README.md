# A TLA+ development for piqtec

piqtec talks to an IQtec / Kobra home controller over HTTP: it discovers the
controller's variables, reads and writes them in as few requests as the
firmware's limits allow, and puts rooms, sunblinds and heating calendars on top.
This directory models it in TLA+, checks the models with TLC and proves some of
what holds with TLAPS. `PROJECT.json` maps every definition to the lines it
stands for; line numbers below are those of `src/src/piqtec/`.

## The system

| part | state | operations | talks to |
| --- | --- | --- | --- |
| packing (`utils.pack_chunks`) | locals of one loop | one call | used by `api_call` |
| transport (`Controller.api_call`) | the dictionary of one call, one HTTP session, tables of reply sizes | `api_call`, `_call_chunk`, `_get`, `parse_responses` | the controller, one GET at a time |
| the controller | the variables of the house | answers `/control/?...`, drops a line that is too long, cuts off a reply that is too long | external |
| discovery (`match_api`, `find_ids`, `Controller.__init__`) | descriptors and units, fixed after construction | one pass over `data.xml` | `_get` |
| units (`unit/base`, `room`, `system`, `device`) | bindings of variables to fields | `update`, `parse_state`, `set_value`, `set_manual_temperature` | `api_call` |
| sunblinds (`unit/sunblind`) | none between calls | `set_command`, `set_rotation`, `set_position` | several `api_call`s in a row |
| calendars (`unit/calendar`) | `CalendarState`: eight days of eight edges, temperatures | edits of a day, `validate`, `periods`, `update`, `write` | `api_call`; `write` replaces the whole calendar |

Nothing in the package takes a lock or remembers anything between calls; what is
hard is at the boundary. A request may be lost, or carried out after the caller
has given up. Other clients (the panel, another program, another thread) write
between any two requests. The firmware fails silently at both of its limits.
What looks like one operation is often several requests: a large read, a write
that does not fit one request, STOP-update-STEP of a blind, update-edit-write of
a calendar. The arithmetic of a calendar day (spare edges, half-way points,
skipped hours) has its own edges.

What makes each part correct:

- packing: both budgets are kept, nothing is lost or moved, the error is raised
  for exactly the lists that cannot be sent, no cutting in order is shorter;
- transport: the setters of a set take effect in order, once, all of them if the
  call returns; answers are complete and belong to the call; what fits one
  request is atomic; a call always comes back;
- calendar day: every edit leaves a day the controller accepts, changes the
  level in force exactly as it says, and is refused only for what is wrong with
  it;
- projection: periods are contiguous, in order, not empty, and show the level of
  the day's schedule;
- calendars with several editors: no calendar is ever wiped, only overlapping
  edits undo each other, payload and colour go together;
- rooms: a hold is there as a whole or not at all; an int or a float reads back
  as it was written;
- sunblinds: a blind that is stopped is set going again, unless its position is
  not known or the caller is told of a failure; the step is computed from where
  the blind is;
- discovery and units: every usable variable belongs to a unit, and a unit never
  reads a variable that is not its own.

## Modules

| module | what it is |
| --- | --- |
| `Packing` | the rule of `pack_chunks` as operators: `Place` is one iteration, `Pack` the whole call; also what a chunk is on the wire (`Under`) |
| `PackChunks` | a state machine that runs the rule item by item on any list |
| `ApiCall` | extends `Packing`: callers in `api_call`, requests in the network, the device |
| `ApiContract` | what a caller may rely on for its writes; `ApiCall` implements it, `CalendarSync` and `Room` build on it |
| `CalendarDay` | a day as edges and its edits, with the parking of spare edges |
| `DaySchedule` | the same edits on the level in force at each moment; `CalendarDay` implements it |
| `CalendarPeriods` | `periods`: the week laid over dates, with a clock that is put forward or back |
| `Sunblind` | callers in `set_position` and `set_rotation`, and the blind they move |
| `CalendarSync` | extends `Packing`: editors who read, edit and write whole calendars, over calls as `ApiContract` has them |
| `Values` | `decode_value` and `encode_value` by type |
| `Room` | extends `Values`: callers of a room's setters, over calls as `ApiContract` has them |
| `House` | extends `Packing`: discovery, the units, and reads and writes through them |
| `MC...` | values for the constants, one per state machine |
| `Packing_proofs`, `ApiCall_proofs` (of `PackChunks` too), `CalendarDay_proofs`, `CalendarSync_proofs`, `House_proofs`, `Room_proofs`, `CalendarPeriods_proofs`, `Sunblind_proofs` | the proofs |

**Packing.** An item is its two lengths. A chunk is the sequence of its items'
positions, so that loss and reordering can be seen; the text of a fragment never
matters to the rule. `Packer` is the record of the loop's four locals.

**ApiCall.** `Begin`, `BeginInvalid` and `BeginTooLong` are `api_call` up to its
first request, where every setter is encoded and the reads are packed;
`StartWrites` and `RejectWrites` are the point between the two loops, where the
writes are packed; `Send`, `Receive` and `GiveUp` are `_get` as a request going
out, its answer, and its failure (an exception of `requests`, or a status other
than 200); `Return` is the end. What the code computes from a request set before
any request (`_readable`, the `seen` filter, `_expected_bytes`,
`_setter_fragment`, `pack_chunks`) is the constant function `Plan`. A getter may
state the size of its answer, which goes before what `data.xml` says and keeps a
structure in one piece; `Unstated` stands for the `None` of the others. The device
answers a structure with every variable it has there (`Answered`), which may be
more than `data.xml` lists in a form the package understands (`Members`). The device is
external: `Serve` carries out one request in one go, at any time after it was
sent, also when nobody waits for the answer any more; `Lose` drops one;
`CutOff` cuts a reply off at a line boundary (README.md:126 of the repository).
That the device serves one request in one go is what the code relies on
(`unit/room.py:82`), not something it can enforce. Callers are threads or
processes: two `api_call`s share only the HTTP session, which the model takes to
give each its own connection. `log`, `seen` and the ended entries of `calls` are
history: no action reads them.

**ApiContract.** Requests and answers are left out: when a call begins its
setters are cut into runs (one per write request), and the runs take effect in
order and whole, all of them if the call returns. After a failure the next run
may still come, at any time. `ApiCall` implements this with the cuts that
`pack_chunks` makes (`ImplementsContract`), so `CalendarSync` and `Room` do not
repeat the requests: they instantiate the contract, with the cuts their own
writes can have, and add what the callers do. A guarantee of theirs rests on the
transport's steps through that refinement.

**CalendarDay.** A day is a function from times to levels: the code keeps its
edges in strictly increasing order of time, so the list is that function in the
order of its domain. `Grid` is the packing of `set_transitions`: repeats are
dropped, spare edges parked one by one in the first of the widest gaps, the
terminator appended. `Parking` is the `while` loop, by the number of edges it
has reached. Each edit is an action that ends as the code's does, in
`SetTransitions` or in an `InvalidValueError` (`Refuse`). `call` is the method
that runs, with its arguments; `DaySchedule` has it too, so that what implements
it must do what was asked, with the arguments that were given, and refuse what
it refuses. `add_transition` cuts a fractional level off (`WholePart`,
`calendar.py:175`), which the other methods refuse. Fractional times are left
out. Edits start from a day the controller gave, which is taken to be valid, or
from the empty one.

**CalendarPeriods.** One step: any week, zone and window, and the list that
`periods` returns. A day is the list of its transitions, as the code goes
through it. Time is minutes; a zone is the instant its clock jumps and
the offsets before and after, which is all `zoneinfo` contributes to a window
with one change in it. `Instant` and `Local` are its rules (fold 0 takes the
offset from before the jump). `GapEnd` is the code's halving, step by step, and
not the answer it is meant to find. Python compares datetimes of one zone by the
wall clock, and of two zones by their instants; so does `EndsAfter`. The end of a
window has a zone of its own and may lie before the start.

**Sunblind.** `Begin` to `Return` are the requests of one call; every one of
them may fail (`Fail`), and a command that failed may be carried out later
(`Straggle`), which is what `ApiContract` leaves open. The blind is external:
slats turn before it travels, UP and DOWN run to the end, a step runs for the
time that the controller has for it, after a start of up to `TILT_TIME_OFFSET`.
`move_time` and `full_time_time` that are not known act in the code as position
and rotation that are not, and are not told apart; `MissingVariableError` before
a request acts as its failure. `master` is history.

**CalendarSync.** An editor's copy is the `CalendarState` it read (`Update`) and
has edited since; `Write` is edits, `validate`, the setters of payload and
colour, and the call that carries them, cut by the rule of `Packing`. What is
stored on the device is computed from `log`, the setters in the order they took
effect. Days, name, temperatures and colour are the fields; what
`validate` refuses and what the code page lacks are given sets of values. The
device may answer "!off" for payload or colour at any read; the empty copy that
gives can be filled in like any other. A name that is missing passes `validate`
and is written as an empty one (`AsJson`). A copy may be written to a calendar
other than its own. `read`, `read_at` and `edited` of a copy, and what `Write`
records of it, are history. A read is one step: with at most 1109 bytes for a payload and 21 for a
colour, three calendars fit one reply, and in `read_calendars`, which takes
several requests for more, payload and colour of a calendar never come apart.

**Room.** `Send` is the end of every setter: the request set is put together,
which raises for a variable that is missing or read-only and for a value its
type cannot take, before anything is sent; then `api_call`. The few short
setters of a hold always fit one request. What a client reading the room may see
is any state.

**House.** `Match` and `Skip` are `match_api`; after `Connect` the tables and
the units are functions of the entries found. A read is one step from the
getters of the units to the fields they show, through `_readable`, the filter,
`pack_chunks` and the device's replies; `ApiCall` has the steps in between. A
value is how often its address was written, so a field of another variable, or
a stale one, can be told.

## Runs

- `pack_chunks`: all lists of up to four of eight items under limits 8 (overhead
  2) and 6. The items are at, just over and well under each limit, and four are
  enough for three chunks and for a chunk closed by either limit.
- `api_call`: `c1` makes two calls out of nine request sets, `c2` one out of two.
  The sets have a structure that must be read variable by variable, one that is
  read whole, one with a size stated that holds, one with a size that does not,
  one with an entry that its size leaves out, so that its reply may be cut off,
  a variable asked for twice, writes for two requests with one
  variable written twice, writes that fit one request, a value that cannot be
  encoded, a write and a read too long to send. Two calls are needed for a late
  request of the first to meet the second; the second caller writes what the
  first reads and reads what it writes.
- `api_call_liveness`: `CallReturns` on one call each. Fairness is weak fairness
  of each caller's own steps: a thread in `api_call` keeps running and
  `session.get` returns or raises. Its timeout (`timeout=self.timeout`) bounds
  the silence between two parts of a reply, and a reply ends after 4 KiB.
  Nothing is assumed of the network or the device.
- `calendar_day`: a day of 6 steps and 5 edges from every valid grid and from no
  edges at all. Since every valid grid is an initial state and each edit leads
  to one, one edit from each is every edit in any history. Full days (four
  transitions in six steps) and days with three spare edges both occur; times,
  levels and indices go beyond what is allowed, and one level is 1.5. The
  refinement compares method, arguments and verdict of every call.
- `calendar_periods`: weeks of two days of four steps, two levels; a clock put
  forward over two transitions' times, or off the grid, put back, or left alone;
  120 windows from no time to days on both sides of the jump, with ends in either
  pass of a repeated hour and in the zone of the start or another, some turned
  round. Two days suffice for merging at midnight and "follows Monday".
  `PeriodsShowTheSchedule` looks at every instant, so at both passes of a
  repeated hour. `calendar_periods_empty` and `calendar_periods_fold` show the
  two findings on the same instance.
- `sunblind`: five ticks of travel, two of tilt, one of start, two callers who
  may call any number of times, one request adrift. Positions are twice as fine
  as ticks, and the goal lies between two, so that durations are cut off. What a
  blind may miss its goal by (`PositionSlack`, `RotationSlack`) is computed from
  the constants: the start of the motor, and the remainders of the divisions
  that readings and durations go through (`Loss`). On the instance it is a tick
  and a half of five for the travel and one of two for the slats, so that either
  can be missed by more: without the correction for the slats the blind is two
  and a half ticks off, and with the time of an earlier step the slats are both
  off. `ArrivesAtPosition` and `ArrivesAtRotation` ask that no command of another came
  in between: with one, nothing is promised, and the code has no means to notice.
  `NeverOvershoots` is the case of unknown slats.
- `calendar_sync`: two editors, with two writes and one, of calendar A with a
  colour and B without, each with two days. Temperatures make a payload that
  leaves its colour no room in the request (with the code's limit it takes
  temperatures of some twenty digits), so calls of one run, of two, and of two
  setters in one run all occur; others are refused, cannot be encoded or cannot
  be sent. A read, a write, and a late write of a failed call meet in every
  order, also those of one editor; payload or colour may be off at any read, and
  `e2` fills in what it then has. `e1` copies B to A and `e2` A to B; `e2` also
  takes the name away. A read that no write follows, and one that is repeated
  before a write, are left out (`MayRead`): they change only their own copy. The
  view (`MCView`) forgets what no action and no property looks at again.
- `room`: two callers, with two calls and one, a hold's three variables and a
  switch, one variable of the hold missing or read-only. One caller uses one
  number, the other every kind of value: a whole float, a broken one, a Decimal
  and a Fraction that are not whole, nan, None, text, an int. The view forgets
  what a call asked for of which nothing took effect or will. `room_none` shows a
  finding.
- `house`: fifteen entries, or all but one: SYSTEM with a variable only its
  device has, a room in two structures, a blind, a structure one variable too
  long for a reply, a name with two entries, a malformed entry, an unknown
  category, a scenario, a page; or a structure that fits a reply only without
  its malformed entry. One address may be off. Every reply has room for exactly
  three variables. An entry too long for any reply makes reads raise.

`CHECK_DEADLOCK FALSE` stands where the bound on calls or the end of the
function stops the system.

## Proofs

`Packing_proofs` and the end of `ApiCall_proofs` prove, for all limits and all
lists, what the run `pack_chunks` checks on small ones:
`PackTypeCorrect`, `BudgetsKept`, `Lossless`, `Fewest`, `RaisesRightly`. They assume
`BudgetAssumption` and `ItemsAssumption` only. The inductive invariant is
`PackerInv`: the closed chunks and the open one cut a prefix of the list in
order; each is under both budgets and the running totals are the open chunk's
sums; and the first item of each later chunk did not fit the chunk before. The
last part is what optimality needs: any other cutting is, chunk by chunk, not
ahead of the greedy one. `PackTypeOK` and the five properties do not follow from
each other without it.

Sums over a list and the packer's run are recursive functions on an interval.
Their facts need induction over data; `LeastNatural` (a non-empty set of
naturals has a least element, from the well-foundedness of inclusion on finite
sets) takes the place of an induction rule: assume a counterexample, take the
least. `PackContract` states the result for the operator `Pack`, as `ApiCall`
uses it. The end of `Packing_proofs` holds what other proofs need of lists:
concatenations, runs of a filter, and sums under a budget (`PartUnder`: a part
of a list is no longer on the wire than the list), and of products and division.

`ApiCall_proofs` proves `Refines`, that `ApiCall` implements `ApiContract`, and
`Unsendable`, for any callers, request sets and limits, from
`ControllerAssumption` and `BudgetAssumption`. The contract shows the calls
without their requests (`ShownCalls`) and, of the network, the calls that ended
with a write on its way (`Adrift`). That a write served late is the next run of
its call, and not an earlier one or a second copy, is in no single state's
reach; the invariant `Inv` keeps it. Its part `Fine`, per caller: what is left
in the queue are the last chunks of the plan; what the log holds of the open
call ends where they begin, or one chunk later if the answer is on its way
(`Progress`); every write in the network, of whatever call, is the chunk that
follows what the log holds of that call, and the only one of it (`NextWrite`).
Each action is shown to preserve `Fine` of one caller while the others' stays
as it is, and to be a step of the contract or a stutter. `PackContract` gives
the cuts: where one chunk ends the next begins. `Sound` adds that only requests
that could be sent as a whole get as far as the network. Fairness is not used.

The same module proves the other invariants of the run `api_call`, under
`MarginAssumption` and `AnsweredAssumption` too where replies are meant:

- `Atomic`: a call whose writes fit one request has one chunk of writes
  (`OneChunk`), and by `Inv` the chunks of a call are what the log holds of it.
- `TypeCorrect`, with `Typed`, which adds to `TypeOK` where the items of a chunk
  come from.
- `NothingIsMissing`: what a reply brings is at most what the chunk was
  estimated at, the estimate is within the budget, and the budget within the
  firmware's limit (`MarginAssumption`), so no reply is cut off; each variable
  of the filter's list is then in the answer of the chunk that asks for it. It is
  so for the reads of a call whose answers could be foreseen (`Foreseen`): a size
  stated holds; else no value is longer than its type, and of a structure no
  entry was skipped. The code cannot know of either. Writes are echoed as they
  were sent and always fit.
- `ReadsAreCurrent`, `OneRequestIsASnapshot` and `LastWriteIsAnswered` share the
  invariant `Truthful`: a reply shows one state of the device, later than the
  request; what has been merged into a call's answers came from such replies.
  `parse_responses` and `update` let a later line replace an earlier one, and
  the written value of a variable is that of the last setter: `Merge` and
  `Written` are by position for that reason.

`CalendarDay_proofs` proves, for any length of the grid and any levels, what the
run `calendar_day` checks: `TypeCorrect`, `EditedDaysAreValid`,
`RoomForEverySpareEdge`, `ReadingIsUndone`, and `DayImplementsSchedule`, that
each call does and answers what `DaySchedule` does with the same arguments; from
`GridAssumption` (there is a step for every edge) and `GivenAssumption`. The invariant `Kept` is only that a day is
valid or has no edges, but it must hold before an edit for the edit's result to
be computed. The argument goes through what a day shows (`Shown`, the level at
each moment): a day without repeats is given by what it shows (`CanonShown`),
parking a spare edge changes nothing shown (`ParkShown`), and while fewer edges
stand than there are steps some gap is two steps wide (`RoomToPark`, by
counting), so that parking never fails.

`CalendarSync_proofs` proves `TypeCorrect` and `Unwiped` for any editors,
calendars, tasks and limits, from `CalendarAssumption` and `BudgetAssumption`.
The invariant `Inv` is about the calls and not about the device: what each of
them sets is a complete payload, its name never `None`, or a colour of a calendar that has one
(`Proper`); the runs of a call that may still be carried out end within its
setters (`Cut`, from `PackContract`); and the log holds setters of calls. What
the device holds is then the value of the latest entry, or the initial one, so
it is complete; a copy read from it is a state of a calendar; and `validate`
lets only complete ones through to the next call.

`OnlyOverlapsLose` and `OneWriteAtATime` need to know whose values the device
holds. `Traced` says it: what was not edited of a copy, or of a write made from
it, is what the device held when the copy was read; writes of one copy share
that moment and edit more and more of it; and their entries in the log are later
than it. If the edit of one editor is gone from the device, the later write that
took it away was read before the edit was there, which is the overlap. An editor
alone overlaps with itself only through a call that failed (`Failed`): one that
returned has left nothing on its way. Values
are stated for a given log (`ValueIn`), so that those of a step's two states can
be compared. `Paired` adds that a write sets a payload and then a colour, in one
run if both fit a request (`OneChunk`), and that a run lies side by side in the
log.

`Room_proofs` proves, for any callers, any rooms and any values, what the run
`room` checks: `TypeCorrect`, `HoldsWhole` and `NumbersKept`,
from `RoomAssumption`. The invariant `Inv` says that the log is made of whole
calls with the setters of each side by side (`Whole`), and that each setter was
let through and encoded as the code does (`Sound`). `NeverHalfSet` does not
follow from itself after a step: that another hold lies between the parts of the
first is excluded only because its status would be there too. `HoldsWhole`
finds it: of the status a hold wrote and a duration another wrote after it, the
second hold's own status is no later than the first, so the first lies inside
the second, and they are one. The proof uses of `api_call` what `ApiContract`
promises, not that runs take effect once.

`House_proofs` proves `HouseTyped`, `ReadsShowTheDevice`,
`LongStructuresCanBeRead` and `VariablesHaveAPlace` for any `data.xml`, any names
and any limits, from `HouseAssumption`, `BudgetAssumption` and `OneType` (entries
with one address have one type). The lists of the model are `Picked` from others,
what a list holds at some positions: its lemmas say what a picked list holds, in
which order (`PickedEmbeds`), which of its entries is last (`PickedLast`, for the
dicts in which the last entry counts) and that fewer positions have a smaller sum
(`PickedTotal`). The argument is a chain. A name has the address of the last of
its entries in `data.xml` (`ApisWhereabouts`). The getters of a unit reach each
of its variables, by its address or by its structure's, and still do after
`_readable` put variables in the place of long structures and dropped doubles
(`GettersHold`, `ExpandHolds`, `DistinctHolds`). A reply is never longer than it
was estimated (`Honest`): an address has one line however many entries declare
it, and `SkippedAmongOthers` names the one way a line can be without an estimate.
So a chunk loses no line (`AnsweredHolds`), and each variable has its own value
(`ParsedShows`). `HouseInv` adds to the properties where in `data.xml`
`match_api` is (`Matching`), and that nothing is shown before `__init__` is over.

`CalendarPeriods_proofs` proves what the run `calendar_periods` checks:
`CalendarTyped`, `PeriodsFollow`, `WindowIsShown`, `ScheduleIsShown` and
`PeriodsComplete`, for weeks, days and steps of any length, any calendar, any
window and any zones with one jump each, from `CalendarAssumption` and
`ZoneAssumption` (no clock jumps by more than a week, and no two are a week less
a day apart; Python allows offsets of less than a day).
The halving of `_gap_end` ends on the jump, wherever in the gap it starts
(`GapEndIsLanding`), so a mark is put at the first time the clock shows from its
change on (`ResolvedIsFirst`), and the order of the changes is kept. From there
on the proof is about the schedule's own times and not the clock's: the marks
are the changes of all dates in order (`Timed`), the periods lie between cuts,
with one level in each and another in the next (`Laid`), and those returned are
a part of them without a gap (`Part`). The invariant `CalendarInv` ties the
answer to the question; TLC checks it on the instance of the run. That a week
more at either side is enough for `PeriodsComplete` is because the schedule
comes round every week (`EveryWeek`): if the last period ran on past the last
mark, its level would stand for more than a week, and so, a week earlier, just
before the period began, where the schedule has another.

`Sunblind_proofs` proves what the run `sunblind` checks: `BlindTyped`,
`PositionReached`, `RotationReached` and `NoOvershoot`, for any lengths of travel,
tilt and start, any scales, any goals and any callers, from `BlindAssumption`.
Where a blind is says nothing of where it was sent, so the invariant `BlindInv`
speaks of where it will end: `EndTravel` and `EndSlats` give that from where it
stands and the ticks its motor has left, and no tick changes either (`TickEnds`,
from `OneTickMore`: n ticks after one tick are n + 1). Of the caller whose
commands are all that came since its first one, `BlindInv` says (`Mastered`)
that the blind stands from its STOP to its step, so that what it read still
holds when the step is computed, and that from the last command on the end is
one that meets the goal (`Met`). It is computed once, where the command is
carried out: `PositionStepMet` and `RotationStepMet` add up what the reading,
the time of the travel, the time of the tilt and the start leave out
(`Reading`, `Duration`, `TiltDown`, `TravelDown` and their like upwards), and
`DownStays` and `UpStays` say that to stop at an end of the way takes a blind no
further from its goal. When another command comes, `master` is nobody's and
nothing is claimed. TLC found `BlindInv` to hold on six instances with
different scales before it was proved.

Only model-checked: liveness (`CallReturns`), which is beyond the prover; every
other property of a passing run is proved.

## Findings

Two transitions in the hour the clock skips, or one in it and one at its end,
all happen when the clock jumps, and `periods` lists a period without duration
between them (`calendar.py:315`); the tests ask for none (`test_calendar.py:306`
and `:371`). A window that ends in the second pass of a repeated hour is cut off
at the first, because datetimes of one zone compare by the wall clock
(`calendar.py:355`). Both were seen with the package itself as well.

`encode_value` sends None, and anything else that is no number, to a variable of
a float type as its `str` (`generic.py:63`), where `InvalidValueError` is
promised (`README.md:157`) and raised for integers.

The properties also show where promises end that the code makes, or a reader may
assume:

- `FewestInOrder`: "as few chunks as possible" (`utils.py:20`) is so for the
  order given. Reply sizes 1, 6, 1 under a limit of 6 take three requests where
  two would do; writes must keep their order, reads would not have to.
- `AnswersComplete`, `ShowsTheDevice`: an entry of `data.xml` that `match_api`
  skips is not in the estimate of its structure's reply (`controller.py:153`). If
  the device answers a structure read with it all the same, the reply may be cut
  off and variables be missing (`Foreseen`, `SkippedAmongOthers`). In the package
  it takes entries worth 292 bytes, the distance of the budget from the limit. A
  size that the caller states and that does not hold does the same.
- `Read` of `House`: a page cannot be read, since it has no address: an
  `IQtecError` is raised. The repository's `README.md:63-70` and the comment at
  `controller.py:78-80` count pages among what `read` and `api_call` can read.
- `PeriodsAreComplete`: "a week either side" (`calendar.py:332-334`) is counted
  from the date the end has in its own zone. Where that is another zone than the
  start's, and the date is already a later one where the window starts, a period
  of less than a week may be cut short (`EndsOnItsDate`).
- `PeriodsShowTheSchedule`: in the second pass of a repeated hour the level
  reported is the one already reached, not the one scheduled for what the clock
  shows; `test_calendar.py:378-387` has it so.
- `LosesOnlyToOverlap`: two editors who overlap undo each other's edits, and
  neither is told. `Calendar.write` says so ("The controller has no partial
  update"). An editor alone loses nothing, unless a call of its own failed and it
  goes on: that write may take effect after a later one and undo it. It may also
  lose the name of a calendar by writing a copy that has none.
- `NumbersReadBack`: `encode_value` refuses a float that is not whole for an
  integer type, but a `Decimal` or a `Fraction` is cut off (`generic.py:57` and
  `:60`), and a `Fraction` for a float type goes out with its bar, which
  `decode_value` cannot read.
- `OneWriteUnlessSplit`: with a payload too long for its colour to go along, or a
  write without a colour, payload and colour may be of two writes from then on.
- `Setters` of `CalendarSync`: a colour is left out where the calendar has no
  colour variable (`calendar.py:448`), without a word to the caller, while any
  other missing variable is a `MissingVariableError`.

## Plan

Every component with behaviour of its own is modelled, and every safety property
the passing runs check is proved. What could be added: shutters whose motor slips
or whose tilt time differs by direction, and zones with two jumps in one window.

## Not modelled

Text: formatting and parsing of values beyond what tells numbers, sentinels and
words apart (`Values`), percent-encoding beyond its length and its failure, JSON,
logging, XML. The tables of variable names. Defaults for addresses `data.xml`
does not declare, which only raw calls use.
