# Smart socket firmware: specifications, model checking and proofs

This directory holds TLA+ specifications of the firmware in `src/main`: an ESP32
(two cores, FreeRTOS at 100 Hz, ESP-IDF 4.4) that switches three relays on the
orders of a button, of a server reached over a websocket, of a local web server
and of schedules kept in flash, and that switches them off when the current is
too high. Everything else in `src` is build output (`src/build`), configuration,
or a toy (`src/test.c`) and is not part of the model.

Commands: `tlc -workers 2 -config tm_serial.cfg MCTaskManager` checks one
configuration, `tlapm TaskManager_proofs.tla` checks one module of proofs.
`PROJECT.json` lists the runs, the mutants, the source lines each definition
translates, the hazards and the findings.

## 1. Inventory

| Component | Source | State | Operations | Module |
|---|---|---|---|---|
| Schedule registry | `task-manager/task_manager.c` | `task_list`, `task_count`, blob `task_list` in NVS, one FreeRTOS task per schedule | `create_task`, `delete_task`, save, load, start, boot | `TaskManager`, `ScheduleStore` |
| Relay control | `device/device.c` and its callers | level of each GPIO, `status` of each relay, the websocket client's lock | press, `updateRelay`, overcurrent, round of a schedule, notifications | `RelayControl` |
| Websocket link | `web-socket/web_socket.c` over ESP-IDF's client | client handle, the client's state and task, reconnect tasks | start, connect, lose, reconnect, close | `WebSocketLink` |
| Provisioning | `main.c`, `wifi/wifi.c`, `smartconfig/smart_config.c`, `config/config.c`, `nvs/nvs.c` | strings `WIFI_MODE`, `ssid`, `password`; driver; event groups; handlers | boot, `wifi_init`, SmartConfig, hold, long hold, `/disconnect` | `Provisioning` |
| Schedule clock and code | `task/schedule/schedule.c` | flags parsed from the 13-character code, `complete`, `count` | match of the minute and of the day, drive, report, countdown, end | `ScheduleClock` |
| NTP | `ntp/ntp_time.c` | system time, time zone, SNTP client | `obtain_time`, the schedules' two looks at the clock | `NtpTime` |
| Button timing | `task/button/button_task.c` | idle, pressed, hold; tick counts | polled every 50 ms, classified at release | `ButtonTask` |
| Application start | `main.c` | where app_main is | websocket, web server, two requests, time, AC measurement | `AppMain`, `Provisioning` |
| AC measurement | `task/ac-measure`, `ac-measure` | buffer of 20 samples, sensor | sample, trip, post | `AppMain`, `RelayControl` |
| HTTP client | `http-client/http_client.c` | none | two requests that block app_main | `AppMain` |
| Local web server | `web-server/web_server.c` | none of its own | add, delete, list schedules; `/disconnect` | in the modules above |
| MQTT, LED | `mqtt`, `task/led` | none that another part reads | nothing (not started), blinking | not modelled |

### How they interact

* The **tasks** are app_main, the button task, the AC-measure task, the LED task,
  httpd, ESP-IDF's websocket task (which runs the event handler and therefore
  `updateRelay`, `createSchedule`, `deleteSchedule`, `updateSchedule`), the event
  loop (which runs the WiFi and SmartConfig handlers), the SmartConfig task, the
  reconnect tasks, and one task per schedule. They share memory with no lock of
  their own; the two locks there are belong to ESP-IDF (the websocket client and
  the event loop).
* The websocket task, httpd and the schedule tasks call the registry; the
  registry starts and stops the schedule tasks. Each function of the registry
  writes NVS before it returns.
* Five kinds of tasks drive the relays, and each notifies the server over the
  websocket, waiting for the client's lock without a limit.
* Schedules compare with a clock and a time zone that app_main sets, late in its
  start; until then they read whatever the last reset left, in UTC.
* app_main starts the overcurrent protection last: after the websocket client, the
  web server, two HTTP requests and `obtain_time`.
* `WIFI_MODE` in NVS decides what app_main does at the next boot; the button,
  httpd and the event loop write it.

### What makes a component correct, and what is hard to test

* Registry: entries complete and inside the array; NVS equal to the list between
  two calls; a delete stops the task it found; a schedule that fires once removes
  itself. Hard: calls overlapping on two cores, handles read again after the
  shift, pointers to frames that are gone, resets between a change and its save.
* Relays: contact and status agree; the server is told what happened; the
  overcurrent trip always gets through. Hard: two writes per drive, five writers,
  a schedule deleted while it holds the lock.
* Link: the connection comes back by itself; the client has one task; tasks do
  not accumulate. Hard: a start without a lock, events that nobody handles.
* Provisioning: the mode promises a network only with credentials that have
  worked; boot never waits for ever. Hard: resets between writes, late
  acknowledgements, two owners of the WiFi driver.

* Schedules: act in their minute and on their days, let no minute go by, and one that
  fires once does so once and ends. Hard: a look a second behind sends that block, a
  clock that is wrong, in the wrong zone or being moved, midnight between two looks.
* Button: what wipes the configuration is a hold of that length, each press is one
  event. Hard: polls that are late or made up for, counters that wrap.
* Start and protection: the trip comes before the post and the next sample, the
  buffer is never exceeded, and the protection starts whatever the network does.

`PROJECT.json` lists every hazard at its line with the properties that watch it.

## 2. Plan

Done, in this order: `ScheduleStore`, `TaskManager`, `TaskManager_proofs`;
`RelayControl`; `WebSocketLink`; `Provisioning`; `NtpTime`, `ScheduleClock`;
`ButtonTask`; `AppMain`, which composes the link with app_main and the AC-measure
task; then the proofs `TaskManager_bounds`, `TaskManager_refines`,
`Provisioning_proofs`, `AppMain_proofs` (the link's too), `ButtonTask_proofs`,
`ScheduleClock_proofs`, `RelayControl_proofs`. Every safety property of every run is
now a theorem.

Left, most important first:

1. Proofs: what an abstract specification of the relays could promise (one writer at a
   time, and the server told after it), and the refinement for the rounds that nobody
   disturbs; what several clients whose calls overlap still leave true of the registry.
2. Composition of `Provisioning` and `WebSocketLink`: the link under a WiFi that is
   stopped and restarted. Their product is beyond one run of this size; it wants an
   abstract `Provisioning` that only says whether the network is there, which
   `AppMain` has as `reachable`.
3. The numbers of the AC measurement, as operators against their definition over the
   integers.

## 3. The modules and the code

### TaskManager (task_manager.c, the handlers that call it, the lifecycle of a schedule task)

One action per step between which another task can run: the comparison of one
entry (`FindNext`, `FindMatch`, `FindNone`), the move of one entry (`Shift`),
the end of the loop (`LeaveShift`), the load and the store of `task_count--`
(`DecrementLoad`, `DecrementCount`), the save, `vTaskDelete`; and on the other side
`xTaskCreate` (`Spawn`), the handle and the strings of the new entry (`FillHandle`,
`FillInfo`, each at the `task_count` of that moment), the load and the store of
`task_count++`, the save.
`pc` is the program point of each task, `loc` the locals of the function it is
in. `task_list` really is an array that keeps what lies beyond `task_count`, and
`vTaskDelete(task_list[i].handle)` reads the slot after the shift, as in line 111.

* `Reboot` keeps `flash` only. `BootSave`, `BootLoad` and `BootStart` follow
  `initialize_task_manager`: it saves the (empty) list first.
* `param` is what `pvParameters` points to: `create_task`'s frame (then `frame`
  tells what it holds now, and `FrameReuse` changes that when the caller has gone
  on), or the heap copy of `start_loaded_tasks`.
* `TaskStates` gives the answers of `eTaskGetState` that the kernel can give
  for a running, ready, blocked, deleted or freed task.
* Reading or writing past the array, `eTaskGetState(NULL)` and `vTaskDelete` of a
  freed task are undefined or abort: `Panic`, after which only `Reboot` is left.
* `overlapped` becomes true, and stays so, when two tasks are inside the registry
  at once. Serial properties are conditional on `~overlapped`; `OneClientInBounds` and
  `CallsReturn` are not.
* `nvs_set_blob` and `nvs_commit` are one step that succeeds or leaves the old
  blob (`stale`); a missing blob is the empty list; a blob of length zero can be
  written; a negative count makes a size that NVS refuses.
* `loc.loaded` is `task_count` in a register: what others store before it is stored back
  is lost, and the count can fall without end. The load comes after the shift, and
  the loops read `task_count` at each round, as the code is compiled (`sdkconfig`
  leaves the optimization at its default, `-Og`, which moves no load out of a loop).
* The strings of one entry are one step, and so is the copy of one entry in the shift.
* `schedule_update_handler` is registered for no URI and
  `delete_all_tasks_to_nvs` has no caller: both are left out.
* A schedule is an id and whether it fires once or weekly. When it fires is open.

### ScheduleStore

What the registry promises while its calls do not overlap: a bounded sequence in the
order of insertion, of which NVS holds one copy that is always some state of the
sequence. `todo` is what the call being served has still to do: a client's delete
removes the first entry with the id, a create from the websocket does that and then
adds, one from HTTP only adds. A schedule that has fired removes one entry, whichever
it is: the id it compares is in a stack frame that may have been reused (finding 2).
In `TaskManager`, `Store` is the refinement mapping: `StoreView` skips, during a shift,
the slot that has already been overwritten or copied, and `TodoView` reads `todo` from
the point the task inside the registry has reached.

### RelayControl (device.c, button_task.c, web_socket.c, ac_measure_task.c, schedule.c)

What a task still has to do in its round is a sequence of operations, executed one at
a time: an operand of the button's condition (`test`), a relay of a schedule's loop
(`check`, or `skip` if it was not chosen or, for a weekly schedule, if it is not
one of its days by then), the two writes of a drive (`gpio`, which leaves `status` as
what comes next), a message (`notify`, `report`). A step replaces the head of the
sequence by what it leads to, so a round only ever changes at its head. The
relay of index 2 closes on level 0. `lock` is the lock of ESP-IDF's websocket
client: `esp_websocket_client_send_text` takes it with `portMAX_DELAY`; the client's
task holds it (recursively) while it dispatches events, so `updateRelay` runs
under it. `Kill` is the effect of `delete_task` on a schedule in its round: the
lock it holds is lost. `torn` and `lastDriver` are histories. A send that is cut
off (`NotifyFails`, or `Send` that leaves `view`) loses its notification, as in
the code, which logs the error. (It logs one on success as well:
`esp_websocket_client_send_text` returns the number of bytes, which is compared
with `ESP_OK`.) The relay number in `updateRelay` is assumed to be one of the
relays.

### WebSocketLink (websocket_app_start, websocket_event_handler, reconnect_websocket)

ESP-IDF's client is external: its states, its task, its automatic reconnection
and the check in `esp_websocket_client_start` are modelled from how this code uses
it (auto reconnect is not disabled in `websocket_cfg`, the start is called again
from the reconnect tasks). The check of the state and the creation of the task are
two steps with no lock, and the new task sets the state itself when it first runs.
`closed` is a history: a close frame has arrived.

### Provisioning (main.c, wifi.c, smart_config.c, config.c, nvs.c, and their callers)

`pc` is where app_main, the button task and httpd are; `event` is the event
loop's task inside a handler that writes NVS, one string per step; `queue` holds
the events the driver has posted. `Reset` may come at any step and keeps `nvs`
and `sta`, the driver's own copy of its configuration in flash (reduced to the
pair, when an access point accepts it, or NULL). `ESP_ERROR_CHECK` on a call that
fails aborts, which is a `Reset` (`ApplyAborts`, `SmartAborts`). Unregistering and
registering handlers wait for the event loop's mutex. `excused` marks the stored
pair as one the code does not vouch for: a write failed, `config_init` ran, or a
pair arrived while the stored mode was still `STA`.

### NtpTime, ScheduleClock (ntp_time.c, schedule.c)

`NtpTime` has the system time (seconds modulo a week), the flag `valid` (its year is
2016 or later), the time zone, SNTP, and `obtain_time` with its retries;
`SntpAnswers` is external. `read` is `now`, which `SetTime` writes back later, as line
60 does. `local`, `MinuteOf` and `is_today_selected` are what the schedules see.

`ScheduleClock` extends it with one task of `task_schedule`: the look at the minute
(`ReadMinute`), one relay of the loop at a time, with a look at the day for each
(`Drive`, `Skip`), the notification, which lasts as long as the websocket client's
lock is held by others (`send`, until `Notified`), the report of a schedule that
fires once, the countdown, the sleep. `plan` is what `parse_code` made of the code:
any plan stands for a code of another length, whose flags the code never writes.
`OthersSwitch` is every other driver of the relays. A round that can run is kept from
it for at most `Slack` seconds, in which time passes; a sleep or a wait for the lock
is as long as it is. Histories: `steady` (this round's look at the clock was right
and still is), `calm` (nothing has disturbed the task since its minute began),
`toggled` (others have switched a relay since), `switched`. Failing `malloc` ends in
`abort`, as returning from a FreeRTOS task function does.

### ButtonTask (button_task.c)

One action per branch of the switch, with `vTaskDelayUntil` behind each: the next
wake-up is computed from the last one, so polls missed during a handler come at once.
Tick counts are modulo `WRAP`, and `Elapsed` is the unsigned difference of line 82. `pc`
is where the task is: about to poll, asleep, or in a handler (what handlers do is
in `RelayControl` and `Provisioning`). Histories: how long the button is down
(`held`), whether it came up and down again between two polls (`gap`), whether it
went down while the task did not look (`muffled`), whether the press has had its
event yet (`pushed`).

### AppMain (main.c, http_client.c, ac_measure_task.c, unit_acmeasure.c)

Extends `WebSocketLink`: the link's steps go on beside app_main's, which are in the
order of `main.c`: the client, the web server, the two requests, `obtain_time`, the
AC-measure task. A request blocks app_main and only the log shows what comes of
it. `acmeasure_init` may fail, and the device goes on without protection. The task
samples (`Readings`: the line, or anything when the I2C read failed), compares with
`Limit`, opens all relays, notifies, and posts a full buffer; a failed
`malloc` before a post ends the program. Nothing the link does disturbs this, nor the
other way round: `AppRunsTheLink` says so of the link, for every execution.

## 4. What the runs check

| Run | Question | Distinct states |
|---|---|---|
| `tm_serial` | Calls of the websocket client and of schedules that do not overlap, with reused frames, failing NVS, failing task creation and resets: registry complete, ids unique, no write past the array, NVS equal, refinement of `ScheduleStore` | 484k |
| `tm_overlap` | All interleavings of httpd, two schedules and boot, with lost updates of `task_count`: the count within the capacity, no loop past the array, every call returns or panics | 682k |
| `tm_found`, `tm_once`, `tm_boot` | Findings 1 to 3 below | |
| `relay` | Pin, status, lock, the server's view, and that every round ends | 146k |
| `relay_answer` | Finding 4 | |
| `app` | One client task beside leaked reconnect tasks, the link returns; the protection starts and goes on without a network, trips in time, keeps its samples | 178k |
| `link_leak` | Finding 5 | |
| `prov` | The stored mode against the stored pair, and the wait of `wifi_init` | 1.3M |
| `clock` | When a schedule acts, that no undisturbed minute goes by, that once is once, that `obtain_time` returns and leaves a clock that only ticks | 471k |
| `button` | Holds classified within one poll, one event per press, no press missed, the button heard again | 166k |

**Bounds.** `tm_serial`: two slots (one that can be shifted and one beyond which an
entry can be written), two ids, two handles (they let a task outlive its entry while
another runs); the websocket client only, as it makes the calls whose ids must stay
unique; a reused frame can read as either id. Other mixes of clients and more handles are
covered by the theorems. `tm_overlap`: httpd, one kind of schedule, and two handles, so
that the client can add a second schedule while the first deletes itself; no reused
frames, as one kind of schedule leaves no other id to find. Every lost
update lowers the count for good, so the run cuts the executions in which it falls below
`Floor`, -1 (a negative count is reached, and only makes the loops end at once), and NVS
refuses every access (so boot finds nothing to start, and schedules beside the rest of
boot are left to the proof). The invariant is proved without these bounds; that
calls return is shown within them. `relay`: one relay, the inverted
one, as every property speaks of one relay at a time and the tasks that drive several
do so one after the other; the module keeps the sequence of relays. One schedule task
that fires once (ON) or weekly (OFF). `app`: two reconnect tasks, two client tasks (the
second one is what `OneClientTask` excludes), a buffer of two samples (one that
leaves room, one that fills it), currents just below and at the limit. `prov`: a pair
that works and one that does not, `MAXIMUM_RETRY` 1 (the counter only decides when the
fail bit is set), two calls of `smart_config_start` between resets (one started while
another is running), at most one event waiting when the driver posts another.
`clock`: a week of two days of two minutes of three seconds, so that a minute has
room for a round, a second of delay and the sleep, and the last minute of a day
borders on the next; an offset of one minute, three retries, two relays, plans that
fire once, weekly on one or both days, and never. `button`: ticks modulo 24, polls
every 2 ticks at most 1 late, thresholds 4 and 8: everything wraps at every
place of a hold (12 ticks at most) and of a blocked handler (5 ticks behind, more
than two missed polls); that holds and blocked handlers are shorter than the width of
the counter is an assumption (2^32 ticks are 497 days).

**Fairness.** The scheduler is preemptive and every task blocks or sleeps in each
of its rounds, so each task that can go on does (weak fairness). `TaskManager`
asks for it only inside the registry, where a task always has a step it can take:
its fairness says that such a task moves again or leaves (`Fairness`). In `RelayControl` the tasks other than the
client's own are strongly fair, which matters only where they wait for the lock:
FreeRTOS queues the waiters of a mutex and the client's task gives it back between
two polls. `WebSocketLink` asks nothing of the network, which
appears only in the hypothesis of `LinkReturns`. `Provisioning` asks that an
access point answers every attempt, which includes that DHCP does: if it never
does, `wifi_init` waits for ever, as the code has no time-out there. `ScheduleClock`, `ButtonTask` and `AppMain` ask
that time passes, that their tasks run, that a handler or a notification returns (the
lock comes back, which `RelayControl` shows and says when not) and that an HTTP request
ends (`esp_http_client` has a time-out). Nothing is
assumed of users, phones, the server, deletes or resets.

**Mutants.** Each property has a mutant: a definition of the module
changed the way a bug would change the code (a forgotten save, a lost decrement,
an inverted relay driven directly, a mode stored before the pair was tried, a day of
the week that is not converted, a subtraction that does not wrap), under
which the run finds the property violated.

## 5. Findings

1. `tm_found` (task_manager.c:111): deleting an entry that is not the last stops
   the task of the entry after it; the deleted schedule goes on running.
2. `tm_once` (task_manager.c:30): a schedule that fires once may remove another
   schedule's entry, because its id is read from a frame that is gone.
3. `tm_boot` (task_manager.c:18): boot overwrites the saved schedules with the
   empty list before it reads them, so none survives a reset.
4. `relay_answer` (web_socket.c:87): `updateRelay` turns a relay on for status 0
   and answers with that 0, while every other notification says 1 for on.
5. `link_leak` (web_socket.c:226): the task created for each lost connection never
   ends while the client reconnects by itself.

Seen while modelling, and part of the models, but checked by no run: a task found
ready is removed from the list and not stopped (task_manager.c:109); after a
close frame nothing restarts the client; after `wifi_init` has seen one outcome
nobody reconnects a station; `config_init` writes the name of the network to a
key nobody reads (config.c:5); a weekly schedule closes a relay again, every second of
its minute, that the user or the overcurrent trip has opened (schedule.c:85); a
schedule that fires once completes although its relay was already as it should be,
or the notification failed; without an answer of the time server schedules run on the
clock of 1970, until SNTP, which is left running, moves it.

Seen and abstracted: the posted samples are invalid JSON when the apparent power is
0, as `%.d` prints nothing then (ac_measure_task.c:72), and the body of
`send_device_data` lacks a comma (http_client.c:54); `post_relay_to_api` sends a GET
with no body; the sampling loop waits 500 ms where its comment says 50; the voltage
times 10 and the two powers are cut to 16 bits.

## 6. What is proved

With TLAPS, for all values of the constants that satisfy the named assumptions:
`TaskManagerAssumption` (the capacity is positive, the kinds of tasks are disjoint,
NULL is none of the values), `FiniteAssumption` (finitely many ids), `WebSocketLinkAssumption` (finitely many tasks, app_main is not a reconnect
task), `ProvisioningAssumption` (the bounds are numbers,
credentials are pairs), `NtpTimeAssumption` and `ScheduleClockAssumption` (the parts of
a week are positive, the relays distinct, a day has more than one minute and a minute
more seconds than two rounds can be late), `RelayControlAssumption` (the relays are
distinct, the tasks too, NULL is none of the values), `ButtonTaskAssumption` (holds and blocked
handlers are shorter than the width of the counter), `AppMainAssumption` (buffer and
limit are positive). TLC evaluates each of them in the runs.

**TaskManager_proofs.** `TypeCorrect`: `Spec => []TypeOK`, under all interleavings. The
type needs the bounds of the loop variables, which is why `TypeInv` and `LocalsOK` go
together. `RegistryStaysConsistent`, `NvsStaysMirrored` and `TailDeleteStopsItsTask`
prove `RegistryConsistent`, `NvsMirrors` and `DeleteStopsTail`. They rest on one
inductive invariant; none is inductive itself: whether the list is complete depends on
where the one task inside the registry is, and on what it has read. So `IInv` says
(a) which tasks the kernel knows and where they are (`AliveOK`); (b) that while
`overlapped` is false at most one task is inside (`OverlapInv`); and (c) for that
task, what holds at each program point (`SerialInv`): in the search the index is
within the count, during the shift the list is complete but for the slot being moved,
after the decrement the freed slot still holds what was moved out of it, before the
count is raised the new entry is already complete, and NVS equals the list except
between a change and its save. One lemma per group of actions shows that each step
preserves it; actions by a task when another is inside set `overlapped`, and nothing
is left to show.

**TaskManager_bounds.** `OneClientStaysInBounds`: `Spec => []OneClientInBounds`, under all
interleavings, for any number of schedules that delete themselves while the one client
calls. The count itself means little by then: lost updates let it drift from the list
without a bound, and with two clients nothing holds it. With one client, `Bounded`
says that what a delete has loaded was within the capacity, so it stores less; that
the client has seen room for its entry and loads a count with that room; and that
nobody else raises the count in between. Boot sets the count while nobody else is inside
(`BootAlone`). Hence no loop reads past the array either.

`IdsStayUnique`: `Spec => []UniqueIds`, and `ArrayNeverOverflows`: `Spec => []NoOverflow`,
both without an HTTP client (which creates without looking) and overlapping calls.
`create_task` itself checks neither; the websocket's handler deletes the id first. `UInv` adds to
`IInv` that the ids held are different, in the list but for the slot a shift has
reached (`Distinct`) and in NVS (`FlashDistinct`), and that a create finds its id
absent from the search that failed, or from the removal that succeeded, until its entry is
written (`Replaces`, `Absent`). Then a full list and the
id that is missing from it would be more ids than there are slots.

**TaskManager_refines.** `RegistryIsAStore`: `SerialSpec => ImplementsStore`, whatever
reused frames hold. Each step of a shift moves the hole that `StoreView` leaves out and
changes nothing else (`HoleMoves`), and the step that finds the entry is the abstract
removal (`RemovalIsHole`, `MatchIsDrop`). For a client it removes the first match, and
nothing only if there is none, because of `Knows`: what its search has passed does not
have the id in its request, which stays what it is. A schedule reads its id again for
each comparison, and what it finds is some entry. `Knows` also keeps the entry that is
written beyond the end until the count is raised, which is when it is added. Since one
task at a time is inside, `TodoView` is what that task has left (`TodoAlone`), and nothing
when there is none (`TodoNone`).

**RelayControl_proofs.** `RelayTypes`, `PinAgrees` (`PinFollowsStatus`), `HolderSends`
(`LockHolderSends`) and `LastDriverTellsStatus` (`ViewFollowsDriver`), for any relays,
inverted or not, any number of schedule tasks and any schedules, under all interleavings
and deletes. `RInv` says what a round can be, position by position: only its head is
the second write of a drive, a handler of the client task ends with a message, and
everything a round of another task still drives and tells has one value (`Program`). A
relay whose last drive was not torn has either nobody between the two writes, and then
contact and status agree, or one task, whose value the contact has already (`Pin`). What
`ViewFollowsDriver` needs is the future of a round: a notification that no drive of the
same relay precedes in what is left repeats the status, as long as its task was the
last to write it (`Truthful`). The lemmas on `Head`, `Tail` and `\o` stand first.

**Provisioning_proofs.** `TypeCorrect`, and `StaModeIsTrue`: `Spec => []StaModeWorks`, for
any number of networks, retries, restarts of SmartConfig and waiting events. `PInv`
follows the credentials from the phone's event to the write of the mode: one phone is
served at a time, so its event is in the queue, being handled or applied, and never
twice (`OnePhone`); what is being applied is what is stored (`Applying`), then it is what
the driver tries (`Tried`); the driver is online only with a pair that has worked
(`Online`); what is acknowledged has worked (`AckedWorked`), which is what the
write of `STA` relies on.

**AppMain_proofs.** First the link: `OneClientAlways`: `Spec => []OneClientTask`, for any
number of reconnect tasks. Until
a close frame the link is in one of three phases (`Stopped`, `Created`, `Started`);
only in the first is app_main, and nobody else, past the check of the start, and in
the last two exactly one client task exists; the state is never UNKNOW in the last, so
nobody passes the check. Then `AppRunsTheLink`: `AppSpec => Spec`, every execution beside app_main
is one of the link, so it holds there (`AppKeepsTheLink`). `AppTypeCorrect`, `NoSampleLost`
(`SamplesKept`), `TripsWhenItShould` (`OvercurrentOpens`): `AInv` says that the entries
before the index are the unposted ones (`Filled`), where the buffer has room
(`Room`), and what each point of a round knows about the sample (`Judged`).

**ButtonTask_proofs.** `TypeCorrect`, for any width of the counter, and
`EventsHavePresses` (`OneEventPerPress`): a press that is seen, or can be, has had no
event yet (`Owed`). `HoldsMeasured` (`HoldsAreMeasured`) and `PressesSeen`
(`PressesAreSeen`): `BInv` bounds the age of a press that no poll has seen by the time since
the last poll (`Unseen`), and the length of one that was seen by the unsigned difference of
tick counts, give or take one poll (`Measured`). Both are statements about differences
modulo `WRAP`, so the lemmas say how a difference changes with a tick and with a new
wake-up time, and when the wrap cannot be reached: that is where
`ButtonTaskAssumption` is needed.

**ScheduleClock_proofs.** `TypeCorrect`; `ClockOnlyTicks` (`ClockStays`): once the time is
there, SNTP is stopped and app_main is past everything that moves the clock
(`ClockInv`); `OnceIsEnough` (`OnceLetsGo`): in its round a schedule that fires once has
switched only relays its loop has passed, and after it it is complete (`OnceInv`).

`DrivesAreOnTime` (`DrivesOnTime`) and `MinutesAreServed` (`MinuteServed`), for any calendar,
any zone and any lateness that the assumption allows. The lemmas on the calendar come
first: what a second does to the minute, to the day and to a moment k seconds ago,
across the end of a day and of the week. `MInv` measures a round against its minute: one
that began before it is at most `Slack` seconds into it when it ends (`Old`); the sleep
behind it ends within twice that; the next look is therefore in the minute (`InTime`);
and what a round has passed is as the plan says or has been toggled by others
(`ServedTo`). Hence the assumption `Seconds > 2 * Slack`: with a minute of `2 * Slack` seconds
two late rounds in a row can step over it, and TLC shows how (four seconds, `Slack` 2);
with one second more none can. In the firmware a minute has 60 seconds, and a round is
late only while other tasks compute: 30 seconds without a pause are more than any does.

**Only model-checked.** Liveness (`CallsReturn`, `RoundsEnd`, `LinkComesBack`, `WaitEnds`,
`OnceEnds`, `ObtainReturns`, `ListensAgain`, `ProtectionStarts`, `MeasuresOn`) is out of
the prover's reach, as is anything that needs ENABLED or induction over data. These
nine are all: every invariant and every action property of the passing runs is a theorem.

## 7. What is not modelled

MQTT (its start is commented out in `app_main`) and the LED (it reads statuses and
blinks); handlers of the web server that only read, `device_update_handler`, which
stores a string that nothing reads, and functions nothing calls or registers
(`schedule_update_handler`, `delete_all_tasks_to_nvs`, `post_device_to_api`,
`write_nvs`, `read_nvs`); the characters of codes and messages, and with them the posted
JSON; voltage and powers, which only the post reads, and the widths they are cut to;
sizes of strings and buffers; the lock inside NVS; memory, beyond allocations and task
creations that may fail. ESP-IDF and FreeRTOS are modelled only where the properties
depend on them.
