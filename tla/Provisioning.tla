---------------------------- MODULE Provisioning ----------------------------
(***************************************************************************)
(* How the device gets on the network: app_main reads WIFI_MODE from NVS   *)
(* and either connects with the stored credentials and waits for the       *)
(* outcome (main/wifi/wifi.c), or starts SmartConfig, in which a phone     *)
(* sends the credentials (main/smartconfig/smart_config.c).  A held button *)
(* and the server's /disconnect go back to SmartConfig at any time, and a  *)
(* longer hold resets the configuration (main/config/config.c).            *)
(*                                                                         *)
(* Events of the WiFi driver are handled one after another by the event    *)
(* loop's task, which holds the loop's mutex meanwhile.  What survives a   *)
(* reset is what has been written to NVS, one string at a time.            *)
(***************************************************************************)
EXTENDS Naturals, Sequences

CONSTANTS
  Credentials,   \* [ssid, password] pairs a phone can send
  Working,       \* the pairs an access point accepts
  MAXIMUM_RETRY, \* EXAMPLE_ESP_MAXIMUM_RETRY
  MaxStarts,     \* bound: calls of smart_config_start between two resets
  MaxQueue,      \* bound: events waiting when the driver posts another
  Default,       \* the password config_init stores
  NULL           \* the empty string, a value that was never saved

Starters  == {"button", "httpd"}
Procs     == Starters \cup {"main"}
Modes     == {NULL, "STA", "SMART_CONFIG"}
Ssids     == {c.ssid : c \in Credentials} \cup {NULL}
Passwords == {c.password : c \in Credentials} \cup {Default, NULL}

ASSUME ProvisioningAssumption ==
  /\ MAXIMUM_RETRY \in Nat /\ MaxStarts \in Nat /\ MaxQueue \in Nat
  /\ Credentials \subseteq [ssid : Ssids, password : Passwords]
  /\ Working \subseteq Credentials
  /\ NULL \notin Credentials /\ NULL \notin {"STA", "SMART_CONFIG"}

Events    == [type : {"START", "DISCONNECTED", "GOT_IP", "ACK_DONE"}]
               \cup [type : {"GOT_SSID_PSWD"}, cred : Credentials]

VARIABLES
  nvs,      \* the strings WIFI_MODE, ssid and password
  sta,      \* the driver's configuration, which it keeps in flash itself: a pair
            \* an access point accepts, NULL for any other
  radio,    \* off | down | connecting | online
  queue,    \* events the loop has not dispatched yet
  handlers, \* handlers that are registered: wifiAny, wifiIp, smart
  bits,     \* wifi.c's event group: connected, fail
  retries,  \* s_retry_num
  pc,       \* app_main, the button task and httpd
  event,    \* the event loop's task inside a handler that writes to NVS
  smart,    \* the driver's SmartConfig: off | listening | sent | acked
  group,    \* smart_config.c's event group, numbered at its creation
  done,     \* the groups whose ESPTOUCH_DONE_BIT is set
  created,  \* smartconfig_example_tasks that have not run yet
  waiting,  \* the group the running one waits on
  joined,   \* history: the configurations with which the device got an IP
  excused   \* history: the stored pair may be incomplete, see StaModeWorks

flash  == <<nvs, sta>>
wifi   == <<bits, retries>>
tasks  == <<smart, group, done, created, waiting>>
vars   == <<nvs, sta, radio, queue, handlers, bits, retries, pc, event, smart,
            group, done, created, waiting, joined, excused>>

Idle == [at |-> "idle"]

Booting == [p \in Procs |-> IF p = "main" THEN "read" ELSE "idle"]

Init ==
  /\ nvs = [mode |-> NULL, ssid |-> NULL, password |-> NULL]
  /\ sta = NULL
  /\ radio = "off" /\ queue = << >> /\ handlers = {}
  /\ bits = {} /\ retries = 0
  /\ pc = Booting /\ event = Idle
  /\ smart = "off" /\ group = 0 /\ done = {} /\ created = 0 /\ waiting = 0
  /\ joined = {} /\ excused = FALSE

\* A reset, or ESP_ERROR_CHECK aborting.
Reset ==
  /\ radio' = "off" /\ queue' = << >> /\ handlers' = {}
  /\ bits' = {} /\ retries' = 0
  /\ pc' = Booting /\ event' = Idle
  /\ smart' = "off" /\ group' = 0 /\ done' = {} /\ created' = 0 /\ waiting' = 0
  /\ UNCHANGED <<flash, joined, excused>>

Accepted(pair) == IF pair \in Working THEN pair ELSE NULL
Stored         == [ssid |-> nvs.ssid, password |-> nvs.password]

\* save_string_to_nvs, which logs a failure and goes on.
Save(key, value) == nvs' \in {nvs, [nvs EXCEPT ![key] = value]}
Failed(key, value) == nvs'[key] # value

Goto(p, label) == pc' = [pc EXCEPT ![p] = label]
Post(type)     == queue' = Append(queue, [type |-> type])

-----------------------------------------------------------------------------
(***************************************************************************)
(* Mutants: the bugs the properties are tested against.                    *)
(***************************************************************************)

\* The reset configuration is written as a mode.
ConfigModeDefault ==
  /\ pc["button"] = "config"
  /\ Save("mode", Default)
  /\ excused' = (excused \/ Failed("mode", Default))
  /\ Goto("button", "idle")
  /\ UNCHANGED <<sta, radio, queue, handlers, wifi, event, tasks, joined>>

\* The mode is saved as soon as the credentials are, before they are tried.
SavePasswordAndMode ==
  /\ event.at = "password"
  /\ nvs' = [nvs EXCEPT !.password = event.cred.password, !.mode = "STA"]
  /\ excused' = (nvs'.ssid # event.cred.ssid \/ nvs.mode = "STA")
  /\ event' = [event EXCEPT !.at = "apply"]
  /\ UNCHANGED <<sta, radio, queue, handlers, wifi, pc, tasks, joined>>

\* The fail bit is never set.
DisconnectedForever ==
  /\ event = Idle /\ queue # << >> /\ Head(queue).type = "DISCONNECTED"
  /\ queue' = Tail(queue)
  /\ retries' = IF "wifiAny" \in handlers /\ retries < MAXIMUM_RETRY
                  THEN retries + 1 ELSE retries
  /\ radio' = IF radio = "down" /\ (retries' # retries \/ "smart" \in handlers)
                THEN "connecting" ELSE radio
  /\ UNCHANGED <<flash, handlers, bits, pc, event, tasks, joined, excused>>

-----------------------------------------------------------------------------
(* app_main                                                                *)

\* wifi_mode is the stored string, empty when the key cannot be read, and
\* whatever the stack holds when NVS cannot be opened.
ReadMode ==
  /\ pc["main"] = "read"
  /\ \E mode \in {nvs.mode, NULL, "other"} :
       Goto("main", CASE mode = "STA" -> "wifi"
                      [] mode \in {"SMART_CONFIG", NULL} -> "stop"
                      [] OTHER -> "up")
  /\ UNCHANGED <<flash, radio, queue, handlers, wifi, event, tasks, joined, excused>>

\* wifi_init, up to its wait.
WifiInit ==
  /\ pc["main"] = "wifi"
  /\ handlers' = handlers \cup {"wifiAny", "wifiIp"}
  /\ sta' \in {Accepted(Stored), NULL}   \* NULL too when a key cannot be read
  /\ radio' = "down"
  /\ Post("START")
  /\ Goto("main", "wait")
  /\ UNCHANGED <<nvs, wifi, event, tasks, joined, excused>>

\* xEventGroupWaitBits without a limit.
WaitDone ==
  /\ pc["main"] = "wait" /\ bits # {}
  /\ Goto("main", "unregisterIp")
  /\ UNCHANGED <<flash, radio, queue, handlers, wifi, event, tasks, joined, excused>>

\* esp_event_handler_instance_unregister waits for the loop's mutex.
Unregister(from, handler, to) ==
  /\ pc["main"] = from /\ event = Idle
  /\ handlers' = handlers \ {handler}
  /\ Goto("main", to)
  /\ UNCHANGED <<flash, radio, queue, wifi, event, tasks, joined, excused>>
UnregisterIp  == Unregister("unregisterIp", "wifiIp", "unregisterAny")
UnregisterAny == Unregister("unregisterAny", "wifiAny", "up")

-----------------------------------------------------------------------------
(* smart_config_start, and who calls it.                                   *)

\* A hold takes 2 seconds, so app_main is past its first steps.
Booted == pc["main"] \in {"wait", "unregisterIp", "unregisterAny", "up"}

\* handle_button_hold, and disconnect_device, which is asked over the network.
BackToSmartConfig(p) ==
  /\ pc[p] = "idle" /\ Booted /\ group < MaxStarts
  /\ p = "httpd" => pc["main"] = "up" /\ radio = "online"
  /\ Save("mode", "SMART_CONFIG")
  /\ excused' = (excused \/ Failed("mode", "SMART_CONFIG"))
  /\ Goto(p, "stop")
  /\ UNCHANGED <<sta, radio, queue, handlers, wifi, event, tasks, joined>>

\* esp_wifi_stop: whether a station that was connecting hears of it is up to
\* the driver.
StopWifi(p) ==
  /\ pc[p] = "stop"
  /\ radio' = "off"
  /\ \/ radio \in {"online", "connecting"} /\ Post("DISCONNECTED")
     \/ radio # "online" /\ UNCHANGED queue
  /\ Goto(p, "group")
  /\ UNCHANGED <<flash, handlers, wifi, event, tasks, joined, excused>>

\* A new event group, whoever waits on the old one.
CreateGroup(p) ==
  /\ pc[p] = "group"
  /\ group' = group + 1
  /\ Goto(p, "start")
  /\ UNCHANGED <<flash, radio, queue, handlers, wifi, event, smart, done, created,
                 waiting, joined, excused>>

\* The handlers are registered and WiFi starts, if it was not started.
StartWifi(p) ==
  /\ pc[p] = "start" /\ event = Idle
  /\ handlers' = handlers \cup {"smart"}
  /\ radio' = IF radio = "off" THEN "down" ELSE radio
  /\ IF radio = "off" THEN Post("START") ELSE UNCHANGED queue
  /\ Goto(p, IF p = "main" THEN "up" ELSE "idle")
  /\ UNCHANGED <<flash, wifi, event, tasks, joined, excused>>

\* config_init, on a hold of 4 seconds: the password, and then the mode.  (The
\* name of the network goes to the key "wifi", which nobody reads.)
ConfigPassword ==
  /\ pc["button"] = "idle" /\ Booted
  /\ Save("password", Default)
  /\ excused' = TRUE
  /\ Goto("button", "config")
  /\ UNCHANGED <<sta, radio, queue, handlers, wifi, event, tasks, joined>>

ConfigMode ==
  /\ pc["button"] = "config"
  /\ Save("mode", "SMART_CONFIG")
  /\ excused' = (excused \/ Failed("mode", "SMART_CONFIG"))
  /\ Goto("button", "idle")
  /\ UNCHANGED <<sta, radio, queue, handlers, wifi, event, tasks, joined>>

-----------------------------------------------------------------------------
(* The event handlers of wifi.c and smart_config.c, in the event loop.     *)

Dispatch(type) == event = Idle /\ queue # << >> /\ Head(queue).type = type

Started ==
  /\ Dispatch("START")
  /\ queue' = Tail(queue)
  /\ radio' = IF "wifiAny" \in handlers /\ radio = "down" THEN "connecting" ELSE radio
  /\ created' = IF "smart" \in handlers THEN created + 1 ELSE created
  /\ UNCHANGED <<flash, handlers, wifi, pc, event, smart, group, done, waiting,
                 joined, excused>>

Disconnected ==
  /\ Dispatch("DISCONNECTED")
  /\ queue' = Tail(queue)
  /\ LET retry == "wifiAny" \in handlers /\ retries < MAXIMUM_RETRY IN
     /\ retries' = IF retry THEN retries + 1 ELSE retries
     /\ bits' = IF "wifiAny" \in handlers /\ ~retry THEN bits \cup {"fail"} ELSE bits
     /\ radio' = IF radio = "down" /\ (retry \/ "smart" \in handlers)
                   THEN "connecting" ELSE radio
  /\ UNCHANGED <<flash, handlers, pc, event, tasks, joined, excused>>

GotIp ==
  /\ Dispatch("GOT_IP")
  /\ queue' = Tail(queue)
  /\ IF "wifiIp" \in handlers
       THEN retries' = 0 /\ bits' = bits \cup {"connected"}
       ELSE UNCHANGED wifi
  /\ UNCHANGED <<flash, radio, handlers, pc, event, tasks, joined, excused>>

GotCredentials ==
  /\ Dispatch("GOT_SSID_PSWD")
  /\ queue' = Tail(queue)
  /\ event' = [at |-> "ssid", cred |-> Head(queue).cred]
  /\ UNCHANGED <<flash, radio, handlers, wifi, pc, tasks, joined, excused>>

SaveSsid ==
  /\ event.at = "ssid"
  /\ Save("ssid", event.cred.ssid)
  /\ excused' = (excused \/ nvs.mode = "STA" \/ Failed("ssid", event.cred.ssid))
  /\ event' = [event EXCEPT !.at = "password"]
  /\ UNCHANGED <<sta, radio, queue, handlers, wifi, pc, tasks, joined>>

SavePassword ==
  /\ event.at = "password"
  /\ Save("password", event.cred.password)
  /\ excused' = (nvs'.ssid # event.cred.ssid \/ nvs.mode = "STA"
                   \/ Failed("password", event.cred.password))
  /\ event' = [event EXCEPT !.at = "apply"]
  /\ UNCHANGED <<sta, radio, queue, handlers, wifi, pc, tasks, joined>>

\* esp_wifi_disconnect, esp_wifi_set_config, esp_wifi_connect.
ApplyCredentials ==
  /\ event.at = "apply" /\ radio # "off"
  /\ IF radio = "down" THEN UNCHANGED queue ELSE Post("DISCONNECTED")
  /\ sta' = Accepted(event.cred)
  /\ radio' = "connecting"
  /\ event' = Idle
  /\ UNCHANGED <<nvs, handlers, wifi, pc, tasks, joined, excused>>

\* ESP_ERROR_CHECK(esp_wifi_disconnect()) after another task has stopped WiFi.
ApplyAborts == event.at = "apply" /\ radio = "off" /\ Reset

Acknowledged ==
  /\ Dispatch("ACK_DONE")
  /\ queue' = Tail(queue)
  /\ done' = done \cup {group}
  /\ event' = [at |-> "mode"]
  /\ UNCHANGED <<flash, radio, handlers, wifi, pc, smart, group, created, waiting,
                 joined, excused>>

SaveMode ==
  /\ event.at = "mode"
  /\ Save("mode", "STA")
  /\ event' = Idle
  /\ UNCHANGED <<sta, radio, queue, handlers, wifi, pc, tasks, joined, excused>>

-----------------------------------------------------------------------------
(* smartconfig_example_task.                                               *)

SmartBegin ==
  /\ created > 0 /\ smart = "off" /\ waiting = 0
  /\ created' = created - 1
  /\ smart' = "listening"
  /\ waiting' = group
  /\ UNCHANGED <<flash, radio, queue, handlers, wifi, pc, event, group, done,
                 joined, excused>>

\* ESP_ERROR_CHECK(esp_smartconfig_start(...)) while SmartConfig is running.
SmartAborts == created > 0 /\ smart # "off" /\ Reset

SmartOver ==
  /\ waiting \in done
  /\ smart' = "off" /\ waiting' = 0 /\ done' = done \ {waiting}
  /\ UNCHANGED <<flash, radio, queue, handlers, wifi, pc, event, group, created,
                 joined, excused>>

-----------------------------------------------------------------------------
(* The driver, the access point, the phone and the power supply.           *)

Room == Len(queue) < MaxQueue

Joins ==
  /\ Room /\ radio = "connecting" /\ sta # NULL
  /\ radio' = "online"
  /\ joined' = joined \cup {sta}
  /\ Post("GOT_IP")
  /\ UNCHANGED <<flash, handlers, wifi, pc, event, tasks, excused>>

Refused ==
  /\ Room /\ radio = "connecting"
  /\ radio' = "down"
  /\ Post("DISCONNECTED")
  /\ UNCHANGED <<flash, handlers, wifi, pc, event, tasks, joined, excused>>

Lost ==
  /\ Room /\ radio = "online"
  /\ radio' = "down"
  /\ Post("DISCONNECTED")
  /\ UNCHANGED <<flash, handlers, wifi, pc, event, tasks, joined, excused>>

PhoneSends(cred) ==
  /\ Room /\ smart = "listening" /\ radio # "off"
  /\ smart' = "sent"
  /\ queue' = Append(queue, [type |-> "GOT_SSID_PSWD", cred |-> cred])
  /\ UNCHANGED <<flash, radio, handlers, wifi, pc, event, group, done, created,
                 waiting, joined, excused>>

\* The driver's acknowledging task waits for an address; by then the handler
\* has applied the credentials.
Handled == event.at \notin {"ssid", "password", "apply"}
           /\ \A k \in DOMAIN queue : queue[k].type # "GOT_SSID_PSWD"
PhoneAcknowledged ==
  /\ Room /\ smart = "sent" /\ radio = "online" /\ Handled
  /\ smart' = "acked"
  /\ Post("ACK_DONE")
  /\ UNCHANGED <<flash, radio, handlers, wifi, pc, event, group, done, created,
                 waiting, joined, excused>>

Starter(p) == StopWifi(p) \/ CreateGroup(p) \/ StartWifi(p)
AppMain == ReadMode \/ WifiInit \/ WaitDone \/ UnregisterIp \/ UnregisterAny
EventLoop ==
  \/ Started \/ Disconnected \/ GotIp \/ GotCredentials \/ SaveSsid \/ SavePassword
  \/ ApplyCredentials \/ ApplyAborts \/ Acknowledged \/ SaveMode
SmartTask == SmartBegin \/ SmartAborts \/ SmartOver

Next ==
  \/ AppMain
  \/ \E p \in Procs : Starter(p)
  \/ \E p \in Starters : BackToSmartConfig(p)
  \/ ConfigPassword \/ ConfigMode
  \/ EventLoop \/ SmartTask
  \/ Joins \/ Refused \/ Lost
  \/ \E cred \in Credentials : PhoneSends(cred)
  \/ PhoneAcknowledged
  \/ Reset

Spec == Init /\ [][Next]_vars

(***************************************************************************)
(* Tasks run on, and an access point answers each attempt, which includes  *)
(* that DHCP answers.  Nothing is assumed of users, phones and resets.     *)
(***************************************************************************)
FairSpec ==
  /\ Spec
  /\ WF_vars(AppMain) /\ WF_vars(EventLoop) /\ WF_vars(SmartTask)
  /\ \A p \in Procs : WF_vars(Starter(p))
  /\ WF_vars(Joins \/ Refused)

-----------------------------------------------------------------------------
\* Types of what is stored, of the driver and of the tasks.
TypeOK ==
  /\ nvs \in [mode : Modes, ssid : Ssids, password : Passwords]
  /\ sta \in Working \cup {NULL}
  /\ radio \in {"off", "down", "connecting", "online"}
  /\ queue \in Seq(Events)
  /\ handlers \subseteq {"wifiAny", "wifiIp", "smart"}
  /\ bits \subseteq {"connected", "fail"} /\ retries \in 0 .. MAXIMUM_RETRY
  /\ pc \in [Procs -> {"read", "wifi", "wait", "unregisterIp", "unregisterAny", "up",
                       "idle", "stop", "group", "start", "config"}]
  /\ event \in [at : {"idle", "mode"}]
                 \cup [at : {"ssid", "password", "apply"}, cred : Credentials]
  /\ smart \in {"off", "listening", "sent", "acked"}
  /\ group \in Nat /\ created \in Nat
  /\ done \subseteq 0 .. group /\ waiting \in 0 .. group
  /\ joined \subseteq Working /\ excused \in BOOLEAN

\* The device boots in mode STA only with a pair that has got it an address, at
\* whatever point between two writes it was reset: the pair is saved before it
\* is tried and the mode after.  Excused are a write that failed, config_init,
\* which overwrites the password before the mode, and a pair that arrived while
\* the mode was still STA.
StaModeWorks ==
  nvs.mode = "STA" /\ ~excused => Stored \in joined

\* wifi_init waits without a limit, but not for ever, although its attempts and
\* its retries are mixed with those of SmartConfig, which others start, and WiFi
\* is stopped under it.
WaitEnds == pc["main"] = "wait" ~> pc["main"] # "wait"
=============================================================================
