# airc-device: models, checks and proofs

The firmware in `src/` runs on an STM32F407 under FreeRTOS: it samples air
sensors, averages the samples, numbers the packet and sends it to TCP clients
over Ethernet and to a display; a Wi-Fi module serves a settings page. This
directory holds TLA+ models of it, the TLC runs that check them on small
instances, and proofs.

File names without a path are those of `src/src/`.

## 1. The system

FreeRTOS schedules by strict priority, with time slicing among equals.
`init_task` (priority 0) initialises the hardware and creates every other task.

| Component | State | Operations | Interacts through |
|---|---|---|---|
| configuration store: `config_board.c`, `flash_SST25VF016B.c` | two flash sectors (main, reserve), each an image with a CRC; the chip's write-enable latch, protection, AAI mode, BUSY | `WriteConfig`, `ReadConfig`, `Flash_Init` | called by `data_collector`, `wifi_task`, `init_task`; no mutex |
| users of the configuration: `data_collector.c`, `esp8266_wifi.c` | the global `device_config`, `result_packet` | number and store (collector), read, fill, store (wifi) | `device_config` and the flash, both without a mutex |
| Ethernet server: `eth_server.c` | `clients[]`, `clients_mut`, `readfds` | accept, drop | lwIP sockets; the table is shared with the sender |
| Ethernet sender: `eth_sender.c`, `sender_ethernet` | `QueueTransmitEthernet` (length 1) | write one packet to each client | queue from `data_collector`, table from the server |
| link and DHCP: `ethernetif.c`, `ksz8081rnd.c`, `main.c` | PHY interrupt status, `link_irq_sem`, netif flags, `dhcp_state`, lwIP's client | PHY interrupt, `link_state`, `dhcp_process`, `netif_setup`, `ethernetif_dhcp_start` | semaphore from the ISR; `dhcp_state` set by three tasks |
| startup: `main.c`, prologue of every task | `eg_task_started`, handles | create, make handles, announce, wait | event bits, global handles |
| Ethernet frames: `ethernetif.c` | 4-descriptor DMA rings | `low_level_input`, `low_level_output`, `ethernetif_input` | semaphore from the ISR, lwIP |
| UART sensors: `uart_sensors.c` | one half-duplex UART behind a multiplexer, DMA buffer, timer, readings under three mutexes | `getHCHO`, `getSDS011`, `getSPEC`, timer and idle interrupt | task notifications; getters called by `data_collector` |
| ESP8266: `esp8266_wifi.c` | `uart_buffer`, one `tcp_packet`, notifications | `esp_rx_task`, `wifi_task`, `esp_send_data`, `esp_server_handler` | DMA and notification between the two tasks |
| data collector: `data_collector.c` | ten samples, the last correct gas values | sample, average, send | getters, two queues |
| HTTP routing: `http_helper.c` | `http_response` | content type, method, route, access, form fields | called by `wifi_task` |
| settings form: `esp_server_handler`, `number_helper.c` | `device_config`, `number_buf` | settings to the page and back | the page in `http_defs.h`; the flash |
| I2C sensors: `bmp280.c`, `i2c_ccs811sensor.c` | readings under two mutexes | two task loops | one I2C handle without a mutex; error texts of the CCS811 on the LCD |
| analog temperature: `lm335z.c` | ten conversions, their mean, a semaphore | `analog_temp`, `get_analog_temp` | getter called by `data_collector` |
| display: `display_data.c`, `wh1602.c` | the page shown, the LCD, `displayQueue` (length 1) | show a packet, turn the pages | queue from `data_collector`; `init_task`, `i2c_ccs811sensor` and `dhcp_fsm` write to the LCD too, without a mutex |
| reed switch and LEDs: `leds.c`, `main.c` | `current_mode`, `esp_server_mode` | toggle the mode, change and blink the LED | `init_task` blinks, `wifi_task` sets the mode |
| fans: `fans.c` | none | two pin writes | called by `data_collector` |
| lwIP port: `arch/sys_arch.c` | mailboxes, semaphores | lwIP's `sys_*` | FreeRTOS |

Third party and not modelled: `picohttpparser.c`, `drivers/hal`,
`drivers/CMSIS`, generated glue. FreeRTOS and lwIP are submodules outside the
repository; what is modelled of them (and of the flash chip, the PHY and the TCP
peers) follows from how `src/` uses them and is marked external in
`PROJECT.json`.

### What is hard

- Power may fail between any two flash commands or inside a chip operation.
- Two tasks of equal priority share configuration and flash with no mutex.
- `eth_server` closes a descriptor outside the mutex under which `eth_sender`
  writes to it, and descriptors are reused at once.
- Link changes arrive while the last one is handled; three tasks set
  `dhcp_state`, each deciding outside the mutex that covers the assignment.
- Startup waits on event bits that overlap, for tasks that never set theirs.
- Sensor and AT answers race timeouts, DMA, idle interrupts and the next
  command or sensor; buffers are shared and cleared by hand.
- `ethernetif_input` preempts a sender anywhere, also while it holds the HAL's
  lock; the receive ring, the pbuf pool and the interrupt run dry separately.
- Two tasks drive one I2C handle without a mutex, and both initialise it.
- Three tasks of one priority write to the LCD without a mutex, a byte being two
  strobes; a reset may leave the LCD in the middle of one.
- Three tasks share the mode and its LED; the one that blinks can be preempted
  between choosing the LED and toggling it.
- Settings go to the page as text and come back unencoded; form fields are found by
  substring, in what was typed in too, and one goes through a static buffer.
- `data_collector` waits for two queues of length one without a timeout.

`PROJECT.json` lists each hazard at its line with the properties about it.

### What makes each component correct

- store: after any power losses the device finds the last stored value or a
  newer one; an undisturbed write ends with two equal copies.
- users: packet numbers do not skip; "saved" means stored.
- server and sender: each client gets each packet once, no write goes to
  another connection's descriptor, no connection leaks, hang-ups are noticed.
- link and DHCP: the flags follow the cable, the state says what lwIP does, an
  address comes in the end.
- startup: no handle is used before it exists; the waits end.
- frames: frames reach lwIP in order and none twice; a suspended reception is
  resumed; what is sent is one packet.
- UART: a reading comes from the sensor that was asked; the task never hangs.
- ESP8266: an answer goes to the client whose request it answers, and an OK is
  about the command that was sent.
- HTTP: an answer is about its request (but for one route nobody asks for), reading changes nothing, the module is
  never given credentials that are gone.
- settings: saving the page as it was opened changes nothing; what was posted is
  what is shown; both with exceptions the properties name.
- collector: a failed reading counts as the last correct one; what is sent is the
  average, unless the sum is below zero.
- analog temperature: what is read is the mean of the last ten conversions.
- display: the LCD stays in step with its driver, a page shows its own values,
  and the queue is emptied.
- LEDs: only the LED of the mode is lit, and it tells the mode.
- I2C: the handle is free when nobody is using it.

## 2. Modules

```
SpiFlash <-- ConfigStore <-- ConfigClients        ConfigCopies (abstract)
                  +---------- refines, one caller ----------^
NumberHelper <-- SettingsForm <-- HttpRouting
NumberHelper <-- Display --> Lcd
AnalogTemp, Display, DataCollector <-- DataPath
Startup <-- Leds
EthServer   EthFrames   LinkDhcp   UartSensors   I2cBus   Esp8266

proofs: ConfigProofs (ConfigStore, ConfigClients)   EthServerProofs   UartSensorsProofs
        EthernetifProofs (EthFrames, LinkDhcp)   Esp8266Proofs
        NumberProofs (NumberHelper) <-- HttpProofs
        NumberProofs <-- BoardProofs (Startup, Leds, DataPath, I2cBus)
```

**SpiFlash** is the flash chip as an external device. One transaction, chip
select low to high, is one operator (`CmdErase`, `CmdAaiFirst`, ...); a command
the chip does not obey changes nothing. `Complete` ends an internal operation,
`PowerUp` cuts it short, with any mixture of old, blank and junk words.

**ConfigStore** is the driver and `config_board.c`. `pc[t]` is the place of a
caller inside `WriteConfig` or `ReadConfig`; each action is one chip command
(`Unlock`, `EnableWrite`, `ClearSector`, `ProgramWord`, `DisableWrite`) or the
wait for BUSY after it (`WaitUntilBusy`). `cfg_crc` is the by-value copy of the
argument. An image is `Words` AAI words, each abstracted to the configuration
it belongs to, and the CRC is taken to be exact: `Intact(s)` iff all words agree.
`saved`, `attempted` and `torn` are history. With two callers the steps of their
calls interleave.

**ConfigCopies** is what the store promises: two copies, each a whole value or
unreadable, rewritten one after the other. `ConfigStore!CopiesSpec` maps the
store to it: a copy is what its sector holds (`Content`), `BeingStored` is the
value the callers' rewrite is storing, and `InTurn` the copy it is at.

**ConfigClients** composes the store with its two tasks. `job` is where each is
in its loop. The collector's `CollectorRead`, `SendPacket`, `CountPacket`,
`CollectorWrite` are lines 166-190 of `data_collector.c`; the Wi-Fi task's
`WifiRead`, `Fill`, `WifiWrite`, `Reply` are the configuration handlers of
`esp_server_handler`. A configuration is a pair: the settings a user posts, and
the counter.

**EthServer** has a program counter for each of the two tasks. `AddClient` and
`SetSlot` are `add_client` before and under the mutex; `CloseClient` and
`ClearSlot` the two halves of a drop; `StartWrite`/`EndWrite` are one
`lwip_write`, during which the server runs. `ServerAt` says that the server
runs only while the sender, of higher priority, is blocked. `conn` is lwIP's
side: descriptors given out lowest first, and reused.

**LinkDhcp**: `PhyChange` is the cable and the interrupt; `TakeSemaphore`,
`ReadMisr`, `NotifyConnChanged` are `link_state` with its callbacks;
`DhcpProcess` branches on the state it sees and the actions after it are the
branches, so that `link_state` can run between the look and the set. The init
actions are `ksz8081_init`, `netif_setup` and the end of `init_task`.
`stale`, `overtaken` and `missed` are history.

**Startup**: a task's prologue is a sequence of making a handle, announcing
and waiting; `Round` is one pass of its loop with the handles it uses
unchecked. `Bits` gives the event constants as sets of bit positions.

**Leds** goes on where `Startup` ends: the loop of `init_task` (`ChoosePin`,
`TogglePin`, while every other task sleeps), the rounds of `reed_switch_task`
with its two reads of the switch and its two accesses to `esp_server_mode`, and
`wifi_task`'s changes of the mode. A round of either task is a `Round` of
`Startup`. `stray` and `unshown` are history.

**EthFrames**: `rxOwn`, `RxDesc`, `SegCount`, `FSRxDesc` are the receive
descriptors and the fields of `h_eth`; `pool` and `queued` count pbufs. The
actions of `ethernetif_input` are the steps of `low_level_input` and the
hand-over to lwIP; those of the sender are `low_level_output` cut where it can
be preempted, with a frame copied in two halves. `around` says once for each
behaviour what the network and the other tasks do: frames come early, another
task sends, lwIP answers in the receiving task.

**UartSensors**: `pc` is the place of the task in the reading of one sensor of
`Order`; `Daemon` is FreeRTOS's timer task, which executes the callback and the
commands of the timer queue; `TimerExpires` and `Sensor` happen at any moment.
Two sensors stand for seven: one that streams and one that is asked.

**Esp8266**: `wifi_task` works through `todo`, the commands of what it is doing,
each sent by `esp_send_data` (`WriteCommand` to `Wake` or `Timeout`);
`esp_rx_task` stops DMA, starts it, waits, scans `uart_buffer`. `buf` is the
bursts `strstr` can see, after what `memset`, DMA and the command text have
overwritten. `quiet` says once for each behaviour that the module answers in
time.

**HttpRouting** is what `wifi_task` does with one request: the checks of
`http_helper.c`, the handlers of `esp_server_handler`, the join and the answer.
The module's answers are chosen by the environment. Besides the clients'
requests there is `Repost`, the page opened and saved as it is.

**SettingsForm** takes the settings to the page (`Shown`) and back (`Filled`). What is
posted is one flat text (`Body`), in which what was typed stands as it is; the name of
a field with its `=` is one symbol in it, wherever it occurs. `http_get_form_field`
is `strstr` for the name (`FirstHit`, in a typed text too, and `id=` inside `so2_id=`)
and the search for the next `&`; `Overlaid` is the static `number_buf`, in which an id
is copied over the one before. A description JSON cannot read leaves the page with its
`Defaults`. One setting stands for each kind of conversion, `desc` for the free texts. **NumberHelper** has the conversions
themselves, on texts as sequences of character codes and doubles as decimal
numbers: here the text is what the properties are about.

**DataCollector**: samples, the sum with substitution, the averages and the
clearing of both buffers. A quotient is kept as a sum and a divisor, which is 1 for a
sum that is not above zero.

**AnalogTemp** is `analog_temp`: the first conversion fills the buffer, later ones
are shifted in and summed, and the mean is stored in a step of its own.

**Lcd** is `wh1602.c` as the steps it takes on the pins, and the HD44780 behind
them (external): width of the interface, half a byte, address, cells. **Display**
adds the four writers: the start-up, `display_data_task` with its page and its
line, `dhcp_fsm`, and `i2c_ccs811sensor`, which makes three checks before it blocks for
the first time (`CcsChecks`: `HAL_I2C_Init`, the hardware ID, `checkForError`) and
prints what went wrong. `init_task` creates `display_data_task` after it, so
`DisplayRuns` only when they are over; `dhcp_fsm` is sliced with either, between any two
steps on the pins. `cut` and `overwritten` are history.

**DataPath** composes `AnalogTemp`, `DataCollector` and `Display`: the getter is a
sample's temperature, and the packet goes into `displayQueue` when there is
room. `watch` says once for each behaviour whether the readings vary or the display is
written to; the two meet in the queue only, and the product of both adds nothing
but states.

**I2cBus**: the HAL's state, lock and BUSY flag, tested and set in separate
steps (`FindReady`, `FindUnlocked`, `Enter`), by both tasks, with the outcome of
each transfer; the set-up sequences of both sensors; both mutexes and
`data_collector`'s reads. A reading is abstracted to where it came from.

Each module whose name ends in `Proofs` holds the theorems about one of these,
section 5. Modules whose name begins with `MC` give the constants their values
for TLC; `Leds` and `I2cBus` have none to give and are run as they are.

## 3. Runs

| Run | Config | Shows |
|---|---|---|
| `config_store` | `MCConfigStore.cfg` | one caller, power lost at any moment: `Durable`, `BothCopies`, `WriteCompletes`, and that the store implements `ConfigCopies` |
| `config_both_tasks` | `MCConfigClientsBoth.cfg` | `NoSkippedPacket` under every interleaving of both tasks |
| `config_saved_lost` | `MCConfigClientsSaved.cfg` | `SavedMeansStored` fails with both (finding) |
| `eth_server` | `MCEthServer.cfg` | one descriptor more than slots: no descriptor twice in the table (`OneSlotEach`), each client written to once (`EachOnce`), the leak is no larger than the surplus of descriptors (`Tracked`), no reuse under a write, packets taken, hang-ups dropped |
| `eth_frames` | `MCEthFrames.cfg` | `InOrder`, `WholeFrames`, `ReceptionResumes` in all eight surroundings |
| `link_dhcp` | `MCLinkDhcp.cfg` | `AddressInForce`, `TriesReadable`, `AddressEventually` |
| `startup` | `MCStartup.cfg` | `HandlesReady` and `StartupCompletes` with all fourteen tasks; `OneLit` and `LedTellsMode` from then on |
| `uart_sensors` | `MCUartSensors.cfg` | `LengthIsOurs`, `SampleWhole`, `AnswerHeard`, `KeepsMeasuring` |
| `esp` | `MCEsp8266.cfg` | `RightAnswer` on any line, `OkIsMeant` on a quiet one |
| `http` | `MCHttpRouting.cfg` | `AnswersThisRequest`: the answers with an earlier message are exactly those to a GET of "network"; `CredentialsInPlace`, `GetIsSafe`; what saving settings does to them: `RepostKeeps`, `ShownAsPosted` |
| `i2c_bus` | `MCI2cBus.cfg` | `BusReleased` |
| `data_path` | `MCDataPath.cfg` | `FailedAreSubstituted` over two rounds, sums below zero included, `MeanOfLast`; on the LCD `LcdInSync`, `PageWhole`, and `DisplayDrains` |

Every run but `config_saved_lost` passes. `CHECK_DEADLOCK FALSE` appears only
where a bound really stops the system: the packet numbers in the `config_*`
client runs, the rounds in `data_path`.

### Bounds and why they suffice

- Two words per image (one with both tasks): a torn image has a right and a
  wrong word, and the first word is the only one sent differently.
- Three configurations: the last stored, the interrupted, and a third.
- `MaxCounter`: one packet is numbered per run of the client models; a power
  loss repeats it, and a skip would already show in the counter after it.
- Two slots with four descriptors, the listening one included: a slot may be
  freed and reused while another is written, and the table overflows.
- One waiting connection: the server takes them one at a time.
- `MaxTries` 1 instead of 3: a retry and a timeout.
- `Wakers`: the tasks whose loops go round again while others still start;
  those left out never interact with the startup again.

- Frames: rings of two instead of four, two pbufs and three frame numbers: each
  ring and the pool run out and wrap around.
- UART: up to two chunks a reading, so that a packet may be cut or followed by
  another; a timer queue longer than that (the firmware's has ten places).
  `UartAssumption` asks for it: the callback waits inside the timer task for
  room in the timer task's own queue, and if that were full it would for ever.
- ESP8266: two clients; two bursts in the buffer, three on a quiet line, so that
  an answer can meet the rest of an older one.
- HTTP: two networks of different length, and a request for each method, route
  and kind of error. Two settings to begin with, one of them with an id of 0 and a
  serial number of 0, one with an id of two digits; their altitudes are below zero, one
  with leading zeroes of the fraction, one with more places than the page shows. Five
  forms: those of a new device, and a one-digit id with each of four awkward
  descriptions, one with `&`, one with `&` and `mode=`, one with `alt=` and one with a
  quote; and the page posted as it was opened, from every state. So `number_buf` holds
  `12`, `52`, `02` and what comes of posting those again. Ids of three digits are in the
  proof, not in the run; `ULL` is 1000000 instead of 2^64.
- I2C: no bound but one request of each kind at a time, as in the code.
- Data path: rounds of two samples instead of ten, two rounds, so that a failed
  reading may be the first of all or follow one of the round before; a gas that reads
  3, -2, or 7 with an error code, so that sums are above and below zero and a failed
  value would show; a mean of
  two conversions, one of which may be a failed one; two rows of two columns and
  one page of two fields (their number is even, as in the code, which shows 24),
  so that a page has two lines and every cell of a row is either written or must
  be blank. The LCD starts in any half of any byte
  (`Left`), with rubbish in its cells or without.
- LEDs: no bound; `Wakers` holds the tasks that touch the mode.

### Fairness

- store: a task inside a call goes on, and a chip operation ends. No fairness
  on starting a call, nor on power failing.
- server: weak for the sender (the highest of the tasks modelled) including
  the assumption that each `lwip_write` returns; strong for the server, which
  can be preempted over and over. Peers owe nothing.
- link: weak for `link_state`, strong for the tasks below it. The cable and
  the DHCP server owe nothing; lwIP's retry timer does.
- startup: strong for the creation and the prologues. `StartupCompletes`
  excludes runs in which some loop is never asleep. The reed switch owes
  nothing.
- data path: weak for `display_data_task` and the start-up's writes, tasks of one
  priority being sliced; weak for the checks of `i2c_ccs811sensor`, which wait for
  nothing; `dhcp_fsm` need not write.
- UART: weak for the timer task, which has the highest priority; strong for
  `uart_sensors` and for a copy by `data_collector`, which holds a mutex. The
  sensors owe nothing: every wait has a timeout.
- frames: weak for `ethernetif_input` and for the arrival of frames (a network
  on which nothing is received needs no resumption); strong for the sender,
  which is preempted by every frame.

`Esp8266`, `HttpRouting` and `I2cBus` are checked for safety only.

## 4. Divergences

The settings page reports "saved" although `data_collector`, reading or writing
the same global and the same flash without a mutex, may have undone the settings.
The run `config_saved_lost` must end in this violation, and `PROJECT.json` quotes
the lines.

The models also show the following disagreements with a comment or a name in the
code. They are outside the regular runs, each with a config to reproduce it
(`tlc -config <config>.cfg <module>`; a config names two properties where both
fail, and `tlc -continue` reports each). The properties of section 3 that come near
are stated so as to except exactly these cases.

| Config, module, property | What the code says, and does |
|---|---|
| `MCEthServerRejected`, `MCEthServer`, `RejectedClosed` | `eth_server.c:139` "client is rejected": it is neither closed nor tracked. Needs a socket pool larger than `MAX_CLIENTS + 1`. |
| `MCLinkDown`, `MCLinkDhcp`, `LinkDownNoticed` | `ksz8081rnd.c:204` "Interrupt on change of link status": with up and down both pending, up wins, and a link that is down stays up for the device. |
| `MCStartupClaims`, `Leds`, `AllInitialized` | `main.c:280` "Wait for all tasks initialization": two of the tasks never announce themselves; the wait ends because event bits overlap. |
| `MCStartupClaims`, `Leds`, `OnlyCurrentLit` | `leds.c:28` "init_task() will blink LED that depends on some mode": preempted between choosing and toggling, it lights the LED of the old mode, which stays lit. |
| `MCEthStalled`, `MCEthFrames`, `AlwaysResumes` | `ethernetif.c:341` "clear it and resume reception": not if the ring fills before `ethernetif_input` has made its semaphore, and not if a preempted sender holds the handle's lock, which is taken for an empty ring. |
| `MCEthMixed`, `MCEthFrames`, `OnePacket` | `ethernetif.c:171` "actual transmission of the packet": lwIP's answers and another task fill one transmit buffer at the same time. |
| `MCI2cRefused`, `I2cBus`, `Compensated` | `bmp280.h:165` "Read compensated temperature and pressure data": after a refused `bmp280_init` the coefficients are zero. |
| `MCI2cRefused`, `I2cBus`, `ResultsRead` | `i2c_ccs811sensor.c:62` "Updates the ... CO2 value": a refused transfer stores what was on the stack. |
| `MCHttpNotices`, `MCHttpRouting`, `SwitchedOn` | `http_defs.h:16` "WiFi state changed!": the verdict of `AT+CIFSR` replaces that of the join. |
| `MCHttpNotices`, `MCHttpRouting`, `IdSaved` | `http_defs.h:16` "Device configuration saved successfully!": a posted id is copied over a longer one before it in `number_buf`, whose last digits stay and become part of the id that is stored: 0 posted over 12 is `02`, so 2 is stored, and posted as it is shown that gives 22. |
| `MCCollectorUnits`, `MCDataCollector`, `InDegrees` | `bmp280.h:166` "Temperature in degrees Celsius": a sum below zero is not divided (the same holds of the gases, of which `FailedAreSubstituted` says so). |
| `MCCollectorUnits`, `MCDataCollector`, `InPascals` | `bmp280.h:167` "Pressure in Pascals": the sum of ten is sent. |

Where the models show a failure that no comment denies, the property that comes near
excepts it and says so: `GoneDropped` a server that finds connections waiting over and
over (`eth_server.c:136`); `AddressEventually` a link change before `link_irq_sem`
exists (`missed`, `ethernetif.c:555`); this and the other two of `link_dhcp` a request
that `dhcp_process` overwrote (`overtaken`, `ethernetif.c:408`); `PageWhole` and
`LcdInSync` a byte of the LCD that was cut (`cut`); `RepostKeeps` and `ShownAsPosted`
texts that JSON, `&` or the search for a field's name spoil.

## 5. Proofs

Each theorem holds for all values of the constants that meet the `ASSUME`s of
its module, which every run evaluates on its instance. An invariant is seldom
inductive; what had to be added is the reason it holds, and is given here.

**`ConfigProofs`**, the store, for one caller (`Callers = {t}`) and any `Words`,
`Configs`, `Blank` and `Junk`:

- `TypeCorrect`: `Spec => []StoreTypeOK`
- `ConfigDurable`: `Spec => []Durable`
- `ConfigInBothCopies`: `Spec => []BothCopies`
- `ImplementsCopies`: `Spec => CopiesSpec`

The invariant `IInv` adds what the chip is doing at each program counter
(`ChipAt`: latch set, BUSY with this erase or this word, AAI mode at the word
just sent, which words are already burnt), that a device without power has no
call under way (`PowerInv`), and what each copy holds in each phase
(`CopiesInv`: during the main rewrite the reserve is the saved or an attempted
value unless torn; during the reserve rewrite the main copy is the new one).
For the refinement each action is shown to be a step of `ConfigCopies` or a
stutter: the copies are the same as long as no sector's image changes
(`ContentKept`), so that only the beginning of a rewrite, the end of each copy
(`CopyDoneSimulated`) and a power loss (`CutAtPowerLoss`) are seen. One caller is an assumption of these theorems, not of the model: with two,
the copies are not protected, as `config_saved_lost` shows.

**`ConfigProofs`**, its users, with both tasks, any settings, image length and number
of packets:

- `PacketsNumbered`: `ClientSpec => []NoSkippedPacket`

This one needs no protection of the copies. `SkipInv` says that no word on the
flash, no word on its way there, no argument of a call and no `device_config`
has a counter more than one past the highest number sent; a torn or mixed image
that is intact is made of such words.

**`EthServerProofs`**, for any `MaxClients`, `NumSockets` and `MaxPending`:

- `TypeCorrect`: `Spec => []ServerTypeOK`
- `NoDuplicateSlots`: `Spec => []OneSlotEach`
- `WritesStayWithTheirPeer`: `Spec => NoReuseWhileWriting`
- `PacketOncePerClient`: `Spec => []EachOnce`
- `LeakIsBounded`: `Spec => []Tracked`

The invariant adds that a descriptor in the table is open except between
`lwip_close` and the clearing of its slot (`Placed`), so that a descriptor lwIP
gives out is in no slot; that a descriptor being added is in no slot
(`AddingInv`) and one being dropped is in the slot at hand (`DroppingInv`); who
holds the mutex (`MutexInv`); and that a descriptor closed under a write finds
the server waiting for the mutex of that write (`WritingInv`), where it cannot
accept. Priorities are not needed for any of that. `EachOnce` adds `SentInv`,
which counts the writes of a connection by where the loop is relative to its
slot; `Tracked` adds the count of descriptors: `FullTable` derives from the
cardinalities that a full table and a set of lost connections fit into lwIP's
pool together.

**`EthernetifProofs`**, frames, for rings, a pool and a frame counter of any size:

- `SentWhole`: `Spec => []WholeFrames`
- `FramesInOrder`: `Spec => []InOrder`

`Filling` says that the descriptor the sender fills is still the handle's one,
and not the DMA's. For reception, the age of a descriptor is its distance from
the oldest one not given back (`Age`); `ReceiveInv` says that the filled ones are
those of the first `n` ages, in the order of arrival, and that the frame last
handed over and the one in the pbuf came before them.

**`EthernetifProofs`**, link and DHCP, for any number of retries:

- `AddressIsInForce`: `LinkSpec => []AddressInForce`
- `TriesAreReadable`: `LinkSpec => []TriesReadable`

`Looked` says what a look that is not stale still tells; `ClientThere` that lwIP's
client exists wherever `dhcp_process` uses it, because `dhcp_start` is refused only
after a link change that makes the look stale and the next write an overtaking
one; `InForce` what lwIP does at each place of `dhcp_process`.

**`BoardProofs`**, the I2C handle:

- `HandleIsReleased`: `BusSpec => []BusReleased`

`HandleInv`: busy or locked only with a task inside, and never initialised means
that no task is past that.

**`HttpProofs`**, for any networks, lengths, settings and requests:

- `AnswersItsRequest`: `Spec => []AnswersThisRequest`
- `CredentialsStayInPlace`: `Spec => []CredentialsInPlace`
- `GettingIsSafe`: `Spec => GetIsSafe`

`HInv` says that from the check on the route that was found is the request's
(`Placed`), and that the credentials point into the buffer only while the network
in it is being joined (`Pointed`).

**`HttpProofs`**, the settings page, for any settings and any forms that are texts of the
right kind (`Pages`: digits for the id, up to 255, and the serial number, one digit for
the mode, in the altitude what can be told from the other fields, in the description
anything at all):

- `RepostingKeeps`: `Pages => (Spec => RepostKeeps)`
- `ShowsAsPosted`: `Pages => (Spec => ShownAsPosted)`

The form is one flat text, so what is stored depends on where `strstr` finds a name. The
lemmas on `Body` (`Piece`, `StartsOn`, `FieldOf`, `FieldsOf`) say that a
field is found where it was written if no text before it holds its name, and ends there
if it holds no `&`; nothing is claimed of the others, which both properties except.
`StoredInv` says that what is in memory is what is stored and that `number_buf`, once
used, holds the digits of a number whose last byte is the id that is stored. If that
number has no zero in front and is below 256 (`IdFits`), it is the id itself, and the
page lays its own digits over it without harm (`IdAgain`). An id shorter than those
before it makes another number: `ShownAsPosted` leaves it out. On the page a number
loses its zeroes at the end, and "-0.00" its sign (`ShorterIs`); that `atof` reads the
same all the same is `ShorterReads`.

**`NumberProofs`** has what these theorems need of the texts: `Decimal` writes a number
without a zero in front (`DecimalInDigits`), `atoull` and `atoi` read it back
(`AtoullReadsDecimal`, `AtoiIs`), every text of that kind is written so
(`NumeralIsDecimal`); what `atof` reads of what `ftoa` has written with two places is no
further from the number than half of the last place (`AtofIsNear`).

**`UartSensorsProofs`**, for any sensors in any order, any number of chunks and any
length of the timer queue:

- `LengthBelongs`: `Spec => []LengthIsOurs`
- `SampleIsWhole`: `Spec => []SampleWhole`
- `EveryAnswerHeard`: `Spec => AnswerHeard`
- `TimerTaskNeverWaits`: `QueueHasRoom` always, if a sensor sends fewer chunks in one
  reading than the queue has places

`LengthIsOurs` is about a chain of four parties: the interrupt that asks for a reset
of the timer, the timer task, its callback and the notification. `TimerInv` says
that a timer that runs, or is about to be started by a command still in the queue,
was started for the sensor being read, and that nothing of it is left once the task
has stopped it, because the timer task has the higher priority; `NoteInv` that what
is counted, notified and taken is never more than the buffer holds; `BufferInv` what
the buffer holds. `SampleWhole` needs who holds `SPEC_mutex` (`MutexInv`) and where
two fields may differ (`FieldsInv`); `AnswerHeard` that the receiver is on whenever
the task waits (`ReceiverInv`). For the queue, a chunk costs one place at most: its
reset leaves the queue before the timer can run out, and only then does the callback
ask for a stop (`QueueInv`).

**`Esp8266Proofs`**, for any connections and any number of bursts of the module:

- `RightAnswers`: `Spec => []RightAnswer`
- `OkMeant`: `Spec => OkIsMeant`

What is in `tcp_buffer` and whom AT+CIPSEND has named depends on the commands before,
so the invariant says which may follow each other (`Shaped`, `TodoInv`), whose
`tcp_packet` is (`RequestInv`) and what has been built from it (`AnswerInv`).
`LineNow` lists, for a quiet line, what the buffer, the two notifications and the
module hold at every place of an exchange; none of it holds on a line that is not
quiet, which is why `OkIsMeant` says so.

**`BoardProofs`**, the start and the LEDs, for any tasks whose loops go round again:

- `HandlesAreReady`: `StartupSpec => []HandlesReady`
- `LedsKeepStartup`: `LedsSpec => StartupSpec`, and with it `LedsSpec => []HandlesReady`
- `NoOtherLedLit`: `LedsSpec => []OneLit`
- `LedTellsTheMode`: `LedsSpec => []LedTellsMode`, by `ModeShown`, which says the
  same while the switch is held for the first time

`HandlesReady` rests on three facts. A task that is past a step has made its handle
(`MadeInv`). `init_task`, the lowest, creates a task only when no other is ready, so
`uart_sensors` has made `SPEC_mutex` before the tasks behind it exist (`OrderInv`),
which no bit tells. And bit 6, which is `eth_sender`'s alone, tells `data_collector`
that the queue is there (`BitsInv`); most other bits are shared.

**`BoardProofs`**, the display, for any names, packets and readings:

- `DisplayInSync`: `Spec => []LcdInSync`

Every list of steps the driver makes is in threes, RS and two strobes, and no command
asks for eight bits, whatever is printed and wherever (`Paced`, `Bytes`, with a lemma
for each routine). So the number of steps a writer has left tells whether it is
inside a byte, and `InStep` says that only one can be, and what the display then
holds. At the start `Fallen` lists what the display may be in at each of the eight
steps of `InitInterface`, from any state a reset has left: that the third command of 3
ends eight bits wide in every case is why there are three of them.

- `PageShowsItsValues`: `Spec => []PageWhole`

`PageWhole` holds only when a page is done; that the cells lead up to it takes what
they hold at every step before. `PageInv` is where `display_data_task` is: since the
fields are even in number, the parity of the field being shown tells its line, and
`clear_page` always falls between two pages. `Sending` says how far the last six steps
of a writer, the two halves of a cursor command and those of a character, have come,
and `Clearing` the same of the last three; with them `CellsInv` says which cells hold
their text, and that the others are blank. It begins with the start-up, whose last
command is `lcd_clear`: whatever a reset has left in the cells is gone. What
`i2c_ccs811sensor` prints comes after that, and `overwritten` stays true until the
first page has been cleared. That every text
fits its columns needs the values to be numbers (`NumbersInv`) and their digits to be
texts.

**`BoardProofs`**, the analog temperature, for any conversions and any size of the
buffer:

- `MeansOfTheLast`: `Spec => []MeanOfLast`

`temp_buf` shifts in place, and its sum is taken afresh each time; the mean of the last
readings is a sum over other places. That the two agree is `SumMoved`: a sum does not
change when its places are renumbered one by one.

**`BoardProofs`**, the collector, for any readings and any size of its buffer:

- `FailedCountAsLast`: `Spec => [][AddsLastCorrect]_vars`: each sample that is counted
  adds the last correct reading up to it, from this round or an earlier one, to a sum
  that starts at zero
- `FailedCountAsBefore`: `Spec => []FailedAreSubstituted`

`CollectInv` says that `last_correct_co_value` is `LastCorrect` of the samples counted
so far, also while the sampler fills the next round; that among the correct readings
there is a last one is `HaveLast`. The invariant that gives the average is that the
sum is `RoundSum`, the readings of the round so far with the failed ones substituted.
A sum above zero is divided, and lies between the smallest and the greatest of them
times their number; a sum of zero is its own quotient; one below zero is sent
undivided (section 4), and `FailedAreSubstituted` claims the sum only.

**Lemmas on sums and numbers.** The induction theorems of the library take an operator
as a parameter and cannot be cited here. The inductions are therefore stated of a set:
`CountInduction`, that a set of numbers with 0 and with the successor of each of its
members has all of them, and `SubsetInduction`, the same of the subsets of a finite
set. `SumOn` is a recursive function, of which TLA+ only says that it is chosen to
satisfy its equation if anything does; `SumUnfolds` shows that something does, and
`RecursionExists` of `NumberProofs` does so for every recursion on the natural numbers
that goes down, hence for `Ten` and `Decimal` (`TenIs`, `DecimalIs`) and for the tables
in which `atoull` and `atof` read a text character by character (`ReadingExists`,
`AtoullMore`, `NumberMore`).

Only model-checked are the liveness properties, which are beyond the prover:
`WriteCompletes`, `PacketTaken`, `GoneDropped`, `AddressEventually`,
`StartupCompletes`, `KeepsMeasuring`, `ReceptionResumes`, `DisplayDrains`.

## 6. Plan

- An abstract service of requests and answers that `Esp8266` implements.

## 7. Not modelled

- `arch/sys_arch.c`: the lwIP project's own port to FreeRTOS; its only caller,
  lwIP, is outside the repository. `picohttpparser.c`: third party; a request is
  well formed or not. `fans.c`: two pin writes without state.
- `drivers/hal`, `drivers/CMSIS`, `drivers/dev` and the start-up code: vendor
  code, and by far the most of the lines in `src/`. Of the HAL only what the firmware's
  tasks meet in is modelled: the I2C handle, the Ethernet handle.
- A reset of the processor alone, with the flash still in AAI mode.
- A single chip transaction being preempted halfway; the exact CRC.
- The single fields of one form being assigned one by one; forms with a field
  missing, which the settings page never sends; GET of "network", which it never
  asks for either, is modelled and answered with the message of an earlier request.
- The settings page: `desc` stands for the four free texts; ids and serial numbers are
  digits within the precision of JSON's numbers, though a number input also takes
  `1e2`, `-0` and `+1`; a text with a backslash is taken for one JSON cannot read, as
  one with a quote or a control character is. The network's form, whose name
  and password are cut at `&` in the same way, keeps a whole name.
- Texts that do not fit their buffers; binary fractions in `ftoa` and `atof`, whose
  error is far below the places shown.
- `Error_Handler` (`main.c:533`), which also prints on the LCD, and never returns.
- What the LCD makes of bytes two tasks have cut into each other; its execution
  times; the scrolling commands, which the driver never sends.
- ESP8266: the layout of commands and answers; a burst is its first marker.
- UART: the arithmetic of the readings; a packet is whole or garbled.
- BMP280, CCS811 and LM335Z: registers, set-up and compensation arithmetic.
- Pin, clock, ADC, UART and DMA set-up, which keeps no state.
