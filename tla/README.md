# TLA+ models of the SONiC store access layer and its tools

This directory holds TLA+ models of the client-side access layer that the
SONiC tools in this repository use to reach the multi-database Redis store
(`sonic-py-swsssdk`), together with the processes that drive it (the
configuration CLI, the LLDP sync daemon), and of two command-line tools that
keep state of their own: the image manager `sonic_installer` (boot-loader
files) and the transceiver CLI `sfputil` (a platform plugin). The models are
checked with TLC.

## 1. Inventory

### Components

| Component | Source | State it keeps | Operations |
|---|---|---|---|
| Database registry | `swsssdk/interface.py` `DBRegistry`, `DBInterface.__init__` | `redis_clients`, `keyspace_notification_channels` (name -> client / PubSub) | `__getitem__` (raises `MissingClientError`), `get_redis_client` |
| Connection manager | `interface.py` `connect`, `_onetime_connect`, `_persistent_connect`, `close`; `dbconnector.py` db maps | one client per database; `db_map` (class-level, loaded at import) | one-shot connect (CONFIG SET notify-keyspace-events KEA), persistent connect (retry every 10 s forever), close |
| Blocking accessor protocol | `interface.py` `blockable`, `keys`, `get`, `get_all`, `set` | per call: `blocking`, `attempts`; the registered channel | read, on `UnavailableDataError` return None / subscribe and re-read / wait; on `ResponseError` re-raise; on `RedisError` reconnect and retry |
| Keyspace notification channel | `interface.py` `_subscribe_keyspace_notification`, `_unsubscribe_keyspace_notification`, `_unavailable_data_handler` | a PubSub on `__key*__:*` with its buffered messages | subscribe, unsubscribe, wait for a message whose data equals the expected payload (10 s per message, 30 s per handler call, 3 s settling) |
| Typed configuration store | `swsssdk/configdb.py` `ConfigDBConnector` | `handlers` (table -> function), a PubSub for `listen` | connect + wait for `CONFIG_DB_INITIALIZED`, subscribe/unsubscribe handlers, `listen` dispatch, `set_entry`, `get_entry`, `get_table`, `set_config`, `get_config`, `serialize_key`/`deserialize_key`, typed<->raw |
| Init-indicator producer | `sonic-utilities/config/main.py` `reload`, `load_minigraph` | - | connect (waiting for init), FLUSHDB, bulk load through sonic-cfggen, SET `CONFIG_DB_INITIALIZED` |
| LLDP sync daemon | `sonic-dbsyncd` `lldp_syncd/daemon.py`, `sonic_syncd/interface.py` | `run_event` | run loop: lldpctl -> parse -> `sync` (one blocking `set` per field) -> sleep |
| BGP admin commands | `config/main.py` `bgp shutdown/startup all/neighbor` and helpers | - (one connector per helper) | list neighbors (`get_table`), check or look up one (`get_entry`), `set_entry(admin_status)` per address |
| Image manager | `sonic_installer/main.py` | ONIE: grub.cfg menu, grubenv `saved_entry`/`next_entry`; Aboot: `/host/image-*`, boot-config | `install`, `set_default`, `set_next_boot`, `remove`; readers `get_installed_images`, `get_next_image` |
| SFP transceiver CLI | `sfputil/main.py` | the plugin's transceivers (presence, low-power mode) | `show eeprom` (pretty, `--oneline`, `--raw`, `--dom`), `show presence`, `show lpmode`, `lpmode on/off`, `reset` |
| Port/bridge utilities | `swsssdk/port_util.py` | - | interface-name -> index, OID maps read with `get_all(blocking=True)` / `keys` |
| Fast-reboot dump | `scripts/fast-reboot-dump.py` | `all_available_macs`, the collected FDB and ARP rows, `/tmp/fdb.json`, `/tmp/arp.json` | per VLAN: KEYS of the FDB entries then HGETALL per key; KEYS of `NEIGH_TABLE` then HGETALL per key; filter and dump |
| Other CLI front-ends, platform files | `show`, `debug`, `sonic-master/arista/*` | Arista `LedControl`: the LED brightness files | format output, run subprocesses, describe hardware, set LEDs on link events |

### How they interact

Every tool talks to the store through a `DBInterface` subclass
(`SonicV1Connector`, `SonicV2Connector`, `ConfigDBConnector`). Producers (the
LLDP daemon through `set`, the configuration CLI through `set_entry` and
`client.set`, sonic-cfggen) write hashes; every write makes the server publish
a keyspace event (data = command) and a keyevent event (data = key) to every
subscriber of `__key*__:*`, whatever the database. A blocking reader subscribes
after its first miss, reads again, and then sleeps on its channel until a
message carrying the expected payload (`b'hset'` for `keys`, the hash name for
`get`/`get_all`) arrives. `ConfigDBConnector` adds its own subscriptions: one
for `CONFIG_DB_INITIALIZED` during `connect`, one for the whole configuration
database in `listen`, which re-reads each changed row and calls the handler
registered for its table. The `config bgp` commands open a fresh connector
in each helper, each of which waits for init, so a `config reload` can run
between listing the neighbors and writing to them. `sonic_installer` and
`sfputil` do not use the store: their state is the boot-loader files and the
transceivers behind the platform plugin. `fast-reboot-dump.py` reads ASIC_DB
and APPL_DB with plain (non-blocking) accessors while syncd and neighsyncd
keep writing them.

### What is hard

* Interleaving of the reader with writers: the window between a failed read
  and the subscription; writes that wake the reader without giving it its data
  (another field, another database with the same key name, any `hset` for
  `keys()`); multi-field writes seen half done after the settling delay.
* Timeouts: the wait budget restarts at every handler call; a late notification
  races the budget check.
* Connection faults: an error raised inside the `except UnavailableDataError`
  clause escapes the retry loop; `close()` leaves a closed PubSub registered;
  notifications published while a channel is disconnected are lost.
* The configuration layer: `__wait_for_db_init` reads before it subscribes;
  `config reload` removes and re-creates the init indicator; `listen()` reads
  the row when it handles the message, not when it was written, and `__fire`
  looks a handler up twice while another thread may remove it; a BGP command
  acts on a neighbor list read before a reload.
* Tools: `remove` edits grub.cfg under a `next_entry` index that
  `set_next_boot` wrote; `sfputil` walks ganged ports (several physical
  ports per logical one) while transceivers are plugged and pulled;
  `fast-reboot-dump.py` reads a hash listed by KEYS after its owner may have
  removed it; `config reload` exits half done when sonic-cfggen fails.

### What makes each component correct

* Blocking accessor: a call's result is decided by a read it made (data, None
  for non-blocking, `UnavailableDataError` for blocking); connection faults are
  retried; no wake-up is lost while subscribed; a call ends; it fails within
  one wait budget.
* Channel: a wait always uses a live subscription.
* Configuration store: a consumer that waits for init proceeds once the
  loader has set the indicator; it never proceeds on a half-loaded database;
  `listen` calls the table's handler once per change and with the row as
  written, and keeps doing so whatever other threads register; typed data
  and keys round-trip.
* LLDP daemon: every field of an interface entry reaches the store; a reader
  sees entries as the daemon wrote them.
* BGP commands: no neighbor row the configuration does not have.
* Image manager: the boot loader's next target is installed; `set_next_boot`'s choice is the next boot.
* sfputil: `lpmode` reports OK only for the ports it set, named as
  `get_physical_port_name`'s comment documents.
* Fast-reboot dump: it ends with both files written, and keeps only ARP
  entries whose MAC it restores.

## 2. Plan

Modules, most important first (the ones marked done exist):

1. **done** `RedisStore` — store contents and the read primitives' conditions
   (`Available`, `Expected`) as operators; shared by the other modules.
2. **done** `BlockingRead` — abstract specification of one read call.
3. **done** `DBInterface` — the `blockable` wrapper, channel, reconnect, with a
   producer and connection faults; refines `BlockingRead`.
4. **done** `ConfigDBInit` — `ConfigDBConnector.connect(wait_for_init=True)` of several
   consumers against the `config reload` / `load_minigraph` loader (FLUSHDB,
   bulk writes, SET indicator). Liveness: every consumer proceeds; safety: no
   consumer proceeds while the load is incomplete.
5. **done** `ConfigDBTyped`, `ConfigDBStore` — the typed<->raw row encoding and
   key (de)serialisation as operators; `set_entry`/`set_config` as actions on a
   store of raw hashes, `get_entry`/`get_table`/`get_config` as operators;
   round-trip properties.
6. **done** `ConfigDBListen` — `subscribe`/`unsubscribe`/`listen` dispatch
   against writers using `set_entry` (HMSET, DEL); liveness: the handler's
   view of every changed row converges to the database.
7. **done** `LldpSync` — the daemon run loop (lldpctl, parse, one `set` per
   field, sleep) against lldpd's changing neighbor table, read by `get_all`.
8. **done** `ConfigBgp` — the `config bgp` commands composed with `ConfigDBInit`.
9. **done** `SonicInstaller` — install/set_default/set_next_boot/remove on
   both boot loaders, with reboots.
10. **done** `SfpUtil` — the sfputil commands, with the EEPROM renderers as
   RECURSIVE operators checked against reference definitions.
11. **done** `FastRebootDump` — `fast-reboot-dump.py`'s reads of APP_DB/ASIC_DB
   (KEYS then HGETALL) against the syncd writers.
12. Operators: duplicate db-index check (`dbconnector.py`), `get_index_from_str`.
13. **done** Extend `DBInterface`: the ResponseError path (a string key read
   with HGET/HGETALL) and a history of notifications lost to a dropped
   connection. Not done: one-shot connect and `MissingClientError`.

## 3. What is modelled

### `RedisStore`

The store is `[DBs -> [Hashes -> [Fields -> Values \cup {Absent}]]]`; a hash
exists when it has a field. `Available(r, db)` is the condition under which
`keys`, `get` or `get_all` returns instead of raising `UnavailableDataError`
(including `if not val` treating the empty string as missing), `Expected(r)` is
the payload the wrapper then waits for, `Events(cmd, h)` the two payloads a
write publishes (keyspace then keyevent). `KeyPatterns` gives each `keys()`
pattern as the set of hashes it matches. A key may also hold a string
(`StrVal`, written by a plain `client.set()` such as `config reload`'s
`CONFIG_DB_INITIALIZED`); `get`/`get_all` on it get WRONGTYPE, i.e. a
`ResponseError`: `Rejected(r, db)`. `KEYS` still lists such a key.

### `BlockingRead` (abstract)

A call is invoked with a request and a blocking flag, reads the store any
number of times (`Observe`), and ends with the outcome its last read allows:
`data`, `none` (non-blocking miss) or `unavailable` (blocking miss); a read
that the server rejects ends the call at once with `response_error`
(spec.md 4.3 step 3). Other
processes change the store at any time (`Env`).

### `DBInterface`

| Variable | Code |
|---|---|
| `store`, `serverUp` | the Redis server |
| `pc`, `req`, `blocking` | the caller thread inside `wrapped` |
| `chan`, `buf` | `keyspace_notification_channels[db]` and its unread messages |
| `observed` | the result of the last primitive call |
| `outcome` | what `wrapped` returned or raised |
| `windows` | calls of `_unavailable_data_handler` in this call (history) |
| `lost` | a message the current call waits for was published while its channel's connection was down, or was in the buffer a drop discarded (history) |

| Action | Code |
|---|---|
| `Call` | entering `wrapped` |
| `ReadOk`, `ReadNoData`, `ReadThenWait`, `ReadThenSubscribe` | the primitive and the `try`/`except UnavailableDataError` branches |
| `ReadRespError` | `except ResponseError`: re-raised at once, the channel left as it is |
| `Subscribe` | `_subscribe_keyspace_notification` (its failure escapes) |
| `ReadConnError`, `Reconnect` | `except RedisError` -> `_connection_error_handler` (close, sleep, `connect(db, True)`) |
| `WaitMatch`, `WaitSkip`, `WaitTimeout` | the `_unavailable_data_handler` loop |
| `WaitResubscribe`, `WaitConnError`, `WaitStale` | `get_message` on a channel whose connection dropped (reconnects), while the server is down (ConnectionError escapes), after `close()` (RuntimeError escapes) |
| `HSet`, `Del`, `SetStr` | producers: `DBInterface.set`, `set_entry(key, None)`, a plain `client.set()` of a string key |
| `ConnectionLoss`, `ServerBack` | the server dropping every connection and accepting again |

Time is abstracted: the wait budget expiring is a step the caller may take at
any check of its loop while its channel is subscribed; the sleeps are points at
which the other processes move.

**Fairness.** `WF_vars(CallerStep)`: the caller is a dedicated thread and every
wait it does is bounded by a wall-clock timeout, so while inside a call it
keeps taking steps. `WF_vars(ServerBack)`: the server eventually accepts
connections again, the assumption `_persistent_connect` relies on. The
producer and new calls are not fair.

### `ConfigDBInit`

Consumers calling `ConfigDBConnector.connect()` (configdb.py:36-56) against
the `config reload` command (config/main.py:124-133). The store is reduced to
two booleans: `init` (the `CONFIG_DB_INITIALIZED` key exists) and `complete`
(the configuration database holds the whole configuration).

| Variable / action | Code |
|---|---|
| `lpc`, `reloads`; `LoaderConnect`, `Flush`, `Load`, `SetInit` | `reload()`: `config_db.connect()`, `client.flushdb()`, `sonic-cfggen --write-to-db` (one step: its writes do not match the consumer's pattern), `client.set(INIT_INDICATOR, True)`; the command may run `MaxReloads` times |
| `LoadFails` (when `LoadMayFail`) | sonic-cfggen exits non-zero: `run_command` (config/main.py:20-33) calls `sys.exit`, so the reload ends with the database flushed and the indicator unset; `ConfigBgp` lets it write any part of the file first |
| `cpc`; `Start`, `GetInit`, `PSubscribe`, `Listen` | `connect()`, then `__wait_for_db_init`: `client.get`, `psubscribe`, the `listen()` loop that re-reads the indicator on each message and breaks and `punsubscribe`s when it is set |
| `subscribed`, `inbox` | the consumer's pattern subscription and the messages the SET published to it, not yet read |

FLUSHDB publishes no keyspace event for the keys it removes, so only `SetInit`
adds to `inbox`.

**Fairness.** `WF_vars(Loader)`: the reload command runs to its end.
`WF_vars(Waiting(c))` per consumer: a process inside `connect()` keeps running
(`listen()` returns each delivered message). Starting a consumer is not forced.
The runs say `CHECK_DEADLOCK FALSE` because the system really stops: every
reload done and every consumer ready, or a consumer blocked in `listen()`.

### `ConfigDBTyped` (operators)

Strings are sequences of characters; the characters the code tests are `|`,
`,` and `@`, and the placeholder column `"NULL"` is one token. `Split` and
`Join` are `str.split`/`str.join` (RECURSIVE; `"".split(",")` is `[""]`).
`serialize_key`/`deserialize_key` (configdb.py:128-141), `HashName`
(`'{}{}{}'.format(table.upper(), '|', key)`), `SplitTableKey`
(`key.split('|', 1)`), `__typed_to_raw` (`{}` becomes `{"NULL": "NULL"}`, a
list column `c` becomes `c@` with the comma join) and `__raw_to_typed` (the
`NULL` column dropped, `c@` split on `,`). When a raw row holds both `c` and
`c@`, `__raw_to_typed` writes typed column `c` twice in dict iteration order,
which the code leaves unspecified: the operator returns the set of possible
results, and properties quantify over it.

### `ConfigDBStore`

| Variable / action | Code |
|---|---|
| `db` | the configuration database: hash name -> raw row (no empty hash) |
| `written`, `writes` | history: the data of the last `set_entry` of each (table, key); calls so far |
| `SetEntry(t, k, d)` | `set_entry`: `DEL` for `None`, otherwise `HMSET` of `__typed_to_raw(d)`, which merges into the existing hash (`Hmset`) |
| `SetConfig(s1, d1, s2, d2)` | `set_config`: two `set_entry` calls, in dict order |
| `get_entry`, `get_table_keys`, `get_config_keys` | the reads: `hgetall` + `__raw_to_typed`; `KEYS 'T\|*'`, split, `deserialize_key`, `if entry:`; `KEYS '*'` |

A single client is modelled: the calls of one process run in program order
and the store commands are atomic, so no interleaving inside a call is
possible. The run says `CHECK_DEADLOCK FALSE` because the client's calls end
at `MaxWrites`.

### `ConfigDBListen`

| Variable / action | Code |
|---|---|
| `row` | each (table, row) hash: absent, placeholder only, or a value |
| `handlers`; `Subscribe`, `Unsubscribe` | `self.handlers`; `subscribe` and `unsubscribe`, called by another thread of the daemon at any time |
| `lpc`; `Listen` | `listen()`'s `psubscribe` of `__keyspace@<db>__:*`; `lpc` is also where the thread is inside `__fire`, or `"dead"` once an exception left `listen()` |
| `queue` | pmessages delivered to the listener, not yet handled |
| `Receive` (`key`, `data`) | one pmessage: split the key (a key without `\|` is ignored, the `ValueError`), `has_key(table)`, `hgetall` + `__raw_to_typed` at handling time |
| `FireCheck`, `FireCall` | `__fire`: `has_key(table)` (false: nothing), then `self.handlers[table]` and the handler call; a handler popped in between raises `KeyError`, which `listen()` does not catch |
| `view`, `since` | what the handler was last given per row; rows changed since `psubscribe` and since their table's handler was registered (history) |
| `SetEntry`, `DeleteEntry`, `SetOther` | writers: `set_entry` (HMSET always publishes; `{}` over an existing row keeps it), `set_entry(.., None)` (DEL publishes only when the key existed), `SET CONFIG_DB_INITIALIZED` |

**Fairness.** `WF_vars(Listener)`: the daemon reaches `listen()`, and its
thread loops on `pubsub.listen()`, which returns every delivered message.
Writers and the subscribing thread are not fair. The run says
`CHECK_DEADLOCK FALSE`: once the writers stop and the queue is empty the
listener blocks, as the code does.

### `LldpSync`

| Variable / action | Code |
|---|---|
| `nbr`, `changes`; `NeighborChange(i, n)` | lldpd's neighbor table per interface, changed at most `MaxChanges` times |
| `pc`; `Poll` | one round of `SonicSyncDaemon.run` (sonic_syncd/interface.py:40-52): `source_update` (a failure is a stuttering step), `parse_update`, then sync, skip or die |
| `parse_update` (`ParseFrom`) | daemon.py:141-227 by its control flow over the interfaces in lldpctl's order: `parse_port` raises `KeyError` for an "unhandled" port subtype, caught by `parse_update` (None: the round is skipped); `parse_chassis` catches its `KeyError` and raises `TypeError` in the `except` clause, which nothing catches (the thread ends) |
| `todo`, `parsed`; `SyncField`, `SyncDone` | `sync`: one `set(APPL_DB, 'LLDP_ENTRY_TABLE:<if>', k, v, blocking=True)` per field, then sleep |
| `db` | the `LLDP_ENTRY_TABLE` hashes |

Field values are abstract (`<<neighbor, field>>`); `parse_time` only
produces values. `PortType`/`ChassisType` give the subtype lldpctl reports for
each neighbor, and `PortIdSubtypeMap`/`ChassisIdSubtypeMap` are the key sets
of the code's subtype dictionaries: a subtype outside them is the `KeyError`. Interfaces are the ones the
`^(Ethernet\d+|eth0)$` filter keeps. Readers are not actions: a `get_all`
may happen in any state, so properties about what a reader sees are
invariants over `db`.

**Fairness.** `WF_vars` of `Poll`, `SyncField`, `SyncDone`: the thread loops
until it dies, and lldpctl does not fail forever (a run of failures is a run
of stuttering steps). lldpd is not fair.

### `ConfigBgp` (composed with `ConfigDBInit`)

`config bgp shutdown|startup all` and `config bgp shutdown|startup neighbor
<ip_or_hostname>` (config/main.py:38-81, 199-243), run by the consumers of
`ConfigDBInit` against its `config reload` loader. The module EXTENDS
`ConfigDBInit` and conjoins the loader's steps with their effect on the
`BGP_NEIGHBOR` rows; every helper opens its own `ConfigDBConnector` and
waits for init through `ConfigDBInit`'s `Start`/`Waiting`.

| Variable / action | Code |
|---|---|
| `nb` | `BGP_NEIGHBOR` rows: absent, or whether the row holds the neighbor's configuration and its `admin_status` |
| `cmd`, `step`, `arg`, `ip`, `todo` | the command, where it is, the address or name in hand, and the addresses of `all` not yet handled |
| `Flush`, `Load` (`LoadRows`) | FLUSHDB removes every row; sonic-cfggen HMSETs the file's neighbors, keeping an `admin_status` already written |
| `Connect`, `WaitBgp`, `Op` | each helper's `ConfigDBConnector().connect()` and its single database call |
| `ListNeighbors`, `NextAddr` | `_get_all_neighbor_ipaddresses` (`get_table(...).keys()`) and the `for` loop over it |
| `Check`, `Lookup` | `_is_neighbor_ipaddress` (`get_entry` non-empty) and `_get_neighbor_ipaddress_by_hostname` (`click.Abort` when none) |
| `SetStatus` | `set_entry('bgp_neighbor', ip, {'admin_status': st})`: an HMSET, which creates the row when it is gone |

No fairness is assumed: the property checked is an invariant and an action
property. `CHECK_DEADLOCK FALSE` because the commands and the reload end.

### `SonicInstaller`

`sonic_installer/main.py` on both boot loaders (`get_image_type`). The
download, the installer binary and `grub-*` are commands whose effect on the
boot files is the model.

| Variable / action | Code |
|---|---|
| `platform`, `current`, `dirs` | `get_image_type`, `get_current_image`, the `/host/image-*` directories |
| `menu`, `saved`, `next` | ONIE: grub.cfg's SONiC menuentries in order, grubenv `saved_entry` and `next_entry` (menu indices) |
| `swi` | Aboot: the image boot-config names |
| `chosen` | history: the image of the last `set_next_boot`, until a reboot, install or `set_default` |
| `get_installed_images`, `get_next_image`, `Index` | the readers and `images.index(image)` |
| `Install`, `InstallDefaultFails` | `install`: the installer adds the entry first and the tool runs `grub-set-default 0`, or boot0 writes boot-config; when `grub-set-default` fails, `run_command` exits with the entry added |
| `SetDefault`, `SetNextBoot` | `grub-set-default <i>` / `grub-reboot <i>`, or boot-config |
| `remove` (`MatchedEntry`, `Removal`) | `get_next_image()` first (IndexError: nothing removed), the current image refused, boot-config re-pointed on Aboot, the first menuentry matching the name as a prefix cut out and `grub-set-default 0` on ONIE |
| `Reboot` | grub boots `next_entry` once, else `saved_entry`; Aboot boots boot-config |

No fairness: nothing in the tool must happen. Deadlock is checked; a reboot
is always possible.

### `SfpUtil`

`sfputil/main.py` against the platform plugin, which is outside the
repository and given by constants: the logical ports and their physical
ports (`PhysOf`, a ganged port has several), the names `is_valid_sfputil_port`
accepts, and the EEPROM data (`IfData`, `DomData`, nested dicts over a few
keys, with `KeyOrder` the sorted order).

| Variable / action | Code |
|---|---|
| `present`, `lp` | each physical port's transceiver presence and low-power mode |
| `cmd`, `out` | the last command and what it printed (abstract lines and rows) |
| `dict_to_string_pretty`, `dict_to_string_comma_separated` | RECURSIVE renderers of the EEPROM dicts, keys in sorted order, blacklists of `--oneline` |
| `logical_port_name_to_physical_port_list`, `get_physical_port_name`, `Members` | port mapping: a numeral is its own physical port, a ganged member is named `<port>:<i>` with the loop counter `i` |
| `PhysNamed` | the physical port a printed name stands for, as the comment above `get_physical_port_name` (main.py:142-146) documents it: `<port>:<port_num>` |
| `eeprom` | `show eeprom` in its three modes, over `port_eeprom_data_string_pretty` (returns inside its loop), `..._oneline`, `..._raw_string_pretty`; invalid names and unmapped ports print the error instead |
| `presence`, `lpmode` (`StatusTable`) | the two status tables, one row per physical port |
| `set_lpmode`, `reset` (`Results`) | the plugin call on every physical port, each of which may fail, printed OK/Failed |
| `Plug` | a transceiver plugged or pulled between commands |

`AllowedItems` and `CommaJoin` are reference definitions of the `--oneline`
output (every item outside the blacklist, joined by commas). No fairness:
the commands are the user's.

### `FastRebootDump`

`scripts/fast-reboot-dump.py` run once, against syncd (learning, moving and
ageing FDB entries in ASIC_DB) and neighsyncd (setting and removing
`NEIGH_TABLE` entries in APPL_DB). A store entry is `Absent` when its hash is
gone. The bridge-port and host-interface objects are created by syncd at start
and are constants (`BridgePorts`, `PortType`, `PortId`, `HostifOf`), as are
the VLAN ids (`Vlans`, from `/proc/net/dev`) and each MAC's first octet.

| Variable / action | Code |
|---|---|
| `fdb`, `neigh` | the ASIC_DB FDB entries (`<<vlan, mac>>` to bridge port) and the neighbor table (key to MAC) |
| `is_mac_unicast`, `get_bridge_port_id_2_port_id`, `get_map_port_id_2_iface_name`, `get_map_bridge_port_id_2_iface_name` | the helpers, as operators over the constants |
| `pc`, `vi`, `todo` | where the script is, the VLAN `get_fdb` dumps, the keys of the current KEYS result not yet handled |
| `FdbScan`, `FdbEntry(m)`, `FdbVlanDone`, `FdbWrite` | `get_fdb` per VLAN: KEYS, then per key: multicast skipped, the MAC added to `available_macs`, HGETALL (None raises `TypeError`: `pc = "crashed"`), a bridge port without an interface skipped; then `/tmp/fdb.json` |
| `ArpScan`, `ArpEntry(n)`, `ArpWrite` | `generate_arp_entries`: KEYS `NEIGH_TABLE:*`, HGETALL per key (None raises), entries whose MAC is not in `all_available_macs` skipped; then `/tmp/arp.json` |
| `Learn`, `Age`, `NeighSet`, `NeighDel` | the writers, at most `MaxChanges` steps |

**Fairness.** `WF_vars(Dump)`: the script is one thread that never waits (its
connects are one-shot and its reads non-blocking). The writers need not act.
The run says `CHECK_DEADLOCK FALSE` because the script ends.

## 4. Runs

The `read_*` runs use `MC_DBInterface` with two databases (the caller reads
`d1`, the producer writes both, which exercises the cross-database wake-ups),
two hashes, two fields, values `{v1, empty}` and one `keys()` pattern `{h1}`.

| Run | cfg | Expect | Checks | Shows |
|---|---|---|---|---|
| read_nofault | `DBInterface_nofault.cfg` (3 writes, 0 faults) | pass | `TypeOK`, `NoLostWakeup`, `AbstractSpec`, `CallEnds` | the subscribe-then-reread closes the lost-wake-up window; every outcome is justified by the call's last read (refinement of `BlockingRead`); calls end |
| read_faults | `DBInterface_faults.cfg` (2 writes, 2 faults) | pass | `TypeOK`, `WakeupLostOnlyToDrop`, `CallEnds` | calls end through faults; a caller waiting on a live channel without the message its data produced lost that message to a connection drop, never to the subscribe/re-read order |
| config_bgp | `ConfigBgp_admin.cfg` (2 commands, 2 neighbors, 2 reloads) | pass | `TypeOKBgp`, `NeighborsWhole`, `ReadyOnlyWhenLoaded` | no helper's connector proceeds on a flushed or half-loaded database, also when it handles one reload's SET after the next reload's flush (the indicator re-read) and after sonic-cfggen fails; no half neighbor row outlives a reload that keeps every neighbor |
| bgp_orphan | `ConfigBgp_orphan.cfg` (the reload drops `a2`) | violation | `NeighborsWhole` | `shutdown all` writes `admin_status` to a neighbor it listed before the reload, creating a row the new configuration does not have |
| config_lost_init | `ConfigDBInit_lost_init.cfg` (2 consumers, 1 reload) | violation | `EveryConsumerReady` | a consumer that reads the indicator after the flush and subscribes after the SET waits forever |
| store_roundtrip | `ConfigDBStore_pass.cfg` (3 calls) | pass | `TypeOK`, `ColumnsReadBack`, `WrittenRowsListed` | written columns read back through HMSET merges, deletes and `set_config`; `get_table` lists exactly the keys whose last write had columns |
| listen_dispatch | `ConfigDBListen_dispatch.cfg` (3 writes) | violation | `ViewConverges` | an `unsubscribe` from another thread between `__fire`'s `has_key` and its lookup raises `KeyError` out of `listen()`; later changes of the still-handled tables never reach their handlers |
| lldp_sync | `LldpSync_sync.cfg` (2 changes) | pass | `TypeOK`, `MixedOnlyWhileSyncing`, `NeighborsEventuallySynced` | a reader sees a mixed or partial entry only while `sync` is writing it; a settled table that parses ends up in APPL_DB |
| installer_boot | `SonicInstaller_boot.cfg` (3 images) | pass | `TypeOK`, `BootTargetInstalled` | on both boot loaders the next boot target is always on disk, through failed installs, re-pointed boot-config and cut menuentries |
| installer_next_boot | `SonicInstaller_next_boot.cfg` (3 images) | violation | `NextBootIsChosen` | removing an image listed before the one `set_next_boot` chose shifts grub's menu under `next_entry` |
| fast_reboot_race | `FastRebootDump_race.cfg` (1 VLAN, 2 MACs, 1 neighbor, 2 changes) | violation | `DumpCompletes` | a neighbor removed between the ARP scan's KEYS and its HGETALL crashes the dump after `/tmp/fdb.json` and before `/tmp/arp.json` is written (an FDB entry aged out in the same window does the same to `/tmp/fdb.json`) |
| sfp_cli | `SfpUtil_cli.cfg` | violation | `ReportedLpmodeApplied` | `lpmode on Ethernet0` (ganged over ports 2 and 3) prints `Ethernet0:2 OK` for port 3 while port 2 failed: the names count members, the comment says they carry the physical port |

Bounds: three writes are enough for a write before the subscription, one
between subscription and wait, and one that wakes the caller without giving it
its data; two faults let a fault hit both the read and the wait of one call
(`read_nofault` 301 410 states, `read_faults` 266 949, each under 30 s).
`MC_ConfigDBInit` uses two consumers (one can subscribe during a reload while
the other is past its wait). `MC_ConfigBgp` adds two neighbors `a1`, `a2`
with names `h1`, `h2` and lets each consumer run one of four commands
(`shutdown all`, `startup all`, `shutdown neighbor h2` by name,
`startup neighbor a1` by address): one reload between two commands covers a
list before the flush and a write after it, and both lookup paths
(113 772 states).
`MC_ConfigDBStore` has two tables (`p`, whose upper-casing is `P`, and `Q`),
a string key `a` and a tuple key `a|b`, and data with no column, a scalar, a
scalar with a two-item list, and a one-item list: three calls reach a merge
over an existing row, a delete and a two-slot `set_config` (56 823 states).
`MC_ConfigDBListen` has two tables, one row and two values; three writes give
an update, a placeholder write over it and a delete while a handler is
removed; a second table keeps a handler while the first one's is removed
inside `__fire`. `MC_LldpSync` has two interfaces, two fields and
neighbors `n1`, `n2` that parse and `n3` with an unhandled port subtype; two
changes let a neighbor be replaced and one removed (2 376 states).
`MC_SonicInstaller` has three images: enough for an image listed before the
chosen one to be removed while a third is current (1 887 states).
`MC_SfpUtil` has a ganged logical port `e0` over physical ports 2 and 3, a
port `e4` over 1, an invalid name `e8` and three numerals; the EEPROM data
have a nested DOM dict and a port without DOM.
`MC_FastRebootDump` has one VLAN, a unicast MAC `m1` and a multicast `m3`,
a bridge port `b1` of `Ethernet0` and `b2` of a port without a host interface,
and one neighbor; two writer changes let an entry age out after KEYS, or be
removed and re-learned (1 746 states). `config_bgp` lets sonic-cfggen fail
after writing any part of the file, and two reloads let a consumer
subscribed during the first handle its SET after the second's flush
(640 513 states).

## 5. Findings

* `fast_reboot_race`: `generate_arp_entries` (fast-reboot-dump.py:15-19)
  lists `NEIGH_TABLE` with KEYS and reads each key with a non-blocking
  `get_all`; a neighbor removed in between reads as None and `entry['neigh']`
  raises `TypeError`, so the script dies with `/tmp/fdb.json` written and
  `/tmp/arp.json` not (the trace TLC reports). `get_fdb` (lines 107-120) has
  the same shape: an FDB entry syncd ages out between its KEYS and its
  `get_all` kills the script before `/tmp/fdb.json`.
* `listen_dispatch`: `__fire` (configdb.py:76-79) tests
  `self.handlers.has_key(table)` and then reads `self.handlers[table]`; an
  `unsubscribe(table)` from another thread in between raises `KeyError`,
  which `listen()`'s `except ValueError` (line 95) does not catch. The
  listening thread ends, and a later change to a table whose handler is
  still registered never reaches it, against spec.md 4.5 (the loop runs
  until the subscription is externally closed). With the `KeyError` branch
  replaced by a return, TLC finds no violation: the lost lookup is the only
  cause. No caller in the repository unsubscribes; the hazard is the
  library's.
* `sfp_cli`: `set_lpmode` (sfputil/main.py:550-558), like `presence` and
  `lpmode`, names a ganged member `get_physical_port_name(logical_port, i,
  ganged)` with the loop counter `i`, while that function's comment (lines
  142-146) and parameter name say the name carries the physical port. For
  `Ethernet0` over ports 2 and 3, `lpmode on` prints `Ethernet0:1 Failed` for
  port 2 and `Ethernet0:2 OK` for port 3: read as documented, port 2 is
  reported OK and was never set.
* `config_lost_init`: `__wait_for_db_init` reads the indicator before it
  subscribes (configdb.py:39-42); a SET in between publishes to nobody and
  `pubsub.listen()` never returns, against spec.md 4.5 ("block until the
  InitIndicator key appears").
* `bgp_orphan`: `config bgp shutdown all` lists the neighbors and then calls
  `set_entry` per address on a fresh connector (config/main.py:68-73); a
  reload in between that drops a neighbor leaves a `BGP_NEIGHBOR` row holding
  only `admin_status`.
* `installer_next_boot`: `remove` (sonic_installer/main.py:214-255) cuts a
  menuentry out of grub.cfg but leaves grubenv's `next_entry`, an index, as
  `set_next_boot` wrote it: the next reboot starts another image.

Divergences confirmed by TLC but kept without a run (see the hazards of
PROJECT.json, whose notes give the trace): `close()` (interface.py:228-229)
closes a channel but leaves it registered, and after a reconnect the wrapper
waits on the closed PubSub; a `config reload` whose sonic-cfggen fails exits
without setting `CONFIG_DB_INITIALIZED` (config/main.py:32), and every later
`connect()`, the next reload's own included, waits forever; the ARP dump keeps
a neighbor whose MAC is in an FDB entry it dropped for lack of a host
interface (fast-reboot-dump.py:115 adds the MAC before the check at 121); the wait budget is per handler
call (interface.py:324), not per read as spec.md 4.4 states; a connection
error in `psubscribe` escapes the retry loop (interface.py:44); `sync()`
never deletes an aged-out neighbor (daemon.py:234); an unhandled chassis
subtype ends the LLDP thread (daemon.py:197); `show eeprom` renders only
the first physical port of a ganged port (sfputil/main.py:210); `--oneline`
drops the items after the first blacklisted key of a dict
(sfputil/main.py:114). Also kept as hazards: `set_entry(t, k, {})` over an
existing row leaves its columns (configdb.py:158); `get_table` drops
placeholder-only rows that `get_config` lists (configdb.py:192); an empty
list reads back as `['']` (configdb.py:109); a column changed between scalar
and list keeps both raw columns (configdb.py:123); an unhandled port subtype
makes `parse_update` skip every interface (daemon.py:213); `remove` matches
the image name as a prefix (sonic_installer/main.py:241), and with one name
extending another TLC breaks `BootTargetInstalled` in four steps; `NoLostWakeup`
fails under faults (a SET published while the connection is down never
reaches the re-subscribed channel, 9 steps), which `WakeupLostOnlyToDrop`
attributes to the drop; a `ResponseError` after a subscription leaves the
live channel registered (interface.py:54-62, 6 steps).

## 6. Not modelled (yet)

* `DBInterface`: the attempt counter (it only selects log levels), the settling
  delay's length, one-shot connect and the registry's `MissingClientError`
  (the modelled callers connect once, persistently, before reading).
* Consumers already past their wait while a reload runs: they read whatever
  the store holds. `load_minigraph` has the same first steps as `reload`
  (connect, FLUSHDB, sonic-cfggen, SET) and is the same loader; the service
  restarts after it are outside the store.
* `SonicSyncDaemon.stop()`: called only from `main`'s `finally`, at exit.
* `swsssdk/port_util.py` and the db-index check of `dbconnector.py`:
  library helpers that no program of the repository calls, and the check
  runs once at import.
* `show` and `debug` only build shell commands and print their output
  (`AliasedGroup.get_command`'s prefix matching is a pure lookup over the
  command names); the other `config` commands (save, load, load_mgmt_config,
  interface) run sonic-cfggen, ip or service restarts;
  `sonic_installer list`/`binary_version` only print.
* `sfputil`'s `raw_bytes_to_string_pretty` is byte layout, and its plugin
  loading exits before any command when it fails.
* The Arista platform files describe hardware (component addresses, drivers,
  LED names per transceiver lane) and write sysfs files once at start.
  `LedControl` (utils/sonic_leds.py) reacts to link events by writing the
  brightness of the slice of a transceiver's LEDs that a (possibly broken
  out) port's lanes select. Its behaviour depends on `port_config.ini` and
  on the order ledd, outside the repository, delivers events in; each event
  is handled in one step that overwrites the files, so a model of it would
  have no interleaving to explore. It is left out in favour of the
  store-access questions above.
