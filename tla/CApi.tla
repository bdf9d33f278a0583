-------------------------------- MODULE CApi --------------------------------
(***************************************************************************)
(* A program that uses the C API (c_api.cpp) from several threads: the     *)
(* identity file that its calls and other processes create at once         *)
(* (keystore.cpp), hosts from their creation to their destruction and what *)
(* they publish about themselves, credentials, and the table of hosts that *)
(* a signal handler walks, which is module SignalTable.                    *)
(*                                                                         *)
(* What a running host does is in HostLifecycle, and calls of a client are *)
(* in Calls and Rendezvous.  Every program, one of Programs, makes a part  *)
(* of the calls, on some threads and with some hosts.                      *)
(***************************************************************************)
EXTENDS Text, SignalTable

CONSTANTS Programs,        \* calls, threads and hosts of a program
          MaxKeys,         \* bound: keys generated
          Names,           \* endpoint names
          MaxEndpoints,    \* bound: endpoints of all hosts
          Descriptions,
          Scopes, Expiries, Peers,
          MaxCreds         \* bound: credentials made

Self == <<"pid 1">>   \* getpid()

\* Names, descriptions and scopes are texts, and no scope has a signature in it.
ASSUME CApiAssumption ==
  /\ {MaxKeys, MaxEndpoints, MaxCreds} \subseteq Nat
  /\ \A p \in Programs : "first start" \in p.calls => "epx_identity_load_or_create" \in p.calls
  /\ Self \in LivePids /\ Expiries \subseteq Numbers
  /\ \A p \in Peers : Len(p) = 2
  /\ \A x \in Names \cup Descriptions \cup Scopes : x \in Seq(ToSet(x))
  /\ \A x \in Scopes : \A i \in 1 .. Len(x) : Len(x[i]) # 3

VARIABLES program,            \* the program: one of Programs
          at,                 \* per thread: its creation of an identity
          last, last_error,   \* per thread: its last guarded call, t_last_error
          ids,                \* per thread: the identity it has loaded
          keyFile, tmpFile,   \* inodes of <app>.key and <app>.key.tmp, 0 if there is none
          inode,              \* contents of the inodes
          keys,               \* history: how many generated, two creators at once, a failed one
          host,               \* per handle: what its Host holds
          registry,           \* per service: the text of its entry, << >> if there is none
          looks,              \* per thread: the registry::lookup()s it makes
          lost,               \* history: services whose new entry another's lookup() removed
          made, credFiles     \* credentials issued; texts in the credentials directory

keyVars == <<keyFile, tmpFile, inode, keys>>
fileVars == <<registry, looks, lost, made, credFiles>>
vars == <<program, at, last, last_error, ids, keyVars, host, fileVars, table>>

NoKey == <<"none">>
Key(n) == <<"key", n>>
Empty == <<"empty">>
Idle == [op |-> "idle"]
NoLook == [call |-> "none", todo |-> {}, found |-> FALSE, stale |-> NoHost, read |-> << >>]

NewHost(key) == [key |-> key, running |-> FALSE, run_failed |-> FALSE, handlers |-> << >>,
                 description |-> << >>, creds |-> {}]

\* An entry that a process left behind when it died.
StaleEntry == publish([service |-> << <<"s">> >>, address |-> << <<"sock">> >>, key |-> Key(0),
                       pid |-> <<"pid 2">>, endpoints |-> << >>, description |-> << >>])

Init ==
  /\ program \in Programs
  /\ at = [t \in Threads |-> Idle]
  /\ last = [t \in Threads |-> [call |-> "any", status |-> "EPX_OK"]]
  /\ last_error = [t \in Threads |-> "no error"]
  /\ ids = [t \in Threads |-> IF "epx_identity_load_or_create" \in program.calls THEN NoKey ELSE Key(0)]
  /\ tmpFile = 0
  /\ IF "first start" \in program.calls THEN keyFile = 0 /\ inode = << >>
                                  ELSE keyFile = 1 /\ inode = << Key(0) >>
  /\ keys = [generated |-> 0, overlapped |-> FALSE, failed |-> FALSE]
  /\ host = [h \in Hosts |-> NewHost(NoKey)]
  /\ TableInit
  /\ registry \in {r \in [Hosts -> {<< >>, StaleEntry}] :
                     \A h \in Hosts : r[h] # << >> => "epx_describe" \in program.calls /\ h \in program.hosts}
  /\ looks = [t \in Threads |-> NoLook] /\ lost = {}
  /\ made = {} /\ credFiles = {}

---------------------------------------------------------------------------
(* Threads and their errors.                                               *)

Calls(t, call) ==
  /\ call \in program.calls /\ t \in program.threads
  /\ at[t] = Idle /\ looks[t] = NoLook /\ MayCall(t)

\* Mutant: the message goes to all threads, as a static string would.
GuardedShared(t, call, status) ==
  /\ last' = [last EXCEPT ![t] = [call |-> IF status = "EPX_OK" THEN "any" ELSE call, status |-> status]]
  /\ last_error' = IF status = "EPX_OK" THEN last_error ELSE [u \in Threads |-> call]

\* guarded(): the status of the call, and if it failed its message, which is
\* the name of the call here.
guarded(t, call, status) ==
  /\ last' = [last EXCEPT ![t] = [call |-> IF status = "EPX_OK" THEN "any" ELSE call, status |-> status]]
  /\ last_error' = IF status = "EPX_OK" THEN last_error ELSE [last_error EXCEPT ![t] = call]

unguarded == UNCHANGED <<last, last_error>>

---------------------------------------------------------------------------
(* load_or_create_identity, by threads of this and of other processes.     *)
(* The key and its tmp file are names of inodes: a second open() of the    *)
(* tmp file truncates the inode that the first creator writes, also after  *)
(* the first has renamed it.  A write of one key is one write().           *)

Creating(t) == at[t].op \in {"open", "write", "rename"}

epx_identity_load_or_create(t) ==
  /\ Calls(t, "epx_identity_load_or_create") /\ ids[t] = NoKey
  /\ IF keyFile # 0 /\ inode[keyFile] # Empty
     THEN /\ ids' = [ids EXCEPT ![t] = inode[keyFile]]
          /\ guarded(t, "identity", "EPX_OK")
          /\ UNCHANGED <<at, keys>>
     ELSE /\ keys.generated < MaxKeys
          /\ keys' = [keys EXCEPT !.generated = @ + 1,
                                  !.overlapped = @ \/ \E u \in Threads : Creating(u)]
          /\ at' = [at EXCEPT ![t] = [op |-> "open", key |-> Key(keys.generated + 1)]]
          /\ unguarded /\ UNCHANGED ids
  /\ UNCHANGED <<program, keyFile, tmpFile, inode, host, table, fileVars>>

\* open(tmp, O_WRONLY | O_CREAT | O_TRUNC)
KeyOpen(t) ==
  /\ at[t].op = "open" /\ Running(t)
  /\ IF tmpFile = 0
     THEN inode' = Append(inode, Empty) /\ tmpFile' = Len(inode) + 1
     ELSE inode' = [inode EXCEPT ![tmpFile] = Empty] /\ UNCHANGED tmpFile
  /\ at' = [at EXCEPT ![t] = [op |-> "write", key |-> at[t].key, file |-> tmpFile']]
  /\ unguarded /\ UNCHANGED <<program, ids, keyFile, keys, host, table, fileVars>>

KeyWrite(t) ==
  /\ at[t].op = "write" /\ Running(t)
  /\ inode' = [inode EXCEPT ![at[t].file] = at[t].key]
  /\ at' = [at EXCEPT ![t] = [op |-> "rename", key |-> at[t].key]]
  /\ unguarded /\ UNCHANGED <<program, ids, keyFile, tmpFile, keys, host, table, fileVars>>

\* Mutant: the result of the write is ignored, as pin_peer does.
KeyWriteIgnored(t) ==
  /\ at[t].op = "write" /\ Running(t)
  /\ at' = [at EXCEPT ![t] = [op |-> "rename", key |-> at[t].key]]
  /\ unguarded /\ UNCHANGED <<program, ids, keyFile, tmpFile, inode, keys, host, table, fileVars>>

\* open() or write() fails: std::runtime_error.
KeyWriteFails(t) ==
  /\ at[t].op \in {"open", "write"} /\ Running(t)
  /\ at' = [at EXCEPT ![t] = Idle]
  /\ keys' = [keys EXCEPT !.failed = TRUE]
  /\ guarded(t, "identity", "EPX_ERR_INTERNAL")
  /\ UNCHANGED <<program, ids, keyFile, tmpFile, inode, host, table, fileVars>>

\* rename() fails if another creator has renamed the tmp file; nobody looks.
KeyRename(t) ==
  /\ at[t].op = "rename" /\ Running(t)
  /\ keyFile' = (IF tmpFile = 0 THEN keyFile ELSE tmpFile) /\ tmpFile' = 0
  /\ ids' = [ids EXCEPT ![t] = at[t].key]
  /\ at' = [at EXCEPT ![t] = Idle]
  /\ guarded(t, "identity", "EPX_OK")
  /\ UNCHANGED <<program, inode, keys, host, table, fileVars>>

---------------------------------------------------------------------------
(* Hosts.                                                                  *)

\* A change of one host by a call that touches nothing else.
Becomes(h, r) ==
  /\ host' = [host EXCEPT ![h] = r]
  /\ UNCHANGED <<program, at, ids, keyVars, fileVars>>

epx_host_create(t, h) ==
  /\ Calls(t, "epx_host_create") /\ ids[t] # NoKey /\ h \in program.hosts
  /\ Construct(h)
  /\ Becomes(h, NewHost(ids[t]))
  /\ guarded(t, "create", "EPX_OK")

\* check_endpoint_name: the prefix "$epx/" is reserved.
Reserved(name) == name # << >> /\ name[1] = <<"$epx/">>

Endpoints == {e \in Hosts \X Names : e[2] \in DOMAIN host[e[1]].handlers}

\* Hosts are set up before run(), as epx.hpp asks.  The second form of each
\* call, with an access tier, replaces the entry in the same way; the tier
\* belongs to module Access.
Expose(t, h, kind, name, valid) ==
  /\ Calls(t, "epx_host_expose") /\ Usable(h) /\ ~host[h].running
  /\ IF valid /\ ~Reserved(name)
     THEN LET old == host[h].handlers IN
          /\ name \in DOMAIN old \/ Cardinality(Endpoints) < MaxEndpoints
          /\ Becomes(h, [host[h] EXCEPT !.handlers =
               [n \in DOMAIN old \cup {name} |-> IF n = name THEN kind ELSE old[n]]])
          /\ guarded(t, "expose", "EPX_OK")
     ELSE /\ Becomes(h, host[h])
          /\ guarded(t, "expose", "EPX_ERR_INVALID_ARGUMENT")
  /\ UNCHANGED table

epx_host_expose(t, h, kind, name) == Expose(t, h, kind, name, kind \in {"Receive", "Send"})

\* expose_stream_receive, expose_stream_send and expose_topic.
expose_stream_or_topic(t, h, kind, name) ==
  kind \in {"StreamReceive", "StreamSend", "Topic"} /\ Expose(t, h, kind, name, TRUE)

epx_host_set_description(t, h, text) ==
  /\ Calls(t, "epx_host_set_description") /\ Usable(h) /\ ~host[h].running
  /\ Becomes(h, [host[h] EXCEPT !.description = text])
  /\ unguarded /\ UNCHANGED table

\* publish_registry: a line for the file, the endpoints in any order.
publish_registry(h) ==
  LET handlers == host[h].handlers
      names == SetToSeq(DOMAIN handlers) IN
  publish([service |-> << <<"s">> >>, address |-> << <<"sock">> >>, key |-> host[h].key,
           pid |-> Self, description |-> host[h].description,
           endpoints |-> [i \in DOMAIN names |->
             names[i] \o << <<":">>, kind_to_string(handlers[names[i]]) >>]])

\* credentials::parse and signature_valid, of add_credential and of the files.
Accepted(texts) == {c \in {parse(x) : x \in texts} : c.ok /\ signature_valid(c)}

\* run(): the second call returns, also after the first one failed.  A
\* failed listen() leaves running set and nothing published.
epx_host_run(t, h, listens) ==
  /\ Calls(t, "epx_host_run") /\ Usable(h)
  /\ IF host[h].running
     THEN UNCHANGED <<host, registry, lost>>
     ELSE /\ host' = [host EXCEPT ![h].running = TRUE, ![h].run_failed = @ \/ ~listens,
                                  ![h].creds = @ \cup Accepted(credFiles)]
          /\ IF listens
             THEN registry' = [registry EXCEPT ![h] = publish_registry(h)] /\ lost' = lost \ {h}
             ELSE UNCHANGED <<registry, lost>>
  /\ guarded(t, "run", IF listens \/ host[h].running THEN "EPX_OK" ELSE "EPX_ERR_INTERNAL")
  /\ UNCHANGED <<program, at, ids, keyVars, table, looks, made, credFiles>>

\* Host::stop() as its callers see it.
Stopped(h) ==
  /\ host' = [host EXCEPT ![h].running = FALSE]
  /\ registry' = IF host[h].running THEN [registry EXCEPT ![h] = << >>] ELSE registry
  /\ unguarded
  /\ UNCHANGED <<program, at, ids, keyVars, table, looks, lost, made, credFiles>>

epx_host_stop(t, h) ==
  /\ Calls(t, "epx_host_stop") /\ Usable(h)
  /\ Stopped(h)

epx_host_request_stop(t, h) ==
  /\ Calls(t, "epx_host_request_stop")
  /\ request_stop(h)
  /\ unguarded /\ UNCHANGED <<program, at, ids, keyVars, host, fileVars>>

epx_host_wait_until_stopped(t, h) ==
  /\ Calls(t, "epx_host_wait_until_stopped") /\ Usable(h)
  /\ ~host[h].running \/ stop_requested[h]
  /\ Stopped(h)

---------------------------------------------------------------------------
(* Enumeration.  lookup() reads an entry and, if its process is dead,      *)
(* removes it: whatever is there by then.                                  *)

\* A call that looks up a set of services, one after the other, in any order.
LooksUp(t, call, services) ==
  /\ looks' = [looks EXCEPT ![t] = [NoLook EXCEPT !.call = call, !.todo = services]]
  /\ unguarded
  /\ UNCHANGED <<program, at, ids, keyVars, host, table, registry, lost, made, credFiles>>

epx_describe(t, h) ==
  /\ Calls(t, "epx_describe") /\ h \in program.hosts
  /\ LooksUp(t, "describe", {h})

epx_list_services(t) ==
  /\ Calls(t, "epx_list_services")
  /\ LooksUp(t, "list", program.hosts)

\* lookup() reads an entry.
LookupReads(t, h) ==
  /\ h \in looks[t].todo /\ looks[t].stale = NoHost /\ Running(t)
  /\ LET text == registry[h]
         e == lookup(text) IN
     IF text # << >> /\ e.stale
     THEN looks' = [looks EXCEPT ![t].stale = h, ![t].read = text]
     ELSE looks' = [looks EXCEPT ![t].todo = @ \ {h}, ![t].found = @ \/ (text # << >> /\ e.found)]
  /\ unguarded
  /\ UNCHANGED <<program, at, ids, keyVars, host, table, registry, lost, made, credFiles>>

\* unpublish(), by a lookup() that has read a stale entry.
LookupUnpublishes(t) ==
  LET h == looks[t].stale IN
  /\ h # NoHost /\ Running(t)
  /\ registry' = [registry EXCEPT ![h] = << >>]
  /\ lost' = IF registry[h] \in {<< >>, looks[t].read} THEN lost ELSE lost \cup {h}
  /\ looks' = [looks EXCEPT ![t].todo = @ \ {h}, ![t].stale = NoHost, ![t].read = << >>]
  /\ unguarded
  /\ UNCHANGED <<program, at, ids, keyVars, host, table, made, credFiles>>

\* The call returns.
LookedUp(t) ==
  /\ looks[t].todo = {} /\ Running(t)
  /\ looks' = [looks EXCEPT ![t] = NoLook]
  /\ \/ looks[t].call = "list" /\ guarded(t, "list", "EPX_OK")
     \/ /\ looks[t].call = "describe"
        /\ guarded(t, "describe", IF looks[t].found THEN "EPX_OK" ELSE "EPX_ERR_NOT_FOUND")
  /\ UNCHANGED <<program, at, ids, keyVars, host, table, registry, lost, made, credFiles>>

---------------------------------------------------------------------------
(* Credentials.                                                            *)

epx_make_credential(t, peer, scope, expires) ==
  /\ Calls(t, "epx_make_credential") /\ ids[t] # NoKey /\ Cardinality(made) < MaxCreds
  /\ made' = made \cup {[peer |-> peer, scope |-> scope, expires |-> expires, issuer |-> ids[t]]}
  /\ guarded(t, "credential", "EPX_OK")
  /\ UNCHANGED <<program, at, ids, keyVars, host, table, registry, looks, lost, credFiles>>

\* A credential is copied to the credentials directory; run() may find the
\* file while it is being written, with its first tokens only.
SaveCredential(c, n) ==
  /\ "save" \in program.calls /\ credFiles = {}
  /\ n <= Len(make_credential(c))
  /\ credFiles' = { SubSeq(make_credential(c), 1, n) }
  /\ unguarded
  /\ UNCHANGED <<program, at, ids, keyVars, host, table, registry, looks, lost, made>>

epx_host_add_credential(t, h, c) ==
  /\ Calls(t, "epx_host_add_credential") /\ Usable(h)
  /\ Becomes(h, [host[h] EXCEPT !.creds = @ \cup Accepted({make_credential(c)})])
  /\ unguarded /\ UNCHANGED table

---------------------------------------------------------------------------
(* Signals.                                                                *)

SameProgram == unguarded /\ UNCHANGED <<program, at, ids, keyVars, host, fileVars>>

\* Each signal is forwarded in a call of its own, so that every one of them
\* takes a slot.
epx_host_stop_on_signals(t, h, n) ==
  /\ Calls(t, "epx_host_stop_on_signals")
  /\ StopOnSignals(t, h, n)
  /\ SameProgram

epx_host_free(t, h) ==
  /\ Calls(t, "epx_host_free")
  /\ DestructorBegins(t, h)
  /\ SameProgram

Walks(t) ==
  /\ RegisterPasses(t) \/ RegisterEnds(t) \/ unregister_signal_host(t)
  /\ SameProgram

\* ~Host() goes on with stop(), and the object is gone.
HostDestroyed(t) ==
  LET h == walk[t].h IN
  /\ Destroy(t)
  /\ host' = [host EXCEPT ![h] = NewHost(NoKey)]
  /\ registry' = IF host[h].running THEN [registry EXCEPT ![h] = << >>] ELSE registry
  /\ unguarded /\ UNCHANGED <<program, at, ids, keyVars, looks, lost, made, credFiles>>

SignalComes(t) ==
  /\ "signal" \in program.calls /\ t \in program.threads
  /\ Signal(t)
  /\ SameProgram

epx_signal_trampoline == (TrampolineLoad \/ TrampolineRequest) /\ SameProgram

---------------------------------------------------------------------------
Next ==
  \/ \E t \in Threads :
       \/ epx_identity_load_or_create(t) \/ KeyOpen(t) \/ KeyWrite(t) \/ KeyWriteFails(t) \/ KeyRename(t)
       \/ Walks(t) \/ HostDestroyed(t) \/ SignalComes(t)
       \/ epx_list_services(t) \/ LookupUnpublishes(t) \/ LookedUp(t)
       \/ \E p \in Peers, s \in Scopes, e \in Expiries : epx_make_credential(t, p, s, e)
       \/ \E h \in Hosts :
            \/ epx_host_create(t, h) \/ epx_host_stop(t, h) \/ epx_host_request_stop(t, h)
            \/ epx_host_wait_until_stopped(t, h) \/ epx_host_free(t, h) \/ epx_describe(t, h)
            \/ LookupReads(t, h)
            \/ \E k \in EndpointKind, n \in Names :
                 \/ epx_host_expose(t, h, k, n) \/ expose_stream_or_topic(t, h, k, n)
            \/ \E d \in Descriptions : epx_host_set_description(t, h, d)
            \/ \E b \in BOOLEAN : epx_host_run(t, h, b)
            \/ \E c \in made : epx_host_add_credential(t, h, c)
            \/ \E n \in 1 .. MaxSignals : epx_host_stop_on_signals(t, h, n)
  \/ \E c \in made : \E n \in 0 .. Len(make_credential(c)) : SaveCredential(c, n)
  \/ epx_signal_trampoline

Spec == Init /\ [][Next]_vars

---------------------------------------------------------------------------
(* Properties.                                                             *)

Statuses == {"EPX_OK", "EPX_ERR_NOT_FOUND", "EPX_ERR_INVALID_ARGUMENT", "EPX_ERR_INTERNAL"}

\* The variables have their types, and a thread whose last guarded call
\* failed finds that call's own message (guarded() and t_last_error,
\* c_api.cpp:20-54), whatever other threads have called since.
TypeOK ==
  /\ \A t \in Threads :
       /\ at[t].op \in {"idle", "open", "write", "rename"}
       /\ last[t].status \in Statuses
       /\ last[t].status # "EPX_OK" => last_error[t] = last[t].call
  /\ TableTypeOK
  /\ keyFile \in 0 .. Len(inode) /\ tmpFile \in 0 .. Len(inode)

\* When nobody is loading (keystore.cpp:85-110) and no load has failed, the
\* key file is there, whole, and holds a key that a caller has got, however
\* the opens, writes and renames of the creators interleaved.  A second key
\* is generated only by creators that overlap, or after one that failed.
KeyFileSettles ==
  /\ (\A t \in Threads : ~Creating(t)) /\ ~keys.failed /\ (\E t \in Threads : ids[t] # NoKey) =>
       /\ keyFile # 0
       /\ \E t \in Threads : inode[keyFile] = ids[t]
  /\ keys.generated > 1 => keys.overlapped \/ keys.failed

OneLine(text) == ~Contains(text, NL)

\* What describe() (registry.cpp:166-188) finds about a running host is what
\* the host has exposed, name by name and kind by kind, with its
\* description and its key, through the text in between.  Names may hold
\* the ':' that divides name and kind, and descriptions a '='; a name with
\* a ',' in it and a description of several lines do not come through, and
\* neither does a host whose run() failed and was called again.  The entry
\* is missing only if a lookup() that had read the one before it, of a dead
\* process, removed this one (registry.cpp:133-134).
DescribeMatches ==
  \A h \in Hosts :
    /\ host[h].running /\ ~host[h].run_failed
    /\ OneLine(host[h].description)
    /\ \A n \in DOMAIN host[h].handlers : OneLine(n) /\ ~Contains(n, <<",">>)
    => \/ h \in lost /\ registry[h] = << >>
       \/ /\ lookup(registry[h]).found
          /\ describe(lookup(registry[h])) =
               [description |-> host[h].description, pid |-> Self, key |-> << host[h].key >>,
                endpoints |-> {[name |-> n, kind |-> host[h].handlers[n]] : n \in DOMAIN host[h].handlers}]

\* Every credential a host holds (host.cpp:452-468, 905-911) says what its
\* issuer signed, also when the scope it was made for has several lines or
\* the file was read half written; and one made for a scope of one line
\* always comes through serialize and parse.
AcceptedAsSigned ==
  /\ \A h \in Hosts :
       \A c \in host[h].creds : \E m \in made :
         /\ c.peer = m.peer /\ c.issuer = m.issuer /\ c.scope = m.scope /\ c.expires = m.expires
  /\ \A m \in made : m.scope # << >> /\ OneLine(m.scope) => Accepted({make_credential(m)}) # {}
=============================================================================
