------------------------------- MODULE MCCApi -------------------------------
(* Programs that start for the first time in three threads or processes at   *)
(* once, that stop their hosts by signals, that describe their services from *)
(* two threads, that expose endpoints, and that issue credentials.           *)
EXTENDS CApi

W(s) == <<s>>
Common == {"epx_identity_load_or_create", "epx_host_create"}
MCPrograms ==
  { [calls |-> {"first start", "epx_identity_load_or_create"}, threads |-> Threads, hosts |-> {}] }
  \cup { [calls |-> {"epx_host_create", "epx_host_stop_on_signals", "epx_host_free", "signal"},
          threads |-> T, hosts |-> Hosts] : T \in kSubset(2, Threads) }
  \cup { [calls |-> Common \cup {"epx_host_run", "epx_describe", "epx_list_services", "epx_host_free"},
          threads |-> T, hosts |-> {h}] : T \in kSubset(2, Threads), h \in Hosts }
  \cup { [calls |-> Common \cup c, threads |-> {t}, hosts |-> {h}] : t \in Threads, h \in Hosts,
           c \in { {"epx_host_expose", "epx_host_set_description", "epx_host_run", "epx_host_stop",
                    "epx_host_request_stop", "epx_host_wait_until_stopped", "epx_describe"},
                   {"epx_make_credential", "epx_host_add_credential", "save", "epx_host_run"} } }
MCNumbers == { W("0"), W("1"), W("7"), W("pid 1"), W("pid 2") }
MCLivePids == { W("pid 1") }
MCNames == { << >>, <<W("a")>>, <<W("a"), W(":"), W("b")>>, <<W("a"), W(","), W("b")>>, <<W("$epx/"), W("x")>> }
MCDescriptions == { <<W("d"), W("="), W("e")>>, <<W("d"), NL, W("pid"), W("="), W("pid 2")>> }
MCScopes == { << >>, <<W("s")>>, <<W("s"), W("/"), W("="), W("e")>>,
              <<W("s"), NL, W("scope"), W("="), W("r")>>, <<W("s"), NL, W("expires"), W("="), W("x")>> }
MCPeers == { <<"key", 7>> }
MCExpiries == { W("0"), W("7") }
Symmetry == Permutations(Threads) \cup Permutations(Hosts)
=============================================================================
