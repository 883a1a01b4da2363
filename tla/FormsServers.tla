----------------------------- MODULE FormsServers -----------------------------
(*****************************************************************************)
(* The operations of src/domains/ {dos, ddns, appqos, apm, srv}.ts, and      *)
(* the commands each can build.                                              *)
(*****************************************************************************)
EXTENDS CommandForms

\* src/domains/dos.ts
DosConfigureFlags == {"-s", "-a", "-e", "-d", "-P", "-B", "-o", "-p", "-l", "-f", "-i"}

DosOps == Under(<<"dos">>, {
    Read("cli.dos.v", {F("-V")}),
    Write("cli.dos.a", {F("-A")}),
    Write("cli.dos.d", {F("-D")}),
    Read("cli.dos.p.show", {F("-P") \o Say(<<"show">>)}),
    Read("cli.dos.b.show", {F("-B") \o Say(<<"show">>)}),
    Write("cli.dos", {FlagArgs(DosConfigureFlags)})})

\* src/domains/ddns.ts
DdnsAccountOps == Under(<<"ddns">>, {
    Write("cli.ddns.enable", {Say(<<"enable">>) \o Bit}),
    Read("cli.ddns.log", {Say(<<"log">>)}),
    Write("cli.ddns.forceupdate", {Say(<<"forceupdate">>)}),
    Read("cli.ddns.show", {Say(<<"show">>) \o F("-i") \o N(1, 6)}),
    Read("cli.ddns.show.all", {Say(<<"show">>)}),
    Write("cli.ddns.set", {
        Say(<<"set">>) \o F("-i") \o N(1, 6) \o F("-S") \o N(1, 19) \o F("-T") \o N(1, 3)
        \o F("-D") \o Name \o F("-L") \o Name \o F("-P") \o Name})})

DdnsUpdateOps == Under(<<"ddns">>, {
    Write("cli.ddns.time", {Say(<<"time">>) \o N(1, 14400)}),
    Write("cli.ddns.setdefault", {Say(<<"setdefault">>)}),
    Write("cli.ddns.set.update", After(Say(<<"set">>) \o F("-i") \o N(1, 6),
        Some(<<F("-S") \o N(1, 19), F("-T") \o N(1, 3), F("-D") \o Quoted,
               F("-L") \o Name, F("-P") \o Name, F("-E") \o Bit, F("-W") \o N(1, 14),
               F("-C") \o Bit, F("-B") \o Bit, F("-M") \o Name, F("-R") \o Bit,
               F("-H") \o Name, F("-A") \o Name, F("-a") \o Bit, F("-N") \o Bit,
               F("-O") \o Name>>)))})

\* src/domains/appqos.ts
TraceableAppIndexes == {50, 51, 52, 53, 54, 58, 60, 62, 63, 64, 65, 66, 68}

AppqosTraceableOps == Under(<<"appqos">>, {
    Read("cli.appqos.view", {Say(<<"view">>)}),
    Write("cli.appqos.enable", {Say(<<"enable">>) \o Bit}),
    Read("cli.appqos.traceable.v", {Say(<<"traceable">>) \o F("-v")}),
    Write("cli.appqos.traceable.e",
        {Say(<<"traceable">>) \o F("-e") \o N(i, i) \o N(1, 4) : i \in TraceableAppIndexes}),
    Write("cli.appqos.traceable.d",
        {Say(<<"traceable">>) \o F("-d") \o N(i, i) : i \in TraceableAppIndexes})})

AppqosUntraceableOps == Under(<<"appqos", "untraceable">>, {
    Read("cli.appqos.untraceable.v", {F("-v")}),
    Write("cli.appqos.untraceable.e", {F("-e") \o N(0, 123) \o N(1, 4)}),
    Write("cli.appqos.untraceable.d", {F("-d") \o N(0, 123)})})

\* src/domains/apm.ts
ApmBaseOps == Under(<<"apm">>, {
    Write("cli.apm.enable", {Say(<<"enable">>)}),
    Write("cli.apm.disable", {Say(<<"disable">>)}),
    Read("cli.apm.show", {Say(<<"show">>)}),
    Write("cli.apm.clear", {Say(<<"clear">>)}),
    Read("cli.apm.discover", {Say(<<"discover">>)}),
    Read("cli.apm.query", {Say(<<"query">>)})})

ApmProfileOps == Under(<<"apm", "profile">>, {
    Read("cli.apm.profile.summary", {Say(<<"summary">>)}),
    Read("cli.apm.profile.show", {Say(<<"show">>) \o PosInt}),
    Write("cli.apm.profile.clone", {Say(<<"clone">>) \o PosInt \o PosInt \o Name}),
    Write("cli.apm.profile.del", {Say(<<"del">>) \o PosInt}),
    Write("cli.apm.profile.reset", {Say(<<"reset">>)}),
    Write("cli.apm.profile.apply",
        {Say(<<"apply">>) \o PosInt \o PosInt \o PosInt \o PosInt \o PosInt \o PosInt})})

ApmBalanceOps == Under(<<"apm">>, {
    Read("cli.apm.cache.show", {Say(<<"cache", "show">>)}),
    Write("cli.apm.cache.clear", {Say(<<"cache", "clear">>)}),
    Read("cli.apm.lbcfg.show", {Say(<<"lbcfg", "show">>)}),
    Write("cli.apm.lbcfg.set", {
        Say(<<"lbcfg", "set">>) \o Bit \o Bit \o Bit \o N(3, 64) \o Bit \o Bit \o Bit \o Bit
        \o Bit \o Bit \o N(-200, -50)})})

ApmStationOps == Under(<<"apm">>, {
    Read("cli.apm.apsyslog", {Say(<<"apsyslog">>) \o PosInt}),
    Read("cli.apm.syslog", {Say(<<"syslog">>)}),
    Read("cli.apm.stanum", {Say(<<"stanum">>) \o PosInt})})

\* src/domains/srv.ts
SrvDhcpServerOps == Under(<<"srv", "dhcp">>, {
    Write("cli.srv.dhcp.dns1", {Say(<<"dns1">>) \o Kind("lan") \o Ip}),
    Write("cli.srv.dhcp.dns2", {Say(<<"dns2">>) \o Kind("lan") \o Ip}),
    Write("cli.srv.dhcp.gateway", {Say(<<"gateway">>) \o Ip}),
    Write("cli.srv.dhcp.off", {Say(<<"off">>)}),
    Write("cli.srv.dhcp.on", {Say(<<"on">>)})})

SrvDhcpRelayOps == Under(<<"srv", "dhcp">>, {
    Write("cli.srv.dhcp.relay", {
        Say(<<"relay">>) \o One({"servip", "2nd_servip"}) \o Ip,
        Say(<<"relay", "subnet">>) \o N(1, 2)}),
    Write("cli.srv.dhcp.startip", {Say(<<"startip">>) \o Ip}),
    Read("cli.srv.dhcp.status",
        {Say(<<"status">>) \o Opt(Or(Kind("lan"), One({"ip_routed_subnet"})))}),
    Write("cli.srv.dhcp.leasetime", {Say(<<"leasetime">>) \o PosInt})})

SrvNatOpenOps == Under(<<"srv", "nat">>, {
    Write("cli.srv.nat.dmz", {
        Say(<<"dmz">>) \o F("-v"),
        Say(<<"dmz">>) \o N(1, 2) \o N(1, 300) \o F("-i") \o Ip,
        Say(<<"dmz">>) \o N(1, 2) \o N(1, 300) \o F("-e") \o Bit,
        Say(<<"dmz">>) \o N(1, 2) \o N(1, 300) \o F("-r")}),
    Write("cli.srv.nat.openport", {
        Say(<<"openport">>) \o N(1, 260) \o N(1, 10) \o F("-a") \o Bit \o F("-c") \o Name
        \o F("-i") \o Ip \o F("-w") \o PosInt \o N(1, 32)
        \o F("-p") \o One({"TCP", "UDP", "ALL"})
        \o F("-s") \o N(0, 65535) \o F("-e") \o N(0, 65535)})})

SrvNatPortmapOps == {
    Write("cli.srv.nat.portmap", After(Say(<<"srv", "nat", "portmap">>), {
        Say(<<"add">>) \o N(1, 260) \o Name \o One({"tcp", "udp"}) \o N(0, 65535) \o Bit
        \o N(0, 192) \o Ip \o N(1, 65535) \o Or(Kind("wan"), One({"all"})) \o N(1, 32),
        One({"del", "disable"}) \o N(1, 260),
        Say(<<"enable">>) \o N(1, 260) \o One({"tcp", "udp"}),
        One({"flush", "table", "view"})}))}

SrvNatTriggerOps == {
    Write("cli.srv.nat.trigger", After(Say(<<"srv", "nat", "trigger">>), {
        One({"setdefault", "view"}),
        PosInt \o F("-c") \o Name,
        PosInt \o F("-e") \o Bit,
        PosInt \o Flags({"-g0", "-g1"}),
        PosInt \o Flags({"-p", "-P"}) \o N(1, 3),
        PosInt \o Flags({"-t", "-i"}) \o N(0, 65535),
        PosInt \o Flags({"-d", "-v"})}))}

SrvDhcpPublicOps == Under(<<"srv", "dhcp">>, {
    Write("cli.srv.dhcp.dhcp2", After(Say(<<"dhcp2">>), {
        Flags({"-l", "-m"}) \o Bit,
        Flags({"-e", "-d"}) \o N(3, 4),
        F("-v")})),
    Read("cli.srv.dhcp.public.status", {Say(<<"public", "status">>)}),
    Write("cli.srv.dhcp.public.start", {Say(<<"public", "start">>) \o Ip}),
    Write("cli.srv.dhcp.public.cnt", {Say(<<"public", "cnt">>) \o N(1, 10)}),
    Write("cli.srv.dhcp.frcdnsmanl", {Say(<<"frcdnsmanl">>) \o OnOff}),
    Write("cli.srv.dhcp.ipcnt", {Say(<<"ipcnt">>) \o N(0, 256)})})

SrvDhcpNodeOps == Under(<<"srv", "dhcp">>, {
    Write("cli.srv.dhcp.nodetype", {Say(<<"nodetype">>) \o N(i, i) : i \in {1, 2, 4, 8}}),
    Write("cli.srv.dhcp.primwins", {Say(<<"primWINS">>) \o Or(Ip, One({"clear"}))}),
    Write("cli.srv.dhcp.secwins", {Say(<<"secWINS">>) \o Or(Ip, One({"clear"}))}),
    Write("cli.srv.dhcp.expiredrecycleip", {Say(<<"expRecycleIP">>) \o N(5, 300)}),
    Write("cli.srv.dhcp.tftp", {Say(<<"tftp">>) \o Name}),
    Write("cli.srv.dhcp.tftpdel", {Say(<<"tftpdel">>)})})

SrvDhcpOptionOps == {
    Write("cli.srv.dhcp.option", After(Say(<<"srv", "dhcp", "option">>), {
        F("-l"),
        Flags({"-d", "-u"}) \o PosInt,
        F("-e") \o Bit \o F("-i") \o Or(N(1, 100), One({"a", "r"}))
        \o F("-c") \o N(0, 255) \o Flags({"-v", "-x"}) \o Name,
        F("-e") \o Bit \o F("-i") \o Or(N(1, 100), One({"a", "r"}))
        \o F("-c") \o N(0, 255) \o F("-a") \o Ip,
        F("-e") \o Bit \o F("-i") \o Or(N(1, 100), One({"a", "r"})) \o F("-s") \o Ip}))}

SrvNatStatusOps == Under(<<"srv", "nat">>, {
    Write("cli.srv.nat.ipsecpass", {Say(<<"ipsecpass">>) \o One({"on", "off", "status"})}),
    Read("cli.srv.nat.status", {Say(<<"status">>)}),
    Read("cli.srv.nat.showall", {Say(<<"showall">>)}),
    Write("cli.srv.nat.pseudoctl", {
        Say(<<"pseudoctl", "session">>) \o N(0, 2147483647),
        Say(<<"pseudoctl", "function">>) \o N(0, 3)}),
    Write("cli.srv.nat.rsttimeout", {Say(<<"RSTTimeout">>) \o N(0, 10)}),
    Read("cli.srv.nat.view", {Say(<<"view">>)})})

SrvDhcpMacOps == Under(<<"srv", "dhcp", "public">>, {
    Write("cli.srv.dhcp.public.add", {Say(<<"add">>) \o Mac}),
    Write("cli.srv.dhcp.public.del", {Say(<<"del">>) \o Or(Mac, One({"all"}))})})

ServersOps ==
    DosOps \cup DdnsAccountOps \cup DdnsUpdateOps \cup AppqosTraceableOps
    \cup AppqosUntraceableOps \cup ApmBaseOps \cup ApmProfileOps \cup ApmBalanceOps
    \cup ApmStationOps \cup SrvDhcpServerOps \cup SrvDhcpRelayOps \cup SrvNatOpenOps
    \cup SrvNatPortmapOps \cup SrvNatTriggerOps \cup SrvDhcpPublicOps \cup SrvDhcpNodeOps
    \cup SrvDhcpOptionOps \cup SrvNatStatusOps \cup SrvDhcpMacOps
===============================================================================
