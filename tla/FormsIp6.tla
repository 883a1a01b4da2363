------------------------------- MODULE FormsIp6 -------------------------------
(*****************************************************************************)
(* The operations of src/domains/ip6.ts, and the commands each can build.    *)
(*****************************************************************************)
EXTENDS CommandForms

\* src/domains/ip6.ts: interfaces go by numbered labels.
Interface      == Or(Kind("LAN"), Kind("WAN"))
RouteInterface == Or(Interface, Kind("VPN"))
Ipv6           == Kind("ipv6")
Prefix         == Ipv6 \o N(0, 128)

Ip6ProbeOps == Under(<<"ip6">>, {
    Read("cli.ip6.ping", {
        Say(<<"ping">>) \o Ipv6,
        Say(<<"ping">>) \o Ipv6 \o Interface \o Opt(N(1, 100) \o N(1, 1452))}),
    Read("cli.ip6.tracert", {Say(<<"tracert">>) \o Ipv6 \o Opt(Interface)})})

Ip6AddrOps == Under(<<"ip6", "addr">>, {
    Write("cli.ip6.addr", {
        Flags({"-s", "-d"}) \o Prefix \o RouteInterface,
        F("-a") \o Opt(RouteInterface) \o Opt(F("-u")),
        F("-v") \o Opt(Interface),
        F("-t") \o Prefix \o Prefix \o Interface,
        F("-o") \o N(1, 2),
        F("-o") \o N(3, 3) \o Prefix \o Kind("WAN"),
        F("-l") \o Prefix \o Kind("LAN"),
        Flags({"-p", "-b"}) \o Prefix \o Kind("WAN"),
        Flags({"-x", "-c"}) \o Kind("LAN"),
        F("-e") \o N(0, 2) \o Kind("LAN")})})

Ip6MngtOps == Under(<<"ip6", "mngt">>, {
    Write("cli.ip6.mngt", {
        One({"list", "status"}),
        Say(<<"list", "add">>) \o N(1, 10) \o N(1, 64),
        Say(<<"list", "remove">>) \o N(1, 10),
        Say(<<"list", "flush">>),
        One({"internet", "http", "telnet", "ping", "https", "ssh", "enforce_https"})
        \o OnOff})})

Ip6DhcpClientOps == Under(<<"ip6", "dhcp">>, {
    Write("cli.ip6.dhcp.reqopt", After(Say(<<"req_opt">>) \o Interface, {
        F("-a"),
        Flags({"-s", "-S", "-d", "-D", "-n", "-i", "-I", "-p", "-P", "-b", "-B", "-r"}) \o Bit})),
    Write("cli.ip6.dhcp.client", After(Say(<<"client">>) \o Kind("WAN"), {
        Flags({"-a", "-r", "-d"}), F("-e") \o Bit, F("-p") \o Name}))})

Ip6DhcpServerOps == Under(<<"ip6", "dhcp">>, {
    Write("cli.ip6.dhcp.server", After(Say(<<"server">>), {
        Flags({"-a", "-b"}), F("-e") \o Bit, Flags({"-i", "-x", "-d", "-D"}) \o Ipv6}))})

Ip6DhcpOptionCOps == Under(<<"ip6", "dhcp">>, {
    Write("cli.ip6.dhcp.optionc", After(Say(<<"option_c">>), {
        Flags({"-l", "-r"}),
        Flags({"-d", "-u"}) \o N(1, 35),
        F("-e") \o Bit \o F("-w") \o Or(N(1, 10), Kind("list")) \o F("-c") \o N(0, 65535)
        \o Flags({"-v", "-x"}) \o Name,
        F("-e") \o Bit \o F("-w") \o Or(N(1, 10), Kind("list")) \o F("-c") \o N(0, 65535)
        \o F("-a") \o Ipv6}))})

\* "a" and "r" stand for all and for the routed subnet.
OptionSLan == Or(Or(N(1, 100), One({"a", "A", "r", "R"})), Kind("list"))

Ip6DhcpOptionSOps == Under(<<"ip6", "dhcp">>, {
    Write("cli.ip6.dhcp.options", After(Say(<<"option_s">>), {
        Flags({"-l", "-r"}),
        Flags({"-d", "-u"}) \o N(1, 40),
        F("-e") \o Bit \o F("-i") \o OptionSLan \o F("-c") \o N(0, 65535)
        \o Flags({"-v", "-x"}) \o Name,
        F("-e") \o Bit \o F("-i") \o OptionSLan \o F("-c") \o N(0, 65535)
        \o F("-a") \o Ipv6}))})

Ip6NeighOps == Under(<<"ip6">>, {
    Write("cli.ip6.internet", After(Say(<<"internet">>), {
        Flags({"-V", "-k", "-j"}),
        F("-W") \o N(1, 10) \o F("-M") \o N(0, 7)
        \o AnyOf(<<F("-u") \o Name, F("-p") \o Name, F("-s") \o Name>>)})),
    Read("cli.ip6.neigh.a",
        {Say(<<"neigh">>) \o F("-a") \o Opt(Ipv6) \o Opt(Interface)}),
    Write("cli.ip6.neigh.s", {Say(<<"neigh">>) \o F("-s") \o Ipv6 \o Mac \o Interface}),
    Write("cli.ip6.neigh.d", {Say(<<"neigh">>) \o F("-d") \o Ipv6 \o Interface})})

Ip6RouteOps == Under(<<"ip6">>, {
    Write("cli.ip6.pneigh", After(Say(<<"pneigh">>), {
        Flags({"-s", "-d"}) \o Ipv6 \o Interface,
        F("-a") \o Opt(Ipv6) \o Opt(Interface)})),
    Write("cli.ip6.route", After(Say(<<"route">>), {
        F("-s") \o Prefix \o Ipv6 \o RouteInterface \o Opt(F("-D")),
        F("-d") \o Prefix,
        F("-a") \o Opt(RouteInterface),
        F("-l")})),
    Read("cli.ip6.tspc", {Say(<<"tspc">>) \o N(1, 10)})})

Ip6RadvdOps == Under(<<"ip6">>, {
    Write("cli.ip6.radvd", {
        Say(<<"radvd">>) \o Kind("LAN") \o F("-s") \o Bit,
        Say(<<"radvd">>) \o Kind("LAN") \o F("-d") \o N(0, 9000000),
        Say(<<"radvd">>) \o Kind("LAN") \o Flags({"-v", "-V"}),
        Say(<<"radvd">>) \o F("-V")}),
    Read("cli.ip6.online", {Say(<<"online">>) \o Kind("WAN")}),
    Write("cli.ip6.aiccu", {Say(<<"aiccu">>) \o F("-i") \o N(1, 10) \o Flags({"-s", "-r"})}),
    Read("cli.ip6.ntp.v", {Say(<<"ntp">>) \o F("-v")}),
    Write("cli.ip6.ntp.p", {Say(<<"ntp">>) \o F("-p") \o Bit})})

Ip6LanOps == Under(<<"ip6", "lan">>, {
    Write("cli.ip6.lan", {
        F("-s") \o N(0, 17),
        F("-l") \o N(1, 100)
        \o AnyOf(<<F("-w") \o N(0, 10), F("-d") \o Ipv6, F("-D") \o Ipv6, F("-m") \o N(0, 2),
                 F("-e") \o N(1, 10), F("-E") \o N(1, 10), F("-b") \o N(0, 1023),
                 F("-R") \o Bit, F("-o") \o Bit, F("-f") \o Bit, F("-s") \o N(0, 17)>>)})})

Ip6SessionOps == Under(<<"ip6", "session">>, {
    Write("cli.ip6.session", {
        One({"on", "off", "status", "show"}),
        Say(<<"default">>) \o PosInt,
        Say(<<"add">>) \o Kind("ipv6 range") \o PosInt,
        Say(<<"del">>) \o Or(Ipv6, One({"all"}))})})

\* A rate is an integer, or one with a unit.
Rate == Or(NonNeg, Kind("rate"))

Ip6BandwidthOps == Under(<<"ip6", "bandwidth">>, {
    Write("cli.ip6.bandwidth", {
        One({"on", "off", "status", "show"}),
        Say(<<"default">>) \o Rate \o Rate,
        Say(<<"add">>) \o Kind("ipv6 range") \o Rate \o Rate \o Say(<<"shared">>),
        Say(<<"del">>) \o Or(Ipv6, One({"all"}))})})

Ip6Ops ==
  Ip6ProbeOps \union Ip6AddrOps \union Ip6MngtOps \union Ip6DhcpClientOps
  \union Ip6DhcpServerOps \union Ip6DhcpOptionCOps \union Ip6DhcpOptionSOps
  \union Ip6NeighOps \union Ip6RouteOps \union Ip6RadvdOps \union Ip6LanOps
  \union Ip6SessionOps \union Ip6BandwidthOps
===============================================================================
