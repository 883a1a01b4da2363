------------------------------- MODULE FormsSys -------------------------------
(*****************************************************************************)
(* The operations of src/domains/ {dpdk, testmail, nand, service, fs, log,   *)
(* usb, sys, show, linux}.ts, and the commands each can build.               *)
(*****************************************************************************)
EXTENDS CommandForms

\* src/domains/dpdk.ts
DpdkOps == Under(<<"dpdk">>, {
    Read("cli.dpdk.statistic", {Say(<<"statistic">>)}),
    Read("cli.dpdk.cmdlog", {Say(<<"cmdlog">>)})})

\* src/domains/testmail.ts
TestmailOps == {Write("cli.testmail", {Say(<<"testmail">>)})}

\* src/domains/nand.ts
NandOps == {Read("cli.nand.bad.nand.usage", {Say(<<"nand">>) \o One({"bad", "usage"})})}

\* src/domains/service.ts
ServiceOps == Under(<<"service">>, {
    Read("cli.service", {F("-s")}),
    Read("cli.service.refresh", {F("-r")}),
    Write("cli.service.login", {F("-l") \o Name \o Name}),
    Write("cli.service.transferowner", {F("-i") \o Name \o Name}),
    Destructive("cli.service.transfer", {F("-t") \o One({"yes", "no"})}),
    Destructive("cli.service.clear", {F("-c")})})

\* src/domains/fs.ts: assertFsPath is a token that is no flag.
FsOps == Under(<<"fs">>, {
    Read("cli.fs.ls", {Say(<<"ls">>)}),
    Read("cli.fs.info", {Say(<<"info">>)}),
    Read("cli.fs.pwd", {Say(<<"pwd">>)}),
    Destructive("cli.fs.format", {Say(<<"format">>)}),
    Write("cli.fs.mkfile", {Say(<<"mkfile">>) \o Name}),
    Write("cli.fs.mkdir", {Say(<<"mkdir">>) \o Name}),
    Write("cli.fs.cd", {Say(<<"cd">>) \o Name}),
    Read("cli.fs.cat", {Say(<<"cat">>) \o Name}),
    Write("cli.fs.test", {Say(<<"test">>) \o Name}),
    Write("cli.fs.ren", {Say(<<"ren">>) \o Name \o Name}),
    Write("cli.fs.cp", {Say(<<"cp">>) \o Name \o Name}),
    Destructive("cli.fs.rm", {Say(<<"rm">>) \o Name \o Opt(Quoted)})})

\* src/domains/log.ts
LogOps == Under(<<"log">>, {
    Read("cli.log.c", {F("-c")}), Read("cli.log.f", {F("-f")}),
    Read("cli.log.t", {F("-t")}), Read("cli.log.w", {F("-w")}),
    Read("cli.log.p", {F("-p")}), Read("cli.log.x", {F("-x")}),
    Read("cli.log.h", {F("-h")}),
    Write("cli.log.F", {F("-F") \o One({"a", "c", "f", "w"})})})

\* src/domains/usb.ts
UsbUserOps == Under(<<"usb", "user">>, {
    Read("cli.usb.user.list", {Say(<<"list">>)}),
    Write("cli.usb.user.rm", {Say(<<"rm">>) \o N(1, 16)}),
    Write("cli.usb.user.enable", {Say(<<"enable">>) \o N(1, 16)}),
    Write("cli.usb.user.disable", {Say(<<"disable">>) \o N(1, 16)})})

UsbStatusOps == Under(<<"usb">>, {
    Read("cli.usb.devstat", {Say(<<"devstat">>)}),
    Read("cli.usb.temp", {Say(<<"temp">>) \o One({"show", "all_data"})}),
    Read("cli.usb.disk", {Say(<<"disk">>)}),
    Read("cli.usb.ftpusage", {Say(<<"FTPusage">>)})})

UsbOps == UsbStatusOps \cup UsbUserOps

\* src/domains/sys.ts
SysReadOps == Under(<<"sys">>, {
    Read("cli.sys.cfg.status", {Say(<<"cfg", "status">>)}),
    Read("cli.sys.cmdlog", {Say(<<"cmdlog">>)}),
    Read("cli.sys.cc", {Say(<<"cc">>)}),
    Read("cli.sys.version", {Say(<<"version">>)}),
    Read("cli.sys.qrybuf", {Say(<<"qrybuf">>)}),
    Read("cli.sys.pollbuf", {Say(<<"pollbuf">>)}),
    Read("cli.sys.frlog", {Say(<<"fr_log">>)}),
    Read("cli.sys.dnscachetbl", {Say(<<"dnsCacheTbl">>)}),
    Read("cli.sys.time", {Say(<<"time">>)}),
    Read("cli.sys.dashboard", {Say(<<"dashboard">>)}),
    Read("cli.sys.maxsession", {Say(<<"max_session">>)})})

SysNameOps == Under(<<"sys">>, {
    Read("cli.sys.health", {
        Say(<<"health">>) \o One({"cpu_usage", "mem_usage", "arp_status", "dos_status",
                                  "sess_usage", "view", "vpn_status", "voip_status"})}),
    Write("cli.sys.domainname", {Say(<<"domainname">>) \o One({"wan1", "wan2"}) \o Name}),
    Write("cli.sys.name", {Say(<<"name">>) \o One({"wan1", "wan2"}) \o Name}),
    Write("cli.sys.passwd", {Say(<<"passwd">>) \o Name \o Name})})

\* Arguments after the subcommand are passed through unread.
SysMaintenanceOps == Under(<<"sys">>, {
    Destructive("cli.sys.reboot", {Say(<<"reboot">>)}),
    Write("cli.sys.autoreboot", {Say(<<"autoreboot">>) \o Or(OnOff, PosInt)}),
    Write("cli.sys.commit", {Say(<<"commit">>)}),
    Write("cli.sys.tftpd", {Say(<<"tftpd">>)}),
    Destructive("cli.sys.cfg.default", {Say(<<"cfg", "default">>)}),
    Write("cli.sys.tr069", {
        Say(<<"tr069">>)
        \o One({"get", "set", "getnoti", "setnoti", "log", "debug", "save", "clear",
                "inform", "port", "cert_auth", "only_standard_parm", "notify"})
        \o Many(Token)})})

SysAlertOps == Under(<<"sys">>, {
    Write("cli.sys.alg", {Say(<<"alg">>) \o F("-e") \o Bit}),
    Write("cli.sys.license", {
        Say(<<"license">>)
        \o One({"reset_regser", "licera", "licifno", "licalias", "lic_trigger", "liclog"})
        \o Many(Token)}),
    Write("cli.sys.syslog", {Say(<<"syslog">>) \o F("-a") \o Bit \o Many(Token)}),
    Write("cli.sys.mailalert", {
        Say(<<"mailalert">>),
        Say(<<"mailalert">>) \o Kind("letter flag") \o Many(Token)}),
    Write("cli.sys.webhook", {
        Say(<<"webhook">>) \o One({"enable", "send", "status", "url", "period"})
        \o Many(Token)})})

SysBoardOps == Under(<<"sys">>, {
    Write("cli.sys.adminuser", After(Say(<<"adminuser">>), {
        Say(<<"edit">>) \o N(1, 8) \o Name \o Name,
        One({"delete", "view"}) \o N(1, 8),
        One({"Local", "LDAP", "TACACS+", "fallback"}) \o Bit})),
    Write("cli.sys.board", After(Say(<<"board">>), {
        Say(<<"button">>) \o One({"def", "wlan"}) \o OnOff,
        Say(<<"led">>) \o One({"control", "sleepMode"}) \o OnOff,
        Say(<<"led", "sleepMode", "time">>) \o N(1, 1440),
        Say(<<"usb">>) \o One({"p1", "p2"}) \o OnOff})),
    Write("cli.sys.bonjour", After(Say(<<"bonjour">>), Some(
        <<F("-e") \o Bit, F("-h") \o Bit, F("-t") \o Bit, F("-f") \o Bit, F("-s") \o Bit,
          F("-p") \o Bit, F("-6") \o Bit>>)))})

SysAlgOps == Under(<<"sys">>, {
    Write("cli.sys.ftpd", {Say(<<"ftpd">>) \o OnOff}),
    Read("cli.sys.iface", {Say(<<"iface">>)}),
    Write("cli.sys.sipalg", After(Say(<<"sip_alg">>), Some(
        <<F("-e") \o Bit, F("-p") \o N(1, 65535), F("-u") \o Bit, F("-t") \o Bit>>))),
    Write("cli.sys.rtspalg", After(Say(<<"rtsp_alg">>), Some(
        <<F("-e") \o Bit, F("-p") \o N(1, 65535), F("-u") \o Bit, F("-t") \o Bit, F("-v")>>))),
    Write("cli.sys.arpautoreq", {Say(<<"arp_AutoReq">>) \o F("-d") \o Bit}),
    Write("cli.sys.daylightsave", After(Say(<<"daylightsave">>), Some(
        <<F("-v"), F("-r"), F("-e") \o Bit>>)))})

SysTimeOps == Under(<<"sys">>, {
    Write("cli.sys.eaptls", {Say(<<"eap_tls", "set">>) \o Bit}),
    Read("cli.sys.info", {Say(<<"info">>)}),
    Read("cli.sys.appstatistic", {Say(<<"app_statistic">>)}),
    Read("cli.sys.appbandwidth", {Say(<<"app_bandwidth">>)}),
    Write("cli.sys.pollbuf.on", {Say(<<"pollbuf", "on">>)}),
    Write("cli.sys.pollbuf.off", {Say(<<"pollbuf", "off">>)}),
    Read("cli.sys.time.show", {Say(<<"time", "show">>)}),
    Write("cli.sys.time.inquire", {Say(<<"time", "inquire">>)}),
    Write("cli.sys.time.server", {Say(<<"time", "server">>) \o Name}),
    Write("cli.sys.time.wan", {Say(<<"time", "wan">>) \o N(0, 12)}),
    Write("cli.sys.time.zone", {Say(<<"time", "zone">>) \o PosInt}),
    Write("cli.sys.time.pseudo", {Say(<<"time", "pseudo">>)})})

DashboardSections == {"-0", "-1", "-2", "-3", "-4", "-5", "-6", "-7", "-8", "-9", "-a"}

SysDashboardOps == Under(<<"sys">>, {
    Read("cli.sys.dashboard.show", {Say(<<"dashboard", "show">>)}),
    Write("cli.sys.dashboard.set", {
        Say(<<"dashboard">>) \o f : f \in Listed(<<Flags(DashboardSections) \o Bit>>)}),
    Write("cli.sys.maxsession.set",
        {Say(<<"max_session">>) \o One({"300K", "500K", "1000K"})}),
    Write("cli.sys.pwenc", {Say(<<"pwenc">>) \o F("-e") \o Bit}),
    Write("cli.sys.con2tel", {Say(<<"con2tel", "enable">>)}),
    Write("cli.sys.mpage", {Say(<<"mpage">>) \o One({"enable", "disable"})}),
    Read("cli.sys.ipfixnetflow.status", {Say(<<"ipfix_netflow", "status">>)}),
    Write("cli.sys.ipfixnetflow", After(Say(<<"ipfix_netflow">>),
        {Say(<<"enable">>) \o Bit,
         Say(<<"collector_ip">>) \o Or(Ip, Kind("ipv6")),
         Say(<<"collector_port">>) \o N(1, 65535),
         Say(<<"collector_proto">>) \o One({"UDP", "TCP"}),
         One({"inactive_timeout", "active_timeout"}) \o N(1, 86400)}
        \cup {Say(<<"version">>) \o N(v, v) : v \in {5, 9, 10}}))})

SysOps == SysReadOps \cup SysNameOps \cup SysMaintenanceOps \cup SysAlertOps \cup SysBoardOps
          \cup SysAlgOps \cup SysTimeOps \cup SysDashboardOps

\* src/domains/show.ts: the fixed reads are one row each of the source's table.
ShowTrafficOps == Under(<<"show">>, {
    Read("cli.show.traffic.wan", {
        Say(<<"traffic">>) \o Kind("wan") \o One({"tx", "rx"}) \o Opt(Say(<<"weekly">>))}),
    Read("cli.show.traffic.ip", {Say(<<"traffic">>) \o Ip \o One({"tx", "rx"})}),
    Read("cli.show.traffic.session",
        {Say(<<"traffic", "session">>) \o Opt(Say(<<"weekly">>))}),
    Write("cli.show.traffic.ipstats", {Say(<<"traffic", "ip">>) \o Opt(Bit)}),
    Read("cli.show.clienttraffic.device", {
        Say(<<"clienttraffic">>) \o N(1, 30) \o One({"WAN1", "WAN2", "LANA", "LANB"})
        \o One({"tx", "rx"}) \o Opt(Say(<<"weekly">>))}),
    Write("cli.show.statistic.reset", {Say(<<"statistic", "reset">>) \o Kind("WAN")}),
    Read("cli.show.ping", {Say(<<"ping">>) \o Opt(Kind("wan")) \o Opt(Say(<<"daily">>))})})

ShowTableOps == Under(<<"show">>, {
    Read("cli.show.lan", {Say(<<"lan">>)}), Read("cli.show.dmz", {Say(<<"dmz">>)}),
    Read("cli.show.dns", {Say(<<"dns">>)}), Read("cli.show.openport", {Say(<<"openport">>)}),
    Read("cli.show.nat", {Say(<<"nat">>)}), Read("cli.show.portmap", {Say(<<"portmap">>)}),
    Read("cli.show.pmtime", {Say(<<"pmtime">>)}),
    Read("cli.show.session", {Say(<<"session">>)}),
    Read("cli.show.status", {Say(<<"status">>)}),
    Read("cli.show.traffic", {Say(<<"traffic">>)}),
    Read("cli.show.clienttraffic", {Say(<<"clienttraffic">>)}),
    Read("cli.show.statistic", {Say(<<"statistic">>)}),
    Read("cli.show.cpu", {Say(<<"cpu">>)}), Read("cli.show.memory", {Say(<<"memory">>)}),
    Read("cli.show.cocpu", {Say(<<"cocpu">>)}), Read("cli.show.cputemp", {Say(<<"cputemp">>)}),
    Read("cli.show.flow", {Say(<<"flow">>)}), Read("cli.show.voip", {Say(<<"voip">>)}),
    Read("cli.show.qryrdsl", {Say(<<"qryrdsl">>)})})

\* src/domains/linux.ts
LinuxBaseOps == Under(<<"linux">>, {
    Read("cli.linux.status", {Say(<<"status">>)}),
    Write("cli.linux.setlinuxip", {
        Say(<<"setlinuxip">>) \o F("-i") \o Name
        \o AnyOf(<<F("-c") \o N(1, 32), F("-g") \o Name, Say(<<"v">>) \o N(0, 99),
                 F("-p") \o Name>>)}),
    Write("cli.linux.service.ssh.enable", {Say(<<"service", "ssh", "enable">>)}),
    Write("cli.linux.service.ssh.disable", {Say(<<"service", "ssh", "disable">>)}),
    Read("cli.linux.service.ssh.status", {Say(<<"service", "ssh", "status">>)}),
    Write("cli.linux.service.ssh.setport",
        {Say(<<"service", "ssh", "setport">>) \o N(1, 65535)}),
    Write("cli.linux.syslog.enable", {Say(<<"syslog", "enable">>)}),
    Write("cli.linux.syslog.disable", {Say(<<"syslog", "disable">>)}),
    Read("cli.linux.syslog.status", {Say(<<"syslog", "status">>)})})

LinuxCleanOps == Under(<<"linux">>, {
    Write("cli.linux.clean.a", {Say(<<"clean">>) \o F("-a")}),
    Write("cli.linux.clean.b", {Say(<<"clean">>) \o F("-b")}),
    Write("cli.linux.clean.d", {Say(<<"clean">>) \o F("-d")}),
    Destructive("cli.linux.clean.o", {Say(<<"clean">>) \o F("-o")}),
    Destructive("cli.linux.clean.w", {Say(<<"clean">>) \o F("-w")}),
    Write("cli.linux.service.telnet.enable", {Say(<<"service", "telnet", "enable">>)}),
    Write("cli.linux.service.telnet.disable", {Say(<<"service", "telnet", "disable">>)}),
    Read("cli.linux.service.telnet.status", {Say(<<"service", "telnet", "status">>)}),
    Write("cli.linux.service.telnet.setport",
        {Say(<<"service", "telnet", "setport">>) \o N(1, 65535)}),
    Write("cli.linux.ring.set", {Say(<<"ring", "set">>)}),
    Write("cli.linux.ring.send", {Say(<<"ring", "send">>)}),
    Write("cli.linux.ring.clean", {Say(<<"ring", "clean">>)}),
    Write("cli.linux.ring.test", {Say(<<"ring", "test">>)}),
    Read("cli.linux.ring.debug", {Say(<<"ring", "debug">>)})})

SystemOps ==
    DpdkOps \cup TestmailOps \cup NandOps \cup ServiceOps \cup FsOps \cup LogOps \cup UsbOps
    \cup SysOps \cup ShowTrafficOps \cup ShowTableOps \cup LinuxBaseOps \cup LinuxCleanOps
===============================================================================
