---------------------------- MODULE FormsSecurity ----------------------------
(*****************************************************************************)
(* The operations of src/domains/ {local_8021x, user, tacacsplus, ldap,      *)
(* csm, ipf, object, mngt, radius, hsportal}.ts, and the commands each can   *)
(* build.                                                                    *)
(*****************************************************************************)
EXTENDS CommandForms

\* src/domains/local_8021x.ts
Local8021xOps == Under(<<"local_8021x">>, {
    Read("cli.local8021x", {Say(<<"show">>)}),
    Write("cli.local8021x.enable", {Say(<<"enable">>) \o Bit}),
    Write("cli.local8021x.method",
        {Say(<<"set_localdot1x_method">>) \o Flags({"-e", "-d"}) \o N(1, 4)}),
    Write("cli.local8021x.cerset", {Say(<<"cer_set">>) \o Name}),
    Read("cli.local8021x.showlocalcer", {Say(<<"show_local_cer">>)})})

\* src/domains/user.ts
UserSetFlags == {"-a", "-b", "-c", "-d", "-e", "-l", "-o", "-q", "-r", "-s", "-u"}
UserEditFlags == {"-a", "-d", "-e", "-f", "-i", "-o", "-m", "-n", "-p", "-q", "-r", "-s",
                  "-t", "-u", "-v", "-w", "-x", "-A", "-H", "-T", "-P", "-l", "-L", "-D"}
UserAccountFlags == {"-t", "-d", "-q", "-r", "-w"}

UserOps == Under(<<"user">>, {
    Write("cli.user", {
        Say(<<"set">>) \o FlagArgs(UserSetFlags),
        Say(<<"edit">>) \o NonNeg \o FlagArgs(UserEditFlags),
        Say(<<"account">>) \o Name \o FlagArgs(UserAccountFlags),
        Say(<<"setdefault">>)})})

\* src/domains/tacacsplus.ts: an index and a value share one pair of quotes.
TacacsplusOps == Under(<<"tacacsplus">>, {
    Write("cli.tacacsplus.set", After(Say(<<"set">>), {
        F("-e") \o Bit,
        Flags({"-i", "-p", "-s"}) \o Quoted,
        F("-C") \o Say(<<"yes">>)})),
    Read("cli.tacacsplus.view", {Say(<<"view">>)})})

\* src/domains/ldap.ts
LdapOps == Under(<<"ldap">>, {
    Write("cli.ldap.user", After(Say(<<"user">>) \o N(1, 8), {
        Flags({"-n", "-b", "-a", "-g", "-c"}) \o Name,
        F("-v")})),
    Write("cli.ldap.set", After(Say(<<"set">>), {
        One({"enable", "ssl"}) \o Bit,
        Say(<<"type">>) \o N(0, 2),
        Say(<<"IP">>) \o Ip,
        Say(<<"port">>) \o N(1, 65535),
        One({"dn", "PWD"}) \o Name})),
    Read("cli.ldap.view", {Say(<<"view">>)})})

\* src/domains/csm.ts: log types and verdicts.
LogType == One({"P", "B", "A"})
Verdict == One({"P", "B"})

CsmAppeOps == Under(<<"csm", "appe">>, {
    Write("cli.csm.appe.set", {
        Say(<<"set">>) \o F("-i") \o N(1, 32) \o F("-v")
        \o One({"IM", "P2P", "Protocol", "Others"}),
        Say(<<"set">>) \o F("-i") \o N(1, 32) \o Flags({"-e", "-d", "-p", "-q"}) \o PosInt}),
    Read("cli.csm.appe.show",
        {Say(<<"show">>) \o Opt(Flags({"-a", "-i", "-p", "-t", "-m"}))})})

CsmUcfOps == Under(<<"csm", "ucf">>, {
    Write("cli.csm.ucf", {
        One({"show", "setdefault"}),
        Say(<<"msg">>) \o Text,
        Say(<<"obj">>) \o N(1, 8) \o F("-n") \o Name,
        Say(<<"obj">>) \o N(1, 8) \o F("-p") \o N(0, 3),
        Say(<<"obj">>) \o N(1, 8) \o F("-l") \o LogType}),
    Write("cli.csm.ucf.obj.index.uac", After(Say(<<"obj">>) \o N(1, 8) \o Say(<<"uac">>), {
        Flags({"-v", "-e", "-d"}),
        F("-a") \o Verdict,
        F("-i") \o One({"E", "D"}),
        Flags({"-o", "-g"}) \o PosInt}))})

CsmUcfFilterOps == Under(<<"csm", "ucf">>, {
    Write("cli.csm.ucf.obj.index.eac", After(Say(<<"obj">>) \o N(1, 8) \o Say(<<"eac">>), {
        Flags({"-v", "-e", "-d"}),
        Flags({"-o", "-g"}) \o PosInt})),
    Write("cli.csm.ucf.obj.index.wf", After(Say(<<"obj">>) \o N(1, 8) \o Say(<<"wf">>), {
        Flags({"-v", "-e", "-d"}),
        F("-a") \o Verdict,
        Flags({"-s", "-u"}) \o One({"c", "p", "u"}),
        F("-f") \o N(1, 8)}))})

\* An item is quoted exactly when it holds a blank.
CsmWcfOps == {
    Write("cli.csm.wcf", After(Say(<<"csm", "wcf">>), {
        One({"show", "look", "cache", "setdefault"}),
        Say(<<"server">>) \o Name,
        Say(<<"msg">>) \o Text,
        Say(<<"obj">>) \o N(1, 8) \o F("-v"),
        Say(<<"obj">>) \o N(1, 8) \o F("-a") \o Verdict,
        Say(<<"obj">>) \o N(1, 8) \o F("-n") \o Name,
        Say(<<"obj">>) \o N(1, 8) \o F("-l") \o LogType,
        Say(<<"obj">>) \o N(1, 8) \o Flags({"-o", "-g"}) \o PosInt,
        Say(<<"obj">>) \o N(1, 8) \o F("-w") \o One({"E", "D", "P", "B"}),
        Say(<<"obj">>) \o N(1, 8) \o Flags({"-s", "-u"}) \o Or(Name, Quoted)}))}

CsmDnsfOps == {
    Write("cli.csm.dnsf", After(Say(<<"csm", "dnsf">>), {
        Say(<<"enable">>) \o One({"ON", "OFF"}),
        Say(<<"syslog">>) \o One({"N", "P", "B", "A"}),
        One({"wcf", "ucf"}) \o N(1, 8),
        Say(<<"cachetime">>) \o N(1, 24),
        Say(<<"blockpage">>) \o One({"show", "on", "off"}),
        One({"profile_show", "profile_setdefault"}),
        Say(<<"profile_edit">>) \o PosInt \o F("-n") \o Name,
        Say(<<"profile_edit">>) \o PosInt \o F("-l") \o LogType,
        Say(<<"profile_edit">>) \o PosInt \o Flags({"-w", "-u"}) \o N(1, 8),
        Say(<<"profile_edit">>) \o PosInt \o F("-c") \o N(1, 24)}))}

CsmProfileOps == Under(<<"csm">>, {
    Write("cli.csm.appe.prof", After(Say(<<"appe", "prof">>) \o F("-i") \o N(1, 32), {
        F("-n") \o Name, F("-v"), Say(<<"setdefault">>)})),
    Read("cli.csm.appe.config", {
        Say(<<"appe", "config">>) \o F("-v") \o N(1, 32)
        \o Flags({"-i", "-p", "-t", "-m", "-r"})}),
    Read("cli.csm.dnsf.localbw.show", {Say(<<"dnsf", "local_bw", "s">>)}),
    Destructive("cli.csm.dnsf.localbw.clear", {Say(<<"dnsf", "local_bw", "c">>)}),
    Write("cli.csm.dnsf.localbw.set", After(Say(<<"dnsf", "local_bw">>), {
        Say(<<"a">>) \o N(0, 4) \o Many(Name),
        Say(<<"g">>) \o N(1, 2) \o N(1, 192),
        Say(<<"o">>) \o N(1, 2) \o N(1, 32),
        One({"e", "d", "p", "b"})}))})

\* src/domains/ipf.ts
IpfSetOps == Under(<<"ipf">>, {
    Read("cli.ipf.view", {
        Say(<<"view">>)
        \o Many(Flags({"-V", "-c", "-d", "-h", "-r", "-t", "-z", "-Z"}))}),
    Write("cli.ipf.set", After(Say(<<"set">>), {
        Flags({"-c", "-d"}) \o N(0, 12),
        F("-p") \o Bit \o Bit,
        F("-R") \o One({"v4", "v6"}) \o Bit,
        F("-L") \o Bit,
        F("-C") \o N(0, 20),
        F("-v"),
        N(1, 50) \o F("-v"),
        N(1, 50) \o F("-m") \o Name,
        N(1, 50) \o F("-n") \o N(0, 50)}))})

\* Options whose values stand in quotes, and the others.
IpfQuotedFlags == {"-I", "-O", "-s", "-d", "-S", "-F", "-m", "-A", "-a", "-w", "-n",
                   "-C", "-t", "-U"}
IpfPlainFlags  == {"-e", "-v", "-D", "-f", "-Y", "-y", "-L", "-q", "-l", "-u", "-N",
                   "-c", "-b", "-M"}
IpfRuleOptions == Listed(<<Flags(IpfQuotedFlags) \o Opt(Quoted),
                           Flags(IpfPlainFlags) \o Many(Name)>>)

IpfRuleOps == Under(<<"ipf">>, {
    Write("cli.ipf.rule", After(Say(<<"rule">>) \o N(1, 50) \o N(1, 30),
        {F("-v"), F("-e") \o Bit, F("-D") \o N(0, 3)} \cup IpfRuleOptions)),
    Read("cli.ipf.flowtrack.view", {Say(<<"flowtrack", "view">>) \o Flags({"-f", "-b"})}),
    Write("cli.ipf.flowtrack.set", {Say(<<"flowtrack", "set">>) \o Flags({"-r", "-e"})}),
    Write("cli.ipf.set.rule",
        After(Say(<<"set">>) \o N(1, 50) \o Say(<<"rule">>) \o N(1, 30), IpfRuleOptions)),
    Destructive("cli.ipf.default", {Say(<<"default">>)}),
    Read("cli.ipf.hashanalysis", After(Say(<<"hash_analysis">>), {
        Say(<<"threshold">>) \o N(1, 1000000),
        One({"interval", "detail"}) \o N(0, 8191) \o N(0, 8191),
        One({"summary", "total"})}))})

\* src/domains/radius.ts
RadiusClientOps == Under(<<"radius">>, {
    Read("cli.radius.show", {Say(<<"show">>)}),
    Write("cli.radius.enable", {Say(<<"enable">>) \o Bit}),
    Write("cli.radius.authport", {Say(<<"authport">>) \o N(0, 65535)}),
    Write("cli.radius.setauthmethod", {Say(<<"set_auth_method">>) \o Bit}),
    Write("cli.radius.client.add", After(Say(<<"client", "add">>) \o PosInt, Some(
        <<F("-i") \o Name, F("-m") \o Name, F("-p") \o Name, F("-l") \o N(0, 128),
          F("-s") \o Name>>)))})

RadiusMethodOps == Under(<<"radius">>, {
    Write("cli.radius.client.del", {Say(<<"client", "del">>) \o PosInt}),
    Write("cli.radius.enabledot1x", {Say(<<"enable_dot1x">>) \o Bit}),
    Write("cli.radius.setdot1xmethod",
        {Say(<<"set_dot1x_method">>) \o Flags({"-e", "-d"}) \o N(1, 4)}),
    Read("cli.radius.external.view", {Say(<<"external">>) \o F("-V")}),
    Read("cli.radius.external.viewprofile", {Say(<<"external">>) \o F("-v") \o PosInt}),
    Read("cli.radius.external.log", {Say(<<"external">>) \o F("-l") \o PosInt})})

RadiusExternalFlags == {"-c", "-f", "-e", "-i", "-p", "-s", "-r", "-a", "-b", "-d", "-u"}

RadiusExternalOps == Under(<<"radius">>, {
    Write("cli.radius.external", {Say(<<"external">>) \o FlagArgs(RadiusExternalFlags)}),
    Read("cli.radius.showlocalcer", {Say(<<"show_local_cer">>)})})

\* src/domains/hsportal.ts
HsportalSetupOps == Under(<<"hsportal">>, {
    Write("cli.hsportal.setup", After(Say(<<"setup">>) \o F("-p") \o N(1, 4), {
        Flags({"-c", "-e", "-d"}),
        F("-r") \o N(0, 2),
        F("-g") \o Bit \o F("-k") \o Name,
        F("-f") \o Bit \o F("-i") \o Name})),
    Read("cli.hsportal.info", {Say(<<"info">>)}),
    Read("cli.hsportal.level", {Say(<<"level">>)})})

HsportalLevelOps == Under(<<"hsportal">>, {
    Write("cli.hsportal.info.set", {
        Say(<<"info">>) \o Flags({"-m", "-s"}) \o N(1, 10),
        Say(<<"info">>) \o Flags({"-e", "-n", "-a"}) \o Bit}),
    Destructive("cli.hsportal.info.clear", {Say(<<"info">>) \o F("-c")}),
    Write("cli.hsportal.level.set", After(Say(<<"level">>) \o F("-p") \o N(1, 20), Listed(
        <<Flags({"-e", "-i", "-b", "-ru", "-tu", "-s", "-r"}) \o Bit,
          Flags({"-t", "-o", "-U", "-D"}) \o N(0, 1000000), F("-d") \o N(0, 100),
          F("-n") \o N(0, 6000), F("-f") \o N(1, 1439), F("-g") \o Kind("time")>>))),
    Write("cli.hsportal.level.delete", {Say(<<"level">>) \o F("-c") \o N(1, 20)})})

\* src/domains/object.ts: what profileSetOperation, profileViewOperation,
\* buildNamedProfileFrames and destructive make of their rows. A quoted list
\* of one value stands without its quotes.
ProfileSet(id, words, max, flags) == Write(id, After(Say(words) \o N(1, max), flags))
ProfileView(id, words, max)       == Read(id, {Say(words) \o N(1, max) \o F("-v")})
ProfileName(id, words, max) == Write(id, {Say(words) \o N(1, max) \o F("-n") \o Name})
Reset(id, words)            == Destructive(id, {Say(words)})
ListOf(form)                == Or(form, Quoted)

ObjectViewOps == {
    ProfileView("cli.object.ip.obj", <<"object", "ip", "obj">>, 255),
    ProfileView("cli.object.service.obj", <<"object", "service", "obj">>, 255),
    ProfileName("cli.object.ip.grp", <<"object", "ip", "grp">>, 255),
    ProfileName("cli.object.ipv6.obj", <<"object", "ipv6", "obj">>, 255),
    ProfileName("cli.object.ipv6.grp", <<"object", "ipv6", "grp">>, 255)}

ObjectNameOps == {
    ProfileName("cli.object.country", <<"object", "country", "set">>, 32),
    ProfileName("cli.object.service.grp", <<"object", "service", "grp">>, 255),
    ProfileName("cli.object.kw", <<"object", "kw", "obj">>, 255),
    ProfileName("cli.object.fe", <<"object", "fe", "obj">>, 8),
    ProfileName("cli.object.sms", <<"object", "sms", "obj">>, 10),
    ProfileName("cli.object.mail", <<"object", "mail", "obj">>, 10),
    ProfileName("cli.object.noti", <<"object", "noti", "obj">>, 8),
    Write("cli.object.schedule",
        {Say(<<"object", "schedule", "set">>) \o N(1, 15) \o F("-e") \o Bit})}

ObjectIpOps == {
    Reset("cli.object.ip.obj.setdefault", <<"object", "ip", "obj", "setdefault">>),
    ProfileSet("cli.object.ip.obj.set", <<"object", "ip", "obj">>, 255, {
        F("-n") \o Name,
        F("-i") \o N(0, 1), F("-i") \o N(3, 3),
        F("-s") \o Bit,
        F("-a") \o N(0, 4) \o Opt(Name \o Opt(Name))}),
    ProfileView("cli.object.ip.grp.view", <<"object", "ip", "grp">>, 255),
    Reset("cli.object.ip.grp.setdefault", <<"object", "ip", "grp", "setdefault">>),
    ProfileSet("cli.object.ip.grp.set", <<"object", "ip", "grp">>, 255, {
        F("-i") \o N(0, 2),
        F("-a") \o ListOf(N(1, 255))}),
    ProfileView("cli.object.ipv6.obj.view", <<"object", "ipv6", "obj">>, 255),
    Reset("cli.object.ipv6.obj.setdefault", <<"object", "ipv6", "obj", "setdefault">>),
    ProfileSet("cli.object.ipv6.obj.set", <<"object", "ipv6", "obj">>, 255, {
        Flags({"-s", "-e"}) \o Bit,
        F("-a") \o N(0, 4) \o Opt(Name \o Opt(Name \o Opt(N(0, 128))))})}

ObjectGroupOps == {
    ProfileView("cli.object.ipv6.grp.view", <<"object", "ipv6", "grp">>, 255),
    Reset("cli.object.ipv6.grp.setdefault", <<"object", "ipv6", "grp", "setdefault">>),
    ProfileSet("cli.object.ipv6.grp.set", <<"object", "ipv6", "grp">>, 255,
        {F("-a") \o ListOf(N(1, 255))}),
    ProfileView("cli.object.country.view", <<"object", "country", "set">>, 32),
    ProfileSet("cli.object.country.set", <<"object", "country", "set">>, 32,
        {F("-a") \o N(1, 999)}),
    Write("cli.object.country.activate", {Say(<<"object", "country", "activate">>)}),
    Reset("cli.object.country.setdefault", <<"object", "country", "setdefault">>),
    Read("cli.object.country.list", {Say(<<"object", "country", "list">>)}),
    Reset("cli.object.service.obj.setdefault", <<"object", "service", "obj", "setdefault">>),
    ProfileSet("cli.object.service.obj.set", <<"object", "service", "obj">>, 255, {
        F("-n") \o Name,
        F("-p") \o N(0, 255),
        Flags({"-s", "-d"}) \o N(0, 3) \o N(1, 65535) \o N(1, 65535)})}

ObjectWordOps == {
    ProfileView("cli.object.service.grp.view", <<"object", "service", "grp">>, 255),
    Reset("cli.object.service.grp.setdefault", <<"object", "service", "grp", "setdefault">>),
    ProfileSet("cli.object.service.grp.set", <<"object", "service", "grp">>, 255,
        {F("-a") \o N(1, 255) \o Many(N(1, 255))}),
    Read("cli.object.kw.show", {Say(<<"object", "kw", "obj", "show">>) \o PosInt}),
    ProfileView("cli.object.kw.view", <<"object", "kw", "obj">>, 255),
    Reset("cli.object.kw.setdefault", <<"object", "kw", "obj", "setdefault">>),
    ProfileSet("cli.object.kw.set", <<"object", "kw", "obj">>, 255,
        {F("-a") \o Name, F("-c")}),
    Read("cli.object.fe.show", {Say(<<"object", "fe", "show">>)}),
    Reset("cli.object.fe.setdefault", <<"object", "fe", "setdefault">>),
    ProfileView("cli.object.fe.view", <<"object", "fe", "obj">>, 8),
    ProfileSet("cli.object.fe.set", <<"object", "fe", "obj">>, 8,
        {Flags({"-e", "-d"}) \o Name})}

ObjectMessageOps == {
    Read("cli.object.sms.show", {Say(<<"object", "sms", "show">>)}),
    Reset("cli.object.sms.setdefault", <<"object", "sms", "setdefault">>),
    ProfileView("cli.object.sms.view", <<"object", "sms", "obj">>, 10),
    ProfileSet("cli.object.sms.set", <<"object", "sms", "obj">>, 10, {
        F("-s") \o N(0, 99),
        Flags({"-u", "-p", "-l"}) \o Name,
        Flags({"-q", "-i"}) \o N(0, 1000000)}),
    Read("cli.object.mail.show", {Say(<<"object", "mail", "show">>)}),
    Reset("cli.object.mail.setdefault", <<"object", "mail", "setdefault">>),
    ProfileView("cli.object.mail.view", <<"object", "mail", "obj">>, 10),
    ProfileSet("cli.object.mail.set", <<"object", "mail", "obj">>, 10, {
        Flags({"-s", "-a", "-u", "-p", "-w"}) \o Name,
        Flags({"-l", "-t"}) \o Bit,
        F("-m") \o N(1, 65535),
        F("-i") \o N(0, 1000000),
        F("-x") \o N(1, 10)})}

ObjectScheduleOps == {
    Read("cli.object.noti.show", {Say(<<"object", "noti", "show">>)}),
    Reset("cli.object.noti.setdefault", <<"object", "noti", "setdefault">>),
    ProfileView("cli.object.noti.view", <<"object", "noti", "obj">>, 8),
    ProfileSet("cli.object.noti.set", <<"object", "noti", "obj">>, 8,
        {Flags({"-e", "-d"}) \o N(c, c) \o N(1, 6) : c \in (1 .. 6) \cup {9}}),
    ProfileSet("cli.object.schedule.set", <<"object", "schedule", "set">>, 15, {
        F("-e") \o Bit,
        F("-c") \o Name,
        Flags({"-D", "-T", "-d"}) \o Quoted,
        F("-a") \o N(0, 3),
        F("-I") \o N(0, 255),
        F("-h") \o ListOf(Or(Bit, One({"Sun", "Mon", "Tue", "Wed", "Thu", "Fri", "Sat"})))}),
    Read("cli.object.schedule.view", {Say(<<"object", "schedule", "view">>) \o Opt(N(1, 15))}),
    Reset("cli.object.schedule.setdefault", <<"object", "schedule", "setdefault">>)}

\* src/domains/mngt.ts
MngtPortOps == Under(<<"mngt">>, {
    Write("cli.mngt.ftpport", {Say(<<"ftpport">>) \o N(1, 65535)}),
    Write("cli.mngt.httpport", {Say(<<"httpport">>) \o N(1, 65535)}),
    Write("cli.mngt.httpsport", {Say(<<"httpsport">>) \o N(1, 65535)}),
    Write("cli.mngt.sslvpnport", {Say(<<"sslvpnport">>) \o N(1, 65535)}),
    Write("cli.mngt.telnetport", {Say(<<"telnetport">>) \o N(1, 65535)}),
    Write("cli.mngt.sshport", {Say(<<"sshport">>) \o N(1, 65535)}),
    Write("cli.mngt.noping", {Say(<<"noping">>) \o One({"on", "off", "viewlog", "clearlog"})}),
    Write("cli.mngt.defenseworm", {
        Say(<<"defenseworm">>) \o One({"add", "del"}) \o N(1, 65535),
        Say(<<"defenseworm">>) \o One({"on", "off", "viewlog", "clearlog"})})})

MngtAccessOps == Under(<<"mngt">>, {
    Read("cli.mngt.rmtcfg.status", {Say(<<"rmtcfg", "status">>)}),
    Destructive("cli.mngt.rmtcfg.enable", {Say(<<"rmtcfg", "enable">>)}),
    Write("cli.mngt.rmtcfg.disable", {Say(<<"rmtcfg", "disable">>)}),
    Write("cli.mngt.rmtcfg.protocol", {
        Say(<<"rmtcfg">>)
        \o One({"http", "https", "ftp", "telnet", "ssh", "tr069", "snmp", "enforce_https"})
        \o OnOff}),
    Write("cli.mngt.lanaccess", {
        Say(<<"lanaccess">>)
        \o FlagArgs({"-e", "-s", "-i", "-I", "-E", "-f", "-d", "-v", "-h"})}),
    Write("cli.mngt.echoicmp", {Say(<<"echoicmp">>) \o One({"enable", "disable"})}),
    Write("cli.mngt.accesslist", {
        Say(<<"accesslist">>) \o One({"list", "add", "remove", "flush"}) \o Many(Token)})})

MngtSnmpFlags == {"-e", "-a", "-b", "-c", "-g", "-s", "-m", "-t", "-n", "-T", "-o", "-p",
                  "-q", "-r", "-u", "-V"}

MngtSnmpOps == Under(<<"mngt">>, {
    Write("cli.mngt.wanlogin", {Say(<<"wanlogin">>) \o One({"enable", "disable"})}),
    Write("cli.mngt.snmp", {Say(<<"snmp">>) \o FlagArgs(MngtSnmpFlags)}),
    Write("cli.mngt.bfp", {Say(<<"bfp">>) \o FlagArgs({"-e", "-s", "-l", "-p", "-v"})}),
    Write("cli.mngt.telnettimeout", {Say(<<"telnettimeout">>) \o N(60, 300)}),
    Write("cli.mngt.sshtimeout", {Say(<<"sshtimeout">>) \o N(60, 300)})})

MngtCertOps == Under(<<"mngt">>, {
    Write("cli.mngt.certimport", {
        Say(<<"cert_import", "local_cert">>) \o Name \o Name,
        Say(<<"cert_import", "trusted_ca">>) \o Name}),
    Write("cli.mngt.ip6iids", {
        Say(<<"ip6_IIDs">>) \o F("-e") \o Bit,
        Say(<<"ip6_IIDs">>) \o F("-r") \o Name,
        Say(<<"ip6_IIDs">>) \o F("-s")}),
    Write("cli.mngt.ssholdkex", {Say(<<"ssh_oldkex">>) \o One({"enable", "disable"})}),
    Write("cli.mngt.nosecurel2tpmngt",
        {Say(<<"NoSecureL2TPMngt">>) \o One({"enable", "disable"})}),
    Write("cli.mngt.validationcode", {Say(<<"ValidationCode">>) \o One({"enable", "disable"})}),
    Write("cli.mngt.lbinterface", {
        Say(<<"lb_interface", "lan">>) \o N(1, 100),
        Say(<<"lb_interface">>) \o OnOff}),
    Read("cli.mngt.lbinterface.status", {Say(<<"lb_interface", "status">>)})})

SecurityOps ==
    Local8021xOps \cup UserOps \cup TacacsplusOps \cup LdapOps \cup CsmAppeOps \cup CsmUcfOps
    \cup CsmUcfFilterOps \cup CsmWcfOps \cup CsmDnsfOps \cup CsmProfileOps \cup IpfSetOps
    \cup IpfRuleOps \cup RadiusClientOps \cup RadiusMethodOps \cup RadiusExternalOps
    \cup HsportalSetupOps \cup HsportalLevelOps \cup ObjectViewOps \cup ObjectNameOps
    \cup ObjectIpOps \cup ObjectGroupOps \cup ObjectWordOps \cup ObjectMessageOps
    \cup ObjectScheduleOps \cup MngtPortOps \cup MngtAccessOps \cup MngtSnmpOps
    \cup MngtCertOps
==============================================================================
