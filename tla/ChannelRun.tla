----------------------------- MODULE ChannelRun -----------------------------
(***************************************************************************)
(* The programs of sockets, altio, pipes, pty, filelock, mmap and the IPC  *)
(* tools, each one run with the processes it talks to under every          *)
(* interleaving.  TLC chooses the program in the initial state.            *)
(***************************************************************************)
EXTENDS Machine

-----------------------------------------------------------------------------
(***************************************************************************)
(* The servers, clients and library functions of tlpi-dist/sockets.  A     *)
(* service has two addresses, a1 and a2 (IPv6 and IPv4), in the order of   *)
(* getaddrinfo().  A client may be killed where it says Either("gone").    *)
(* What a program prints goes to a variable where a property reads it.     *)
(***************************************************************************)

gone == [gone |-> <<Exit(9)>>]

\* The first address that can be bound; whether the very first one can.
inetPassiveSocket(can) == [
    inetPassiveSocket |-> <<IF can THEN Listen("lfd", "a1") ELSE Set("bound", EADDRINUSE),
                            If("bound", "=", 0, "listening"), Listen("lfd", "a2"), If("bound", "=", 0, "listening"),
                            Exit(1)>>]

\* The first address that accepts the connection.
inetConnect == [
    inetConnect |-> <<Connect("cfd", "a1"), If("connected", "=", 0, "conn"),
                      Connect("cfd", "a2"), If("connected", "=", 0, "conn"), Exit(1)>>]

\* One byte at a time, up to a newline or end of file; a call interrupted by a
\* signal is made again, and bytes past the buffer's end are dropped.
readLine(l, m, fd, next) ==
    (l :> <<Set("line", <<>>), Goto(m)>>) @@
    (m :> <<Read(fd, "ch", 1), If("numRead", "=", EINTR, m), If("numRead", "<", 1, next),
            Calc("line", "keep", "ch"), If("ch", "=", <<NL>>, next), Goto(m)>>)

is_seqnum_v2_sv_M == [
    gotReq |-> <<If("line", "=", <<>>, "drop"), Calc("reqLen", "atoi", "line"),
                 If("reqLen", "<", 1, "drop"), Calc("seqNumStr", "line", "seqNum"),
                 Write("cfd", "seqNumStr"), Add("seqNum", 1), Goto("drop")>>]
\* Serves one client at a time; each gets the numbers from seqNum on.
is_seqnum_v2_sv == [
    gotReq |-> <<If("line", "=", <<>>, "drop"), Calc("reqLen", "atoi", "line"),
                 If("reqLen", "<", 1, "drop"), Calc("seqNumStr", "line", "seqNum"),
                 Write("cfd", "seqNumStr"), AddVar("seqNum", "reqLen"), Goto("drop")>>]
is_seqnum_sv_start_M == [
    server |-> <<Goto("inetPassiveSocket")>>]
\* A client may close its end before it is answered.
is_seqnum_sv_start == [
    server |-> <<Sigaction("PIPE", "IGN", {"RESTART"}, {}), Goto("inetPassiveSocket")>>]
is_seqnum_sv == is_seqnum_sv_start @@ inetPassiveSocket(FALSE) @@ is_seqnum_v2_sv @@ readLine("req", "reqch", "cfd", "gotReq") @@ [
    listening |-> <<Accept("lfd", "cfd"), Goto("req")>>,
    drop |-> <<Close("cfd"), Goto("listening")>>]
\* A client asks for two numbers, and may be killed in its request or after it, or
\* asks for none at all; another client, of the second version, asks for one.
is_seqnum_cl == inetConnect @@ readLine("resp", "respch", "cfd", "gotResp") @@ gone @@ [
    client |-> <<Set("reqLenStr", <<2>>), Either("inetConnect"), Set("dies", 1), Either("inetConnect"), Set("dies", 2),
                 Either("inetConnect"), Set("dies", 0), Set("reqLenStr", <<0>>), Goto("inetConnect")>>,
    conn |-> <<Write("cfd", "reqLenStr"), If("numWritten", "#", 1, "gone"), If("dies", "=", 1, "gone"), Set("nl", <<NL>>),
               Write("cfd", "nl"), If("numWritten", "#", 1, "gone"), If("dies", "=", 2, "gone"), Goto("resp")>>,
    gotResp |-> <<If("line", "=", <<>>, "gone"), Set("served", 1), Exit(0)>>]
is_seqnum_v2_cl == [client2 |-> <<Set("reqLenStr", <<1>>), Goto("inetConnect")>>]
is_seqnum == is_seqnum_sv @@ is_seqnum_cl @@ is_seqnum_v2_cl

\* Sends back what it reads, to the end of the input.
handleRequest == [
    handleRequest |-> <<Read("cfd", "buf", 2), If("numRead", "<", 1, "handled"), Write("cfd", "buf"),
                        If("numWritten", "<", 0, "handled"), Goto("handleRequest")>>]

\* A child per connection, reaped by the SIGCHLD handler.  becomeDaemon() is
\* modelled in module ProcessProgs.
is_echo_sv == inetPassiveSocket(TRUE) @@ handleRequest @@ [
    server |-> <<Sigaction("CHLD", "grimReaper", {"RESTART"}, {}), Goto("inetPassiveSocket")>>,
    listening |-> <<Accept("lfd", "cfd"), If("accepted", "<", 0, "fails"),
                    ForkOr("c", "inChild", "cantFork"), Close("cfd"), Goto("listening")>>,
    cantFork |-> <<Set("refused", 1), Close("cfd"), Goto("listening")>>,
    fails |-> <<Exit(1)>>,
    inChild |-> <<Close("lfd"), Goto("handleRequest")>>,
    handled |-> <<Exit(0)>>,
    grimReaper |-> <<Waitpid("w", "any", {"nohang"}), If("w", "<", 1, "reaped"), Goto("grimReaper")>>,
    reaped |-> <<Return>>]
\* The parent sends its input and shuts the connection down for writing; the
\* child reads the replies.
is_echo_cl == inetConnect @@ [
    client |-> <<Goto("inetConnect")>>,
    conn |-> <<Fork("c", "replies"), Goto("sending")>>,
    replies |-> <<Set("printed", <<>>), Goto("reply")>>,
    reply |-> <<Read("cfd", "buf", 2), If("numRead", "<", 1, "eof"), Calc("printed", "cat", "buf"),
                Goto("reply")>>,
    eof |-> <<Exit(0)>>,
    sending |-> <<Read("stdin", "buf", 2), If("numRead", "<", 1, "sent"), Write("cfd", "buf"),
                  If("numWritten", "<", 0, "fails"), Goto("sending")>>,
    sent |-> <<Shutdown("cfd"), Exit(0)>>,
    user |-> <<Set("in", <<1, 2, 3>>), Write("tty", "in"), Exit(0)>>]
is_echo == is_echo_sv @@ is_echo_cl

\* inetd runs the server with the connection as standard input and output.
is_echo_inetd_sv == [
    server |-> <<Listen("lfd", "a1"), Accept("lfd", "conn"), Dup2("conn", "stdin"),
                 Dup2("conn", "stdout"), Close("conn"), Either("is_echo_v2"), Exec("echo")>>,
    echo |-> <<Read("stdin", "buf", 2), If("numRead", "<", 1, "ends"), Write("stdout", "buf"),
               If("numWritten", "<", 0, "ends"), Goto("echo")>>,
    ends |-> <<Exit(0)>>]
\* The second version of the server, run by inetd with -i; without it, it is is_echo_sv.
is_echo_v2_sv == [
    is_echo_v2 |-> <<Exec("echo2")>>,
    echo2 |-> <<Read("stdin", "buf", 2), If("numRead", "<", 1, "ends"), Write("stdin", "buf"),
                If("numWritten", "<", 0, "ends"), Goto("echo2")>>]
is_echo_inetd == is_echo_inetd_sv @@ is_echo_v2_sv @@ is_echo_cl

\* One connection at a time, copied to standard output.
us_xfr_sv == [
    server |-> <<Unlink("sock"), Listen("sfd", "sock"), Set("stdout", <<>>), Goto("accepting")>>,
    accepting |-> <<Accept("sfd", "cfd"), Goto("copy")>>,
    copy |-> <<Read("cfd", "buf", 2), If("numRead", "<", 1, "eof"), Calc("stdout", "cat", "buf"), Goto("copy")>>,
    eof |-> <<Close("cfd"), Goto("accepting")>>]
\* Standard input holds two blocks, of the client's own number.
us_xfr_cl == gone @@ [
    client |-> <<Connect("sfd", "sock"), If("connected", "<", 0, "gone"), Set("left", 2), Set("block", <<>>),
                 Calc("block", "line", "self"), Goto("sending")>>,
    sending |-> <<If("left", "<", 1, "sent"), Write("sfd", "block"), If("numWritten", "<", 0, "gone"),
                  Add("left", -1), Either("gone"), Goto("sending")>>,
    sent |-> <<Exit(0)>>]
us_xfr == us_xfr_sv @@ us_xfr_cl
\* unixBind() removes no older socket: a second instance of the server fails.
us_xfr_v2_sv == [us_xfr_sv EXCEPT
    !.server = <<Listen("sfd", "sock"), If("bound", "<", 0, "gone"), Set("stdout", <<>>), Goto("accepting")>>]
us_xfr_v2_cl == us_xfr_cl
us_xfr_v2 == us_xfr_v2_sv @@ us_xfr_v2_cl

-----------------------------------------------------------------------------
(* The datagram servers and clients, the programs that pass descriptors    *)
(* and credentials, and the transfer functions of tlpi-dist/sockets.       *)

lost == [lost |-> <<Exit(9)>>]

\* The server fails when it cannot answer.  lossy: a datagram may be lost (UDP).
ucase_sv(lossy) == [
    server |-> <<Unlink("sv"), Bind("sfd", "sv", FALSE), Goto("serving")>>,
    serving |-> <<Recvfrom("sfd", "buf", "claddr"), If("numRead", "<", 0, "failed"),
                  Calc("reply", "upper", "buf"), Sendto("sfd", "claddr", "reply", lossy),
                  If("numSent", "<", 0, "failed"), Goto("serving")>>,
    failed |-> <<Exit(1)>>]
\* A message of the client's own number; own: the client's address, with its
\* process ID in a UNIX domain path, a port of its own in UDP.
ucase_cl(own, lossy) == lost @@ [
    client |-> <<Bind("sfd", "cl", own), Set("svaddr", <<0, "sv">>), Calc("msg", "line", "self"), Either("lost"),
                 Sendto("sfd", "svaddr", "msg", lossy), If("numSent", "<", 0, "lost"), Either("lost"),
                 Goto("response")>>,
    response |-> <<Recvfrom("sfd", "resp", "from"), If("numRead", "<", 0, "lost"), Exit(0)>>]
ud_ucase_cl == ucase_cl(TRUE, FALSE)
ud_ucase_sv == ucase_sv(FALSE)
ud_ucase == ud_ucase_sv @@ ud_ucase_cl
i6d_ucase_sv == ucase_sv(TRUE)
i6d_ucase_cl == ucase_cl(TRUE, TRUE)
i6d_ucase == i6d_ucase_sv @@ i6d_ucase_cl

\* The server only reports a failure to answer; the client's socket is connected.
id_echo_sv == [
    server |-> <<Bind("sfd", "sv", FALSE), Goto("serving")>>,
    serving |-> <<Recvfrom("sfd", "buf", "claddr"), Sendto("sfd", "claddr", "buf", TRUE), Goto("serving")>>]
id_echo_cl == lost @@ [
    client |-> <<Bind("sfd", "cl", TRUE), Set("svaddr", <<0, "sv">>), Calc("msg", "line", "self"),
                 Sendto("sfd", "svaddr", "msg", TRUE), Either("lost"), Goto("response")>>,
    response |-> <<Recvfrom("sfd", "resp", "from"), Exit(0)>>]
id_echo == id_echo_sv @@ id_echo_cl

\* The receivers: a datagram socket (-d) or one connection, and one message.
unixBind == lost @@ [
    server |-> <<Unlink("sock"), Either("dgram"), ListenMsgs("lfd", "sock"), Accept("lfd", "sfd"),
                 Goto("received")>>,
    dgram |-> <<Bind("sfd", "sock", FALSE), Goto("received")>>]
\* The senders, with the option the receiver has been given.
unixConnect(fds) == lost @@ [
    client |-> <<Get("file", Memory(<<1, 2>>), "creat"), Get("file2", Memory(<<3>>), "creat"),
                 Open("fd", "file", {}), Open("fd2", "file2", {}), Set("data", <<5>>),
                 Set("path", <<0, "sock">>), Either("stream"), Goto("dgramSend")>>,
    stream |-> <<Connect("sfd", "sock"), If("connected", "<", 0, "lost"), Either("lost"),
                 Sendmsg("sfd", "", "data", fds), Goto("sent")>>,
    dgramSend |-> <<Bind("sfd", "unnamed", TRUE), Sendmsg("sfd", "path", "data", fds), Goto("sent")>>,
    sent |-> <<If("numSent", "<", 0, "lost"), Close("fd"), Exit(0)>>]

\* A descriptor passed to the receiver, which reads the file to its end.
scm_rights_send == unixConnect(<<"fd">>)
scm_rights_recv == unixBind @@ [
    received |-> <<Recvmsg("sfd", "data", "from", <<"fd">>), If("numRead", "<", 1, "lost"),
                   Set("stdout", <<>>), Goto("copy")>>,
    copy |-> <<Read("fd", "buf", 1), If("numRead", "<", 1, "copied"), Calc("stdout", "cat", "buf"), Goto("copy")>>,
    copied |-> <<Exit(0)>>]
scm_rights == scm_rights_recv @@ scm_rights_send

scm_cred_send == unixConnect(<<>>)
scm_cred_recv == unixBind @@ [
    received |-> <<Recvmsg("sfd", "data", "from", <<>>), If("numRead", "<", 1, "lost"),
                   Copy("rcred", "cred"), Exit(0)>>]
scm_cred == scm_cred_recv @@ scm_cred_send

\* Two descriptors and the credentials in one message; each file is closed
\* when it has been read.
scm_multi_send == unixConnect(<<"fd", "fd2">>)
scm_multi_recv == unixBind @@ [
    received |-> <<Recvmsg("sfd", "data", "from", <<"fd", "fd2">>), If("numRead", "<", 1, "lost"),
                   Set("stdout", <<>>), Copy("rcred", "cred"), Goto("copy")>>,
    copy |-> <<Read("fd", "buf", 2), If("numRead", "<", 1, "copied"), Calc("stdout", "cat", "buf"), Goto("copy")>>,
    copied |-> <<Close("fd"), Goto("copy2")>>,
    copy2 |-> <<Read("fd2", "buf", 2), If("numRead", "<", 1, "copied2"), Calc("stdout", "cat", "buf"), Goto("copy2")>>,
    copied2 |-> <<Close("fd2"), Exit(0)>>]
scm_multi == scm_multi_recv @@ scm_multi_send

-----------------------------------------------------------------------------
writen_M == [
    writen |-> <<If("totWritten", "=", 3, "written"), WritePart("w", "buf"), If("numWritten", "<", 1, "failed"),
                 AddVar("totWritten", "numWritten"), Calc("buf", "drop", "numWritten"), Goto("writen")>>]
\* Until all is written, whatever part a call transfers; EINTR is no error.
writen == [
    writen |-> <<If("totWritten", "=", 3, "written"), WritePart("w", "buf"), If("numWritten", "=", EINTR, "writen"),
                 If("numWritten", "<", 1, "failed"), AddVar("totWritten", "numWritten"),
                 Calc("buf", "drop", "numWritten"), Goto("writen")>>]
readn == [
    readn |-> <<If("totRead", "=", 3, "readDone"), ReadVar("r", "chunk", "left"), If("numRead", "=", EINTR, "readn"),
                If("numRead", "<", 1, "readDone"), AddVar("totRead", "numRead"), Calc("got", "cat", "chunk"),
                Calc("left", "less", "numRead"), Goto("readn")>>]
\* Three bytes through a pipe, with a signal for the writer or for the reader.
rdwrn == writen @@ readn @@ [
    main |-> <<MakePipe("r", "w"), Either("starts"), Set("signalled", 1), Goto("starts")>>,
    starts |-> <<Fork("c", "reader"), Close("r"), Set("buf", <<1, 2, 3>>), Set("totWritten", 0),
                 If("signalled", "=", 0, "writen"), Sigaction("ALRM", "handler", {}, {}), Settimer(1), Goto("writen")>>,
    written |-> <<Exit(0)>>,
    failed |-> <<Exit(1)>>,
    reader |-> <<Close("w"), Set("got", <<>>), Set("left", 3), Set("totRead", 0), If("signalled", "=", 1, "readn"),
                 Sigaction("ALRM", "handler", {}, {}), Settimer(1), Goto("readn")>>,
    readDone |-> <<Exit(0)>>,
    handler |-> <<Return>>]

\* The buffer (RL_MAX_BUF is 2 here) is filled only when it is used up.
readLineBuf == [
    fill |-> <<If("rlbuf", "#", <<>>, "take"), Read("stdin", "rlbuf", 2), If("numRead", "<", 1, "lineEnd"),
               Goto("take")>>]
read_line_buf == readLineBuf @@ [
    main |-> <<Set("rlbuf", <<>>), Set("all", <<>>), Goto("readLine")>>,
    readLine |-> <<Set("line", <<>>), Goto("fill")>>,
    take |-> <<Calc("c", "head", "rlbuf"), Calc("rlbuf", "tail", "rlbuf"), Calc("line", "keep", "c"),
               If("c", "=", <<NL>>, "lineEnd"), Goto("fill")>>,
    lineEnd |-> <<If("line", "=", <<>>, "eof"), Calc("all", "cat", "line"), Goto("readLine")>>,
    eof |-> <<Exit(0)>>,
    user |-> <<Set("one", <<1, NL, 2>>), Write("tty", "one"), Set("two", <<3, NL, 4>>), Write("tty", "two"), Exit(0)>>]

\* sendfile() of the file's bytes from offset 1 on, two at a time (BUF_SIZE), to
\* a pipe: the file offset, 3 at the call, is the same after it.
sendfile == [
    sendfile |-> <<GetFile("in", "st"), Calc("orig", "atoi", "st"), LseekVar("in", "offset"), Set("totSent", 0),
                   Goto("sending")>>,
    allSent |-> <<GetFile("in", "st"), Calc("offset", "atoi", "st"), LseekVar("in", "orig"), Goto("sent")>>,
    sending |-> <<If("count", "<", 1, "allSent"), Set("toRead", 2), If("count", "#", 1, "reads"), Set("toRead", 1),
                  Goto("reads")>>,
    reads |-> <<ReadVar("in", "buf", "toRead"), If("numRead", "<", 1, "allSent"),
                  WritePart("w", "buf"), If("numWritten", "<", 0, "failed"), Calc("count", "less", "numWritten"),
                  AddVar("totSent", "numWritten"), Goto("sending")>>]
t_sendfile == sendfile @@ [
    main |-> <<MakePipe("r", "w"), Fork("c", "reader"), Close("r"), Get("file", Memory(<<1, 2, 3, 4>>), "creat"),
               Open("in", "file", {}), Lseek("in", 3), Set("offset", 1), Set("count", 3), Goto("sendfile")>>,
    sent |-> <<GetFile("in", "st"), Exit(0)>>,
    failed |-> <<Exit(1)>>,
    reader |-> <<Close("w"), Set("got", <<>>), Goto("reading")>>,
    reading |-> <<Read("r", "buf", 2), If("numRead", "<", 1, "readDone"), Calc("got", "cat", "buf"), Goto("reading")>>,
    readDone |-> <<Exit(0)>>]

-----------------------------------------------------------------------------
(* The programs of tlpi-dist/pipes and tlpi-dist/pty: filters connected by *)
(* pipes, popen(), and terminal sessions through a pseudoterminal.  What a *)
(* program writes to its standard output is kept in the variable "shown".  *)

\* Copies fd to "shown" up to end of file.
copyOut(l, fd, next) ==
    l :> <<Read(fd, "buf", 2), If("numRead", "<", 1, next), Calc("shown", "cat", "buf"), Goto(l)>>
ended == [ended |-> <<Exit(0)>>, failed |-> <<Exit(1)>>]

simple_pipe == copyOut("reading", "pfd0", "newline") @@ ended @@ [
    main |-> <<MakePipe("pfd0", "pfd1"), Fork("c", "child"), Close("pfd0"), Set("arg", <<1, 2, 3>>), Write("pfd1", "arg"),
               If("numWritten", "#", 3, "failed"), Close("pfd1"), Wait("w"), Exit(0)>>,
    child |-> <<Close("pfd1"), Set("shown", <<>>), Goto("reading")>>,
    newline |-> <<Close("pfd0"), Exit(0)>>]

\* ls writes two lines; wc counts what it reads.  The parent closes both ends, or wc
\* would never see end of file.
pipe_ls_wc == copyOut("counting", "stdin", "ended") @@ ended @@ [
    parent |-> <<Close("pfd0"), Close("pfd1"), Wait("w"), Wait("w"), Exit(0)>>,
    main |-> <<MakePipe("pfd0", "pfd1"), Fork("c", "toLs"), Fork("c", "toWc"), Goto("parent")>>,
    toLs |-> <<Close("pfd0"), Dup2("pfd1", "stdout"), Close("pfd1"), Exec("ls")>>,
    ls |-> <<Set("l", <<1, NL>>), Write("stdout", "l"), Write("stdout", "l"), Exit(0)>>,
    toWc |-> <<Close("pfd1"), Dup2("pfd0", "stdin"), Close("pfd0"), Exec("wc")>>,
    wc |-> <<Set("shown", <<>>), Goto("counting")>>]

\* A line at a time to the child and back, in upper case.
change_case == ended @@ [
    main |-> <<MakePipe("out0", "out1"), MakePipe("in0", "in1"), Fork("c", "child"), Close("out0"), Close("in1"),
               Set("shown", <<>>), Goto("parent")>>,
    child |-> <<Close("out1"), Close("in0"), Goto("convert")>>,
    convert |-> <<Read("out0", "buf", 9), If("numRead", "<", 1, "ended"), Calc("up", "upper", "buf"), Write("in1", "up"),
                  If("numWritten", "<", 0, "failed"), Goto("convert")>>,
    parent |-> <<Read("stdin", "buf", 9), If("numRead", "<", 1, "ended"), Write("out1", "buf"),
                 If("numWritten", "<", 0, "failed"), Read("in0", "buf", 9), If("numRead", "<", 0, "failed"),
                 Calc("shown", "cat", "buf"), Goto("parent")>>,
    user |-> <<Set("a", <<1, NL>>), Write("tty", "a"), Set("b", <<2>>), Write("tty", "b"), Exit(0)>>]

\* A pattern per line: 1 is a good character, 99 a bad one.  popen() is a pipe
\* and a child, pclose() waits for it.
popen_glob == ended @@ [
    main |-> <<Read("stdin", "pat", 2), If("numRead", "=", 0, "ended"), If("pat", "=", <<NL>>, "main"),
               Calc("pat0", "atoi", "pat"), If("pat0", "=", 99, "main"), Goto("popen")>>,
    popen |-> <<MakePipe("fp", "w"), Fork("pid", "shell"), Close("w"), Set("shown", <<>>), Goto("lines")>>,
    shell |-> <<Close("fp"), Exec("ls")>>,
    ls |-> <<Set("l", <<5, NL>>), Write("w", "l"), If("numWritten", "<", 0, "failed"), Exit(3)>>,
    lines |-> <<Read("fp", "pathname", 2), If("numRead", "=", 0, "pclose"), Calc("shown", "cat", "pathname"),
                Goto("lines")>>,
    pclose |-> <<Close("fp"), Waitpid("w2", "pid", {}), Show("status"), Goto("main")>>,
    user |-> <<Set("p", <<99, NL>>), Write("tty", "p"), Set("p", <<1, NL>>), Write("tty", "p"), Set("p", <<NL>>),
               Write("tty", "p"), Exit(0)>>]

-----------------------------------------------------------------------------
\* One pseudoterminal; opening its slave can fail for none of the callers.
ptyMasterOpen == PtyMaster("masterFd")
\* The child leads a session whose terminal is the slave.
ptyFork == [
    ptyFork |-> <<ptyMasterOpen, ForkOr("childPid", "inChild", "noPty"), Goto("parent")>>,
    inChild |-> <<Setsid("s"), Close("masterFd"), PtySlave("slaveFd"), Dup2("slaveFd", "stdin"),
                  Dup2("slaveFd", "stdout"), Dup2("slaveFd", "stderr"), Close("slaveFd"), Exec("shell")>>,
    noPty |-> <<Close("masterFd"), Exit(1)>>]
\* Passes input and output on between the terminal, in raw mode, and the master.
session(record) == ptyFork @@ [
    main |-> <<Goto("ptyFork")>>,
    parent |-> <<Open("scriptFd", "typescript", {"trunc"}), Set("raw", 1), Set("shown", <<>>), Goto("selecting")>>,
    selecting |-> <<Select({"stdin", "masterFd"}, "inFds"), If("inFds", "has", "stdin", "input"), Goto("output")>>,
    input |-> <<Read("stdin", "buf", 2), If("numRead", "<", 1, "ttyReset"), Write("masterFd", "buf"), Goto("output")>>,
    output |-> <<If("inFds", "has", "masterFd", "shows"), Goto("selecting")>>,
    shows |-> <<Read("masterFd", "buf", 2), If("numRead", "<", 1, "ttyReset"), Calc("shown", "cat", "buf"),
                record, Goto("selecting")>>,
    ttyReset |-> <<Set("raw", 0), Exit(0)>>,
    shell |-> <<Read("stdin", "cmd", 1), Set("result", <<6, 7>>), Write("stdout", "result"), Exit(0)>>,
    user |-> <<Set("a", <<1>>), Write("tty", "a"), Set("b", <<2>>), Write("tty", "b"), Pause>>]
script   == session(Write("scriptFd", "buf"))
unbuffer == session(Set("buf", <<>>))

-----------------------------------------------------------------------------
(* The programs of tlpi-dist/altio: select(), poll(), epoll, signal-driven *)
(* I/O.  The user types at the terminal, process 2, or writes to the FIFOs *)
(* a program watches.  Numbers of ready descriptors that are only printed  *)
(* are left out.                                                           *)

selfPipeHandler_M == [
    handler |-> <<Return>>]
\* The handler writes a byte to a nonblocking pipe.
selfPipeHandler == [
    handler |-> <<Set("x", <<1>>), WriteNB("pfd1", "x"), Return>>]
self_pipe == selfPipeHandler @@ [
    main |-> <<MakePipe("pfd0", "pfd1"), Sigaction("INT", "handler", {"RESTART"}, {}), Goto("selecting")>>,
    selecting |-> <<Select({"pfd0", "stdin"}, "readfds"), If("ready", "=", EINTR, "selecting"),
                    If("readfds", "has", "pfd0", "caught"), Goto("report")>>,
    caught |-> <<ReadNB("pfd0", "ch", 1), If("numRead", "#", EAGAIN, "caught"), Set("signals", 1), Goto("report")>>,
    report |-> <<Exit(0)>>,
    user |-> <<Kill("first", "INT"), Kill("first", "INT"), Pause>>]

childMon_M(l, msqid) ==
    l :> <<Msgrcv(msqid, "first", 0, "pmsg"), If("s", "<", 0, "gone"), Calc("frame", "frame", "pmsg"),
           Calc("hdr", "head", "frame"), Calc("text", "tail", "frame"), Write("pfd1", "hdr"),
           Write("pfd1", "text"), Goto(l)>>
\* A child per queue passes each message on, header and text in one write.
childMon(l, msqid) ==
    l :> <<Msgrcv(msqid, "first", 0, "pmsg"), If("s", "<", 0, "gone"), Calc("frame", "frame", "pmsg"),
           Write("pfd1", "frame"), If("numWritten", "<", 0, "gone"), Goto(l)>>
\* The parent watches the terminal and the pipe.
select_mq(msg) == childMon("childMon", "mq1") @@ childMon("childMon2", "mq2") @@ [
    main |-> <<Get("mq1", MsgQueue(2), "creat"), Get("mq2", MsgQueue(2), "creat"), MakePipe("pfd0", "pfd1"),
               Fork("c", "childMon"), Fork("c", "childMon2"), Set("texts", {}), Goto("selecting")>>,
    gone |-> <<Exit(1)>>,
    selecting |-> <<Select({"stdin", "pfd0"}, "readfds"), If("ready", "<", 0, "gone"),
                    If("readfds", "has", "stdin", "term"), Goto("pipe")>>,
    term |-> <<Read("stdin", "buf", 1), Goto("pipe")>>,
    pipe |-> <<If("readfds", "has", "pfd0", "header"), Goto("selecting")>>,
    header |-> <<Read("pfd0", "hdr", 1), If("numRead", "<", 1, "eof"), Calc("len", "atoi", "hdr"), Goto("text")>>,
    text |-> <<ReadVar("pfd0", "mtext", "len"), If("numRead", "<", 1, "eof"), Goto("shown")>>,
    shown |-> <<Show("mtext"), Goto("selecting")>>,
    eof |-> <<Say("EOF on pipe"), Exit(1)>>,
    user |-> <<Get("mq1", MsgQueue(2), "creat"), Get("mq2", MsgQueue(2), "creat"), Set("m", <<7>>),
               Msgsnd("mq1", 1, "m"), Set("m", msg), Msgsnd("mq2", 2, "m"), Set("nl", <<NL>>), Write("tty", "nl"),
               Pause>>]

\* The flag is cleared before the input is read to its end.
sigioLoop == [
    loop |-> <<If("gotSigio", "=", 0, "idle"), Set("gotSigio", 0), Goto("drain")>>,
    drain |-> <<ReadNB("stdin", "ch", 1), If("numRead", "<", 1, "cleared"), If("done", "=", 1, "cleared"),
                If("ch", "#", <<8>>, "drain"), Set("done", 1), Goto("drain")>>,
    cleared |-> <<Goto("next")>>]
\* The character that ends it is 8.  Input typed before SIGIO is enabled is not
\* signalled: here the user types after it (the semaphore stands for seeing it run).
demo_sigio == sigioLoop @@ [
    main |-> <<Sigaction("IO", "sigioHandler", {"RESTART"}, {}), Async("stdin"), Get("seen", SemSet(<<0>>), "creat"),
               Semop("seen", <<Op(1, 1)>>), Goto("loop")>>,
    idle |-> <<Goto("loop")>>,
    next |-> <<If("done", "=", 1, "end"), Goto("loop")>>,
    end |-> <<Exit(0)>>,
    sigioHandler |-> <<Set("gotSigio", 1), Return>>,
    user |-> <<Get("seen", SemSet(<<0>>), "creat"), Semop("seen", <<Op(1, -1)>>), Set("a", <<7>>), Write("tty", "a"), Set("b", <<8>>),
               Write("tty", "b"), Pause>>]

\* Two FIFOs; a descriptor is read while it has input and closed on a hangup.
epoll_input == [
    main |-> <<MakePipe("f1", "w1"), MakePipe("f2", "w2"), Fork("c", "writer1"), Fork("c", "writer2"), Close("w1"),
               Close("w2"), Set("fds", {"f1", "f2"}), Set("got1", <<>>), Set("got2", <<>>), Set("f1name", "f1"),
               Set("f2name", "f2"), Goto("waiting")>>,
    waiting |-> <<If("fds", "=", {}, "bye"), SelectVar("fds", "evlist"), If("ready", "=", EINTR, "waiting"),
                  If("evlist", "has", "f1", "in1"), Goto("second")>>,
    in1 |-> <<Read("f1", "buf", 2), If("numRead", "<", 1, "hup1"), Calc("got1", "cat", "buf"), Goto("second")>>,
    hup1 |-> <<Close("f1"), Calc("fds", "without", "f1name"), Goto("second")>>,
    second |-> <<If("evlist", "has", "f2", "in2"), Goto("waiting")>>,
    in2 |-> <<Read("f2", "buf", 2), If("numRead", "<", 1, "hup2"), Calc("got2", "cat", "buf"), Goto("waiting")>>,
    hup2 |-> <<Close("f2"), Calc("fds", "without", "f2name"), Goto("waiting")>>,
    bye |-> <<Exit(0)>>,
    writer1 |-> <<Close("w2"), Set("d", <<1, 2, 3>>), Write("w1", "d"), Exit(0)>>,
    writer2 |-> <<Close("w1"), Set("d", <<4>>), Write("w2", "d"), Write("w2", "d"), Exit(0)>>]

poll_pipes == [
    main |-> <<MakePipe("r0", "w0"), MakePipe("r1", "w1"), Set("a", <<1>>), Either("other"), Set("randPipe", "r0"),
               Write("w0", "a"), Goto("poll")>>,
    other |-> <<Set("randPipe", "r1"), Write("w1", "a"), Goto("poll")>>,
    poll |-> <<SelectTimed({"r0", "r1"}, "revents"), Exit(0)>>]

\* Without a timeout ("-"), or with one.
t_select == [
    main |-> <<Either("forever"), SelectTimed({"stdin"}, "readfds"), Exit(0)>>,
    forever |-> <<Select({"stdin"}, "readfds"), Exit(0)>>,
    user |-> <<Set("a", <<1>>), Write("tty", "a"), Pause>>]

\* With EPOLLET one input wakes one waiter of an epoll descriptor; without it,
\* everyone who waits or comes to wait while the input is there.
epoll_wait(l, et, next) ==
    l :> <<IF et THEN EpollWaitET("epfd", "rev") ELSE Select({"stdin"}, "rev"), Say("woken"), Goto(next)>>

\* The children wait for input of a FIFO (standard input here).  Options: -s
\* (one epoll descriptor), -e (EPOLLET), both, or neither; -r and -l with -s -e.
epoll_flags_fork == epoll_wait("waitET", TRUE, "terminating") @@ epoll_wait("waitLT", FALSE, "terminating")
                      @@ epoll_wait("waitLoop", TRUE, "readData") @@ [
    main |-> <<Either("own"), Either("level"), Set("mode", "shared"), Epoll("epfd", "stdin"), Either("loops"),
               Fork("c", "waitET"), Fork("c", "waitET"), Goto("parent")>>,
    own |-> <<Set("mode", "own"), Fork("c", "ownChild"), Fork("c", "ownChild"), Goto("parent")>>,
    ownChild |-> <<Epoll("epfd", "stdin"), Goto("waitET")>>,
    level |-> <<Set("mode", "level"), Fork("c", "waitLT"), Fork("c", "waitLT"), Goto("parent")>>,
    loops |-> <<Set("mode", "loop"), Fork("c", "waitLoop"), Fork("c", "waitLoop"), Goto("parent")>>,
    readData |-> <<ReadNB("stdin", "buf", 9), If("numRead", "=", 0, "terminating"), Goto("waitLoop")>>,
    terminating |-> <<Exit(0)>>,
    parent |-> <<Wait("c"), Wait("c"), Exit(0)>>,
    user |-> <<Set("a", <<1>>), Write("tty", "a"), Pause>>]

\* Two threads; exit() of the main one ends them.
multithread_epoll_wait == epoll_wait("threadFunc", TRUE, "returns") @@ epoll_wait("threadFuncLT", FALSE, "returns") @@ [
    main |-> <<MakePipe("stdin", "pfd1"), Epoll("epfd", "stdin"), Either("level"), Set("mode", "shared"),
               Clone("threadFunc", {"VM", "FILES"}, ""), Copy("t1", "child"),
               Clone("threadFunc", {"VM", "FILES"}, ""), Copy("t2", "child"), Goto("writing")>>,
    level |-> <<Clone("threadFuncLT", {"VM", "FILES"}, ""), Copy("t1", "child"),
                Clone("threadFuncLT", {"VM", "FILES"}, ""), Copy("t2", "child"), Goto("writing")>>,
    returns |-> <<Exit(0)>>,
    writing |-> <<Sleep(""), Set("a", <<1>>), Write("pfd1", "a"), Sleep(""), Kill("t1", "KILL"), Kill("t2", "KILL"),
                  Exit(0)>>]

-----------------------------------------------------------------------------
(* The command-line tools for IPC objects (tlpi-dist/svsem, svmsg, svshm,  *)
(* psem, pmsg, pshm, mmap), each a block of one process, and the programs  *)
(* that lock files (filelock).  A tool that fails ends with status 1; the  *)
(* parsing of its options, and what it prints, are left out.  A program    *)
(* here is a set of tools run at the same time by a shell.                 *)

done == [fails |-> <<Exit(1)>>, done |-> <<Exit(0)>>]

\* -c creates the object if there is none; -x makes sure that it is new.
create(l, name, o, mode, next) == l :> <<Get(name, o, mode), If("got", "<", 0, "fails"), Goto(next)>>
\* The object is removed.
remove(l, unlink) == l :> <<unlink, If("unlinked", "<", 0, "fails"), Exit(0)>>

-----------------------------------------------------------------------------
(* System V semaphores: two semaphores, 1 and 0 at first.                  *)

svsem_create == create("svsem_create", "sem", SemSet(<<0, 0>>), "excl", "svsem_setall")
svsem_setall == [svsem_setall |-> <<Semctl("sem", <<1, 0>>), Exit(0)>>]
svsem_op(l, ops) == l :> <<Semop("sem", ops), If("s", "<", 0, "fails"), Set("ok", 1), Exit(0)>>
svsem_mon == [svsem_mon |-> <<Get("sem", SemSet(<<>>), "open"), If("got", "<", 0, "fails"), Semget("sem", "values"),
                              Exit(0)>>]
svsem_demo == [svsem_demo |-> <<SemopNB("sem", <<Op(1, 1)>>), If("s", "<", 0, "fails"), Set("ok", 1), Exit(0)>>]
svsem_rm == remove("svsem_rm", Unlink("sem"))
\* One tool moves a unit from the first semaphore to the second, another one
\* takes it back and has its step undone, all at once or not at all.
svsem == svsem_create @@ svsem_setall @@ svsem_mon @@ done
           @@ svsem_op("moves", <<Op(1, -1), Op(2, 1)>>) @@ svsem_op("takes", <<OpUndo(2, -1), Op(1, 0)>>)
svsem_removed == svsem_create @@ svsem_setall @@ svsem_rm @@ svsem_demo @@ done
                   @@ svsem_op("waits", <<Op(2, -1)>>)

\* Waits for the value 0; a signal does not end the wait.
waitForEventFlag == [
    waitForEventFlag |-> <<Semop("sem", <<Op(1, 0)>>), If("s", "=", EINTR, "waitForEventFlag"),
                           If("s", "<", 0, "fails"), Goto("flagged")>>]
event_flags == waitForEventFlag @@ done @@ [
    main |-> <<Get("sem", SemSet(<<0>>), "creat"), Semctl("sem", <<1>>), Sigaction("INT", "handler", {"RESTART"}, {}),
               Fork("c", "setEventFlag"), Fork("c", "interrupts"), Goto("waitForEventFlag")>>,
    setEventFlag |-> <<Sleep(""), Semctl("sem", <<0>>), Exit(0)>>,
    interrupts |-> <<Kill("first", "INT"), Exit(0)>>,
    handler |-> <<Return>>,
    flagged |-> <<Semget("sem", "isSet"), Exit(0)>>]

-----------------------------------------------------------------------------
(* POSIX semaphores.                                                       *)

psem_create == create("psem_create", "psem", SemSet(<<1>>), "excl", "next")
psem(l, call) == l :> <<Get("psem", SemSet(<<>>), "open"), If("got", "<", 0, "fails"), call, If("s", "<", 0, "fails"),
                        Set("ok", 1), Exit(0)>>
psem_post == psem("psem_post", Semop("psem", <<Op(1, 1)>>))
psem_wait == psem("psem_wait", Semop("psem", <<Op(1, -1)>>))
psem_trywait == psem("psem_trywait", SemopNB("psem", <<Op(1, -1)>>))
psem_timedwait == psem("psem_timedwait", SemTimed("psem", <<Op(1, -1)>>))
psem_getvalue == [psem_getvalue |-> <<Get("psem", SemSet(<<>>), "open"), If("got", "<", 0, "fails"),
                                      Semget("psem", "value"), Exit(0)>>]
psem_unlink == remove("psem_unlink", UnlinkName("psem"))
psem_tools == psem_create @@ psem_post @@ psem_wait @@ psem_trywait @@ psem_timedwait @@ done
    @@ [next |-> <<Fork("c", "psem_wait"), Fork("c", "psem_trywait"), Fork("c", "psem_timedwait"), Goto("psem_post")>>]
psem_tools2 == psem_create @@ psem_getvalue @@ psem_unlink @@ psem_post @@ done @@ [next |-> <<Exit(0)>>]

\* Two threads, each with its own loc, increment glob inside the semaphore.
threadFunc == [
    threadFunc |-> <<Semop("sem", <<Op(1, -1)>>), Copy("loc", "glob"), Add("loc", 1), Copy("glob", "loc"),
                     Semop("sem", <<Op(1, 1)>>), Exit(0)>>,
    threadFunc2 |-> <<Semop("sem", <<Op(1, -1)>>), Copy("loc2", "glob"), Add("loc2", 1), Copy("glob", "loc2"),
                      Semop("sem", <<Op(1, 1)>>), Exit(0)>>]
thread_incr_psem == threadFunc @@ [
    main |-> <<Get("sem", SemSet(<<1>>), "creat"), Clone("threadFunc", {"VM"}, "CHLD"),
               Clone("threadFunc2", {"VM"}, "CHLD"), Wait("t"), Wait("t"), Set("joined", 1), Exit(0)>>]

-----------------------------------------------------------------------------
(* Message queues.                                                         *)

svmsg_create == create("svmsg_create", "mq", MsgQueue(2), "excl", "next")
svmsg_send(l, type, text, next) == l :> <<Set("text", text), Msgsnd("mq", type, "text"), If("s", "<", 0, "fails"), Goto(next)>>
svmsg_sendNB == [svmsg_sendNB |-> <<Set("text", <<9>>), MsgsndNB("mq", 9, "text"), If("s", "<", 0, "fails"), Exit(0)>>]
svmsg_receive(l, which, n) == l :> <<Msgrcv("mq", which, n, "msg"), If("s", "<", 0, "fails"), Set("ok", 1), Exit(0)>>
svmsg_receiveNB == [svmsg_receiveNB |-> <<MsgrcvNB("mq", "type", 5, "msg"), If("s", "<", 0, "fails"), Exit(0)>>]
svmsg_rm == remove("svmsg_rm", Unlink("mq"))
\* A smaller queue: only one message fits.  (Another tool is run after it.)
svmsg_chqbytes == [svmsg_chqbytes |-> <<Chqbytes("mq", 1), Goto("svmsg_receiveNB")>>]
\* Three messages are sent in order: type 3, type 2, and type 2 again.  The
\* receivers ask for type 2, for the lowest type up to 2, and for any but 2.
svmsg == svmsg_create @@ svmsg_send("sends", 3, <<1>>, "sends2") @@ svmsg_send("sends2", 2, <<2>>, "sends3")
           @@ svmsg_send("sends3", 2, <<3>>, "done") @@ done @@ [next |-> <<Exit(0)>>] @@ svmsg_receive("ofType", "type", 2)
           @@ svmsg_receive("upTo", "upto", 2) @@ svmsg_receive("except", "except", 2)
svmsg_removed == svmsg_create @@ svmsg_send("sends", 3, <<1>>, "first") @@ svmsg_chqbytes @@ svmsg_sendNB
                   @@ svmsg_rm @@ svmsg_receive("first", "first", 0) @@ svmsg_receiveNB @@ done
    @@ [next |-> <<Fork("c", "sends"), Fork("c", "svmsg_sendNB"), Fork("c", "svmsg_chqbytes"), Goto("svmsg_rm")>>]

pmsg_create == create("pmsg_create", "mq", MsgQueue(2), "creat", "sends")
pmsg_send(l, prio, text, next) ==
    l :> <<Get("mq", MsgQueue(0), "open"), If("got", "<", 0, "fails"), Set("text", text), Msgsnd("mq", prio, "text"),
           If("s", "<", 0, "fails"), Goto(next)>>
\* The oldest of the messages with the highest priority.
pmsg_receive(l, next) == l :> <<Get("mq", MsgQueue(0), "open"), If("got", "<", 0, "fails"),
                                Msgrcv("mq", "prio", 0, "msg"), If("s", "<", 0, "fails"), Goto(next)>>
pmsg_getattr == [pmsg_getattr |-> <<Get("mq", MsgQueue(0), "open"), If("got", "<", 0, "fails"), Exit(0)>>]
pmsg_unlink == remove("pmsg_unlink", UnlinkName("mq"))
\* Two messages are sent, and then received by two tools run at the same time.
pmsg == pmsg_create @@ pmsg_getattr @@ pmsg_send("sends", 1, <<1>>, "sends2") @@ pmsg_send("sends2", 7, <<2>>, "sent")
          @@ pmsg_receive("receives", "done") @@ pmsg_receive("receives2", "pmsg_unlink") @@ pmsg_unlink @@ done
          @@ [sent |-> <<Fork("c", "receives"), Fork("c", "pmsg_getattr"), Goto("receives2")>>]

-----------------------------------------------------------------------------
(* Shared memory and mapped files.                                         *)

pshm_create == [pshm_create |-> <<Get("shm", Memory(<<>>), "creat"), Ftruncate("shm", 1), Exit(0)>>]
\* The object is resized, and the text copied to it afterwards.
pshm_write == [pshm_write |-> <<Get("shm", Memory(<<>>), "open"), If("got", "<", 0, "fails"), Set("arg", <<4, 5>>),
                                Ftruncate("shm", 2), Store("shm", "arg"), Set("written", 1), Exit(0)>>]
\* The size is taken before the memory is read.
pshm_read == [pshm_read |-> <<Get("shm", Memory(<<>>), "open"), If("got", "<", 0, "fails"), Load("shm", "sb"),
                              Calc("size", "len", "sb"), Load("shm", "addr"), Goto("pshm_unlink")>>]
pshm_unlink == remove("pshm_unlink", UnlinkName("shm"))
pshm == pshm_create @@ pshm_write @@ pshm_read @@ pshm_unlink @@ done

svshm_create == create("svshm_create", "seg", Memory(<<0>>), "excl", "done")
svshm_attach == [svshm_attach |-> <<Load("seg", "addr"), If("s", "<", 0, "fails"), Sleep(""), Exit(0)>>]
svshm_mon == [svshm_mon |-> <<Load("seg", "ds"), If("s", "<", 0, "fails"), Exit(0)>>]
svshm_rm == remove("svshm_rm", Unlink("seg"))
svshm_tools == svshm_create @@ svshm_attach @@ svshm_mon @@ svshm_rm @@ done

\* A shared anonymous mapping, incremented by the child.
anon_mmap == [
    main |-> <<Get("anon", Memory(<<1>>), "creat"), Fork("c", "child"), Wait("w"), Load("anon", "value"), Exit(0)>>,
    child |-> <<Load("anon", "addr"), Calc("addr", "succ", "addr"), Store("anon", "addr"), Exit(0)>>]
mmcopy == [
    main |-> <<Get("src", Memory(<<1, 2>>), "creat"), Load("src", "addr"), Calc("size", "len", "addr"),
               If("size", "=", 0, "empty"), Get("dst", Memory(<<9>>), "creat"), Ftruncate("dst", 2), Store("dst", "addr"),
               Goto("mmcat")>>,
    mmcat |-> <<Load("dst", "shown"), Goto("t_mmap")>>,
    t_mmap |-> <<Set("value", <<7, 0>>), Store("dst", "value"), Load("dst", "value2"), Exit(0)>>,
    empty |-> <<Exit(0)>>]

-----------------------------------------------------------------------------
(* Locks.                                                                  *)

lockRegion(fd, type)     == SetLock(fd, "posix", type, 0, 9)
regionIsLocked(fd, v)    == GetLock(fd, "posix", "w", 0, 9, v)

createPidFile_M == [
    createPidFile |-> <<Open("fd", "pidfile", {}), regionIsLocked("fd", "holders"), If("holders", "#", {}, "already"),
                        lockRegion("fd", "w"), Ftruncate("pidfile", 0), Calc("buf", "line", "self"), Write("fd", "buf"),
                        Goto("running")>>]
\* The lock is the test: a second instance ends.
createPidFile == [
    createPidFile |-> <<Open("fd", "pidfile", {}), lockRegion("fd", "w"), If("s", "<", 0, "already"),
                        Ftruncate("pidfile", 0), Calc("buf", "line", "self"), Write("fd", "buf"), Goto("running")>>]
create_pid_file == createPidFile @@ [
    main |-> <<Goto("createPidFile")>>,
    already |-> <<Exit(1)>>,
    running |-> <<regionIsLocked("fd", "other"), Sleep(""), Exit(0)>>]

\* A shared or an exclusive lock, with or without LOCK_NB.
t_flock == [
    main |-> <<Open("fd", "file", {}), Either("shared"), Either("nonblock"), SetLockWait("fd", "ofd", "w", 0, 9),
               Set("has", "w"), Goto("holds")>>,
    shared |-> <<SetLockWait("fd", "ofd", "r", 0, 9), Set("has", "r"), Goto("holds")>>,
    nonblock |-> <<SetLock("fd", "ofd", "w", 0, 9), If("s", "<", 0, "bye"), Set("has", "w"), Goto("holds")>>,
    holds |-> <<Sleep(""), Set("has", ""), SetLock("fd", "ofd", "u", 0, 9), Exit(0)>>,
    bye |-> <<Exit(1)>>]

\* Two commands of each user, among: wait for a write lock of byte 1 or of byte
\* 2, try a read lock of both, unlock byte 1; and one that asks who holds them.  The second
\* user only waits for locks.
i_fcntl_locking == [
    main2 |-> <<Set("waits", 1), Goto("main")>>,
    main |-> <<Open("fd", "file", {}), Goto("cmd")>>,
    cmd |-> <<If("n", "=", 2, "g"), Add("n", 1), Either("w1"), Either("w2"), If("waits", "=", 1, "w2"), Either("r"),
              SetLock("fd", "posix", "u", 1, 1), Goto("cmd")>>,
    w1 |-> <<SetLockWait("fd", "posix", "w", 1, 1), Goto("status")>>,
    w2 |-> <<SetLockWait("fd", "posix", "w", 2, 2), Goto("status")>>,
    r |-> <<SetLock("fd", "posix", "r", 1, 2), Goto("status")>>,
    g |-> <<GetLock("fd", "posix", "w", 1, 2, "l_pid"), Exit(0)>>,
    status |-> <<If("s", "=", EDEADLK, "deadlock"), Goto("cmd")>>,
    deadlock |-> <<Set("dead", 1), Goto("cmd")>>]

-----------------------------------------------------------------------------
(* The programs and the processes each starts with.                        *)

Programs == [
    is_seqnum |-> is_seqnum, is_echo |-> is_echo, is_echo_inetd |-> is_echo_inetd, us_xfr |-> us_xfr,
    us_xfr_v2 |-> us_xfr_v2,
    ud_ucase |-> ud_ucase, i6d_ucase |-> i6d_ucase, id_echo |-> id_echo,
    scm_rights |-> scm_rights, scm_cred |-> scm_cred, scm_multi |-> scm_multi,
    rdwrn |-> rdwrn, read_line_buf |-> read_line_buf, t_sendfile |-> t_sendfile,
    self_pipe |-> self_pipe, select_mq |-> select_mq(<<8, 9>>), demo_sigio |-> demo_sigio, epoll_input |-> epoll_input,
    poll_pipes |-> poll_pipes, t_select |-> t_select, epoll_flags_fork |-> epoll_flags_fork,
    multithread_epoll_wait |-> multithread_epoll_wait,
    simple_pipe |-> simple_pipe, pipe_ls_wc |-> pipe_ls_wc, change_case |-> change_case,
    popen_glob |-> popen_glob, script |-> script, unbuffer |-> unbuffer,
    svsem |-> svsem, svsem_removed |-> svsem_removed, event_flags |-> event_flags, psem_tools |-> psem_tools,
    psem_tools2 |-> psem_tools2, thread_incr_psem |-> thread_incr_psem, svmsg |-> svmsg,
    svmsg_removed |-> svmsg_removed, pmsg |-> pmsg, pshm |-> pshm, svshm_tools |-> svshm_tools,
    anon_mmap |-> anon_mmap, mmcopy |-> mmcopy,
    create_pid_file |-> create_pid_file, t_flock |-> t_flock, i_fcntl_locking |-> i_fcntl_locking]

\* The processes each program starts with.
Starts == [x \in DOMAIN Programs |->
    CASE x = "is_seqnum" -> <<"server", "client", "client2">>
      [] x \in {"us_xfr", "ud_ucase", "i6d_ucase", "id_echo"} -> <<"server", "client", "client">>
      [] x = "us_xfr_v2" -> <<"server", "client", "server">>
      [] x \in {"is_echo", "is_echo_inetd"} -> <<"server", "client", "user">>
      [] x \in {"scm_rights", "scm_cred", "scm_multi"} -> <<"server", "client">>
      [] x = "svsem" -> <<"svsem_create", "moves", "takes", "svsem_mon">>
      [] x = "svsem_removed" -> <<"svsem_create", "waits", "svsem_demo", "svsem_rm">>
      [] x = "psem_tools" -> <<"psem_create">>
      [] x = "psem_tools2" -> <<"psem_create", "psem_post", "psem_getvalue", "psem_unlink">>
      [] x = "svmsg" -> <<"svmsg_create", "sends", "ofType", "upTo", "except">>
      [] x = "svmsg_removed" -> <<"svmsg_create">>
      [] x = "pmsg" -> <<"pmsg_create">>
      [] x = "pshm" -> <<"pshm_create", "pshm_write", "pshm_read">>
      [] x = "svshm_tools" -> <<"svshm_create", "svshm_attach", "svshm_mon", "svshm_rm">>
      [] x = "i_fcntl_locking" -> <<"main", "main2">>
      [] x \in {"create_pid_file", "t_flock"} -> <<"main", "main">>
      [] OTHER -> IF "user" \in DOMAIN Programs[x] THEN <<"main", "user">> ELSE <<"main">>]

-----------------------------------------------------------------------------
\* Variables of process p, which outlive it.
Has(p, v)  == ps[p].mm # 0 /\ v \in DOMAIN mem[ps[p].mm]
Done(p)    == ps[p].st \in {"zombie", "gone"} /\ ps[p].code = [how |-> "exited", n |-> 0]
\* v is what has arrived so far of the bytes s: all of them once p has ended well.
Whole(p, v, s) == Has(p, v) => IsPrefix(Val(p, v), s) /\ (Done(p) => Val(p, v) = s)
All(v, s)  == \A p \in Pids : Whole(p, v, s)
Told(x)    == {k \in DOMAIN out : out[k][2] = x}

\* What a reader has received of a stream is a prefix of what was sent, and all of it
\* once the reader has seen the end of the stream and ended well: whatever parts
\* read() and write() transfer, whichever signals interrupt them (rdwrn.c,
\* read_line_buf.c), and whoever else holds a copy of the descriptors (is_echo_*.c,
\* pipe_ls_wc.c, change_case.c, popen_glob.c, epoll_input.c, the files passed by scm_*.c).
\* is_echo_sv.c sends back nothing where its fork() has failed; script.c keeps in its
\* file what it has shown; sendfile.c leaves the file's offset as it was.
StreamsWhole ==
    CASE prog = "is_echo" -> Val(1, "refused") # 1 => All("printed", <<1, 2, 3>>)
      [] prog = "is_echo_inetd" -> All("printed", <<1, 2, 3>>)
      [] prog = "rdwrn" -> All("got", <<1, 2, 3>>)
      [] prog = "read_line_buf" -> All("all", <<1, NL, 2, 3, NL, 4>>)
      [] prog = "simple_pipe" -> All("shown", <<1, 2, 3>>)
      [] prog = "pipe_ls_wc" -> All("shown", <<1, NL, 1, NL>>)
      [] prog = "change_case" -> Whole(1, "shown", <<101, NL, 102>>)
      [] prog = "popen_glob" -> Whole(1, "shown", <<5, NL>>)
      [] prog = "epoll_input" -> Whole(1, "got1", <<1, 2, 3>>) /\ Whole(1, "got2", <<4, 4>>)
      [] prog = "scm_rights" -> Whole(1, "stdout", <<1, 2>>)
      [] prog = "scm_multi" -> Whole(1, "stdout", <<1, 2, 3>>)
      [] prog \in {"script", "unbuffer"} ->
           /\ Whole(1, "shown", <<6, 7>>)
           /\ Done(1) => /\ Val(1, "raw") = 0
                         /\ prog = "script" => obj[<<0, "typescript">>].data = Val(1, "shown")
      [] prog = "t_sendfile" -> Done(1) => Val(1, "st")[1] = 3
      [] OTHER -> TRUE

\* The sequence numbers a client has been given.
Given(p) == Val(p, "line")[1] .. (Val(p, "line")[1] + Val(p, "reqLenStr")[1] - 1)

\* Each client gets an answer to its own request: the ranges of sequence numbers that
\* is_seqnum_v2_sv.c hands out are disjoint, although clients connect, stay silent,
\* ask for nothing or die in any order; the datagram servers answer the address that
\* asked (the pathname of a ud_ucase_cl.c holds its process ID); us_xfr_sv.c never
\* mixes two clients' data; the credentials that scm_cred_recv.c and scm_multi_recv.c
\* report are those of the sender.
OwnAnswer ==
    CASE prog = "is_seqnum" -> Val(2, "served") = 1 /\ Val(3, "served") = 1 => Given(2) \cap Given(3) = {}
      [] prog \in {"ud_ucase", "i6d_ucase"} -> \A p \in {2, 3} : Has(p, "resp") => Val(p, "resp") = <<p + 100, NL>>
      [] prog = "id_echo" -> \A p \in {2, 3} : Has(p, "resp") => Val(p, "resp") = <<p, NL>>
      [] prog = "us_xfr" -> Has(1, "stdout") =>
           \A i, j, k \in DOMAIN Val(1, "stdout") :
              LET s == Val(1, "stdout")
              IN  i < j /\ j < k /\ s[i] # NL /\ s[j] # NL /\ s[i] = s[k] => s[i] = s[j]
      [] prog \in {"scm_cred", "scm_multi"} -> Has(1, "rcred") => Val(1, "rcred") = 2
      [] OTHER -> TRUE

\* No client ends a server that runs for ever, by dying before or after its request,
\* asking for nothing or leaving before the answer: is_seqnum_v2_sv.c ignores SIGPIPE,
\* is_echo_sv.c handles a failed fork() and each connection in a child, id_echo_sv.c
\* only reports a failed sendto().
ServerSurvives ==
    prog \in {"is_seqnum", "is_echo", "us_xfr", "i6d_ucase", "id_echo"} => ps[1].st = "live"

\* The waiters share an epoll descriptor with EPOLLET.
Shared == \E p \in Pids : Has(p, "mode") /\ Val(p, "mode") \in {"shared", "loop"}

\* What is reported is what happened, once: select_mq.c reads every message of its two
\* children from their pipe whole and unmixed; with EPOLLET one input wakes at most one
\* of those who wait with the same epoll descriptor (epoll_flags_fork.c -s -e,
\* multithread_epoll_wait.c); poll_pipes.c finds the pipe that was written.
EventsOnce ==
    CASE prog = "select_mq" -> \A k \in Told("mtext") : out[k][3] \in {<<7>>, <<8, 9>>}
      [] prog \in {"epoll_flags_fork", "multithread_epoll_wait"} ->
           Shared => Cardinality(Told("woken")) <= 1
      [] prog = "poll_pipes" -> Done(1) => Val(1, "revents") = {Val(1, "randPipe")}
      [] OTHER -> TRUE

\* Locks, semaphores and queues give what the programs take them for: one instance
\* holds the PID file, and the file names it (create_pid_file.c); no two processes
\* hold a lock when one is exclusive (t_flock.c); no increment is lost
\* (thread_incr_psem.c); the event flag is set when the wait for it returns
\* (event_flags.c); the message of highest priority comes first (pmsg_receive.c);
\* what the child stores in the shared mapping is seen after wait() (anon_mmap.c).
Guarded ==
    CASE prog = "create_pid_file" ->
           LET holders == {p \in Live : ps[p].at[1] = "running"}
           IN  /\ Cardinality(holders) <= 1
               /\ \A p \in holders : obj[<<0, "pidfile">>].data = <<p, NL>> /\ (Has(p, "other") => Val(p, "other") = {})
      [] prog = "t_flock" -> ~\E p, q \in Live : p # q /\ Has(p, "has") /\ Has(q, "has")
                                /\ Val(p, "has") = "w" /\ Val(q, "has") \in {"r", "w"}
      [] prog = "thread_incr_psem" -> Val(1, "joined") = 1 => Val(1, "glob") = 2
      [] prog = "event_flags" -> Has(1, "isSet") => Val(1, "isSet") = <<0>>
      [] prog = "pmsg" -> \A p \in Pids : Has(p, "msg") /\ Val(p, "msg").type = 1 =>
                              7 \notin {m.type : m \in ToSet(obj[<<0, "mq">>].q)}
      [] prog = "anon_mmap" -> Done(1) => Val(1, "value") = <<2>>
      [] OTHER -> TRUE

\* Where a program may wait for ever: for clients, input, an answer that may have been
\* lost, or a tool that was run too early.
Idle ==
    CASE prog \in {"is_seqnum", "is_echo"} -> {"listening"}
      [] prog = "is_echo_inetd" -> {"server"}
      [] prog \in {"us_xfr", "us_xfr_v2"} -> {"accepting"}
      [] prog \in {"ud_ucase", "i6d_ucase", "id_echo"} -> {"serving", "response"}
      [] prog \in {"scm_rights", "scm_cred", "scm_multi"} -> {"server", "received"}
      [] prog = "select_mq" -> {"selecting", "childMon", "childMon2", "user"}
      [] prog = "epoll_flags_fork" -> {"user"} \cup (IF Shared THEN {"parent", "waitET", "waitLoop"} ELSE {})
      [] prog \in {"self_pipe", "demo_sigio", "t_select", "script", "unbuffer"} -> {"user"}
      [] prog = "svsem" -> {"takes"}
      [] prog = "svsem_removed" -> {"waits"}
      [] prog = "psem_tools" -> {"psem_wait"}
      [] prog = "svmsg" -> {"sends", "sends2", "sends3", "ofType", "upTo", "except"}
      [] prog = "svmsg_removed" -> {"sends", "first"}
      [] prog = "pmsg" -> {"receives"}
      [] OTHER -> {}
\* Every process ends, or rests for ever where its program may: no signal is missed
\* (self_pipe.c, demo_sigio.c), end of file reaches every reader (pipe_ls_wc.c,
\* pty_fork.c), every lock request is granted, refused or ends in EDEADLK
\* (i_fcntl_locking.c), and a removed object wakes those who wait for it (svsem_rm.c,
\* svmsg_rm.c).
Settles == <>[](\A p \in Live : ps[p].at[1] \in Idle)
=============================================================================
