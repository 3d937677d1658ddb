------------------------------ MODULE WifiCodec ------------------------------
(***************************************************************************)
(* The station name and password on their way from connect to the driver  *)
(* and back through getDetails.  Strings are sequences of bytes, NUL is 0. *)
(*                                                                         *)
(* connect copies the JS strings with jsvGetString into char ssid[33] and  *)
(* char password[65], terminates them, and memcpy's 32 and 64 bytes into   *)
(* the driver's wifi_sta_config_t.  getDetails reads that config back:     *)
(* the SSID through a terminated copy, the password straight from the      *)
(* 64-byte field.  Before any connect the config is the one esp_wifi_init  *)
(* loaded from NVS.  The widths are the constants SsidW (32) and PwW (64); *)
(* TLC runs them small.                                                    *)
(***************************************************************************)
EXTENDS Naturals, Sequences

CONSTANTS
  SsidW,    \* sizeof(wifi_sta_config_t.ssid), 32
  PwW,      \* sizeof(wifi_sta_config_t.password), 64
  Chars,    \* the non-NUL bytes of JS strings
  MaxLen    \* bound on the length of the JS strings the script passes

ASSUME CodecAssumption ==
  /\ SsidW \in Nat \ {0} /\ PwW \in Nat \ {0}
  /\ 0 \notin Chars
  /\ MaxLen \in Nat

NUL == 0
Bytes == Chars \cup {NUL}

\* The JS strings of at most n bytes.
Strs(n) == UNION {[1 .. k -> Chars] : k \in 0 .. n}

\* An array of n bytes.
Arr(n) == [1 .. n -> Bytes]

\* A field of a C struct read as a string bounded by the field: the bytes
\* before its first NUL, or the whole field when it holds none.
FieldString(f) ==
  CHOOSE t \in {SubSeq(f, 1, k) : k \in 0 .. Len(f)} :
    /\ \A i \in 1 .. Len(t) : t[i] # NUL
    /\ Len(t) = Len(f) \/ f[Len(t) + 1] = NUL

\* Faulty variant (for the mutation check): the copy ignores the bound.
GetStringUnbounded(s, n) == s

\* Espruino's jsvGetString(v, buf, n) writes at most n - 1 bytes of the
\* string and then a NUL; these are the bytes it writes before the NUL.
GetStringCopy(s, n) == SubSeq(s, 1, IF Len(s) < n THEN Len(s) ELSE n - 1)

\* What jsvGetString returns: n when the string did not fit, else its length.
GetStringLen(s, n) == IF Len(s) < n THEN Len(s) ELSE n

\* The C string starting at m: the bytes before the first NUL, or all of m
\* when it has none (the read then runs off the end of m).
CStr(m) ==
  LET nuls == {i \in 1 .. Len(m) : m[i] = NUL}
      k == IF nuls = {} THEN Len(m) + 1
           ELSE CHOOSE i \in nuls : \A j \in nuls : i <= j
  IN SubSeq(m, 1, k - 1)

\* strncpy(dst, src, n): the bytes of src up to its first NUL, at most n,
\* then NUL padding to n bytes.
strncpy(src, n) ==
  LET s == CStr(src)
      c == IF Len(s) < n THEN s ELSE SubSeq(s, 1, n)
  IN c \o [i \in 1 .. n - Len(c) |-> NUL]

\* Faulty variant (for the mutation check): buf[32] = 0 is left out, so
\* the string runs on into whatever the stack holds after buf[31].
DecodeSsidUnterminated(raw) ==
  CStr(strncpy(raw, SsidW) \o <<CHOOSE c \in Chars : TRUE, NUL>>)

\* An SSID field of 32 bytes that need not be NUL-terminated, decoded as
\* getDetails and scanCB do: strncpy(buf, raw, 32); buf[32] = 0.
DecodeSsid(raw) == CStr(strncpy(raw, SsidW) \o <<NUL>>)

\* The first 32 bytes of char ssid[33] after
\*   len = jsvGetString(jsSsid, ssid, sizeof(ssid)-1); ssid[len] = '\0';
\* ssid is a stack array: the bytes after the terminators are junk.
SsidBuf(s, junk) ==
  LET c == GetStringCopy(s, SsidW)
      len == GetStringLen(s, SsidW)
  IN [i \in 1 .. SsidW |->
        IF i <= Len(c) THEN c[i]
        ELSE IF i \in {Len(c) + 1, len + 1} THEN NUL ELSE junk[i]]

\* The first 64 bytes of char password[65] after memset(password, 0, 65)
\* and jsvGetString(jsPassword, password, sizeof(password)-1); a missing
\* password leaves password[0] = '\0' and the rest zero as well.
PasswordBuf(p) ==
  LET c == GetStringCopy(p, PwW)
  IN c \o [i \in 1 .. PwW - Len(c) |-> NUL]

VARIABLES
  staSsid,   \* wifi_sta_config_t.ssid as the driver stores it
  staPw,     \* wifi_sta_config_t.password
  after,     \* the byte of the driver's config that follows the password
  lastSsid,  \* history: the ssid of the latest successful connect
  connected, \* history: a connect has set the config
  details    \* history: what getDetails returned since the latest connect

vars == <<staSsid, staPw, after, lastSsid, connected, details>>

None == [ssid |-> <<>>, password |-> <<>>, valid |-> FALSE]

\* esp32_wifi_init: esp_wifi_init loads the station config saved in NVS
\* before esp_wifi_set_storage(WIFI_STORAGE_RAM), so the config starts as
\* whatever an earlier firmware saved: any bytes, terminated or not.
Init ==
  /\ staSsid \in Arr(SsidW)
  /\ staPw \in Arr(PwW)
  /\ after \in Bytes
  /\ lastSsid = << >>
  /\ connected = FALSE
  /\ details = None

\* jswrap_ESP32_wifi_connect(s, {password: p}) from the vendor calls on:
\* memcpy of 32 and 64 bytes into the uninitialised wifi_config_t, whose
\* byte after the password is not set, then esp_wifi_set_config.
connect(s, p) ==
  /\ \E junk \in Arr(SsidW) : staSsid' = SsidBuf(s, junk)
  /\ staPw' = PasswordBuf(p)
  /\ after' \in Bytes
  /\ lastSsid' = s
  /\ connected' = TRUE
  /\ details' = None

\* jswrap_ESP32_wifi_getDetails: strncpy(buf, config.ssid, 32); buf[32] = 0
\* for the ssid; for the password, strncpy into buf is done but
\* jsvNewFromString(config.password) reads the field itself, up to the
\* first NUL of the memory from the field on.  The model ends that memory
\* with a NUL after the byte following the field.
getDetails ==
  /\ details' = [ssid |-> DecodeSsid(staSsid),
                 password |-> CStr(staPw \o <<after, NUL>>),
                 valid |-> TRUE]
  /\ UNCHANGED <<staSsid, staPw, after, lastSsid, connected>>

Next ==
  \/ \E s \in Strs(MaxLen), p \in Strs(MaxLen) : connect(s, p)
  \/ getDetails

Spec == Init /\ [][Next]_vars

-----------------------------------------------------------------------------
TypeOK ==
  /\ staSsid \in Arr(SsidW)
  /\ staPw \in Arr(PwW)
  /\ after \in Bytes
  /\ lastSsid \in Strs(MaxLen) /\ connected \in BOOLEAN
  /\ details.ssid \in Seq(Chars) /\ details.password \in Seq(Chars)

\* The spec's SSID decoding (getDetails, scanCB): a 32-byte field with no
\* NUL reads as its 32 bytes, one with a NUL at k as its first k bytes.
\* getDetails returns the SSID field of the config so, whatever NVS or the
\* stack junk of connect left in it.
SsidWithinField ==
  details.valid => details.ssid = FieldString(staSsid)

\* getDetails returns the password field of the config read the same way:
\* the bytes before its first NUL, never more than the 64 bytes of the field.
PasswordWithinField ==
  details.valid => details.password = FieldString(staPw)

\* After connect(s), the driver's station config names the network s: the
\* SSID field holds s, cut only to the 32 bytes of the field.
ConnectStoresSsid ==
  connected =>
    FieldString(staSsid) = SubSeq(lastSsid, 1, IF Len(lastSsid) < SsidW
                                                THEN Len(lastSsid) ELSE SsidW)
=============================================================================
