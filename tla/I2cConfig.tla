----------------------------- MODULE I2cConfig -----------------------------
(***************************************************************************)
(* The configuration of the Avalon I2C core under I2cDriver: the counts    *)
(* that altera_avalon_i2c.c computes for a speed, and the registers it     *)
(* packs them into.  CTRL holds four fields that different callers change  *)
(* with IORMW; two of them, the enable bit and the command threshold, are  *)
(* I2cDriver's en and thd.  A program may set a configuration between any  *)
(* two of its calls.  Counts are alt_u16 in the configuration and the core.*)
(***************************************************************************)
EXTENDS I2cDriver

CONSTANTS
  Hz,        \* the speeds asked for
  FREQ       \* the core's clock, ip_freq_in_hz

FS_MAX_HZ == 400000
FS_MIN_HZ == 100000
SS_MIN_HZ == 1
DIFF_LCNT_HCNT == 60
U16(n) == n % 65536

\* The clock is fast enough for the counts of 400 kHz to stay positive, with a
\* hold time below the low one, and slow enough for those of 100 kHz to fit; what
\* it leaves over when divided down to 400 kHz does not take a tick off that
\* period.  100 MHz on the board (system.h), which leaves nothing.  hz << 1 fits.
ASSUME FreqAssumption ==
  /\ FREQ \in Nat /\ Hz \subseteq 0 .. 2 * FS_MAX_HZ
  /\ FREQ \div (2 * FS_MAX_HZ) > DIFF_LCNT_HCNT + 1
  /\ FREQ \div (2 * FS_MIN_HZ) + DIFF_LCNT_HCNT < 65536
  /\ FREQ % (2 * FS_MAX_HZ) < 2 * (FREQ \div (2 * FS_MAX_HZ))

\* alt_avalon_i2c_master_config_speed_set: refuses what is not standard or
\* fast, else fills in the counts.
BugInRange(s) == SS_MIN_HZ <= s
InRange(s) == SS_MIN_HZ <= s /\ s <= FS_MAX_HZ
Lcnt(s) == FREQ \div (2 * s) - DIFF_LCNT_HCNT
Counts(c, s) ==
  [addr_mode |-> c.addr_mode,
   speed_mode |-> IF s > FS_MIN_HZ THEN 1 ELSE 0,
   scl_hcnt |-> U16(FREQ \div (2 * s) + DIFF_LCNT_HCNT),
   scl_lcnt |-> U16(Lcnt(s)),
   sda_cnt |-> U16(Lcnt(s) - Lcnt(s) \div 2)]
speed_set(c, s) == IF InRange(s) THEN Counts(c, s) ELSE c

\* alt_avalon_i2c_master_config_speed_get; 0 stands for BAD_ARG.
speed_get(c) == IF c.scl_lcnt = 0 \/ c.scl_hcnt = 0 THEN 0
                ELSE FREQ \div (c.scl_lcnt + c.scl_hcnt)

\* The fields of CTRL: the weight of the lowest bit, how many values (offsets 0,
\* 1, 2 and 4, masks 1, 1, 3 and 3).  IORMW replaces the bits of one.
EN        == <<1, 2>>
BUS_SPEED == <<2, 2>>
CMD_THD   == <<4, 4>>
RX_THD    == <<16, 4>>
Field(ctrl, f) == (ctrl \div f[1]) % f[2]
IORMW(ctrl, v, f) == ctrl - Field(ctrl, f) * f[1] + (v % f[2]) * f[1]
\* CTRL as I2cDriver has it, with the two fields it does not tell apart.
Ctrl(speed, rxthd) ==
  IORMW(IORMW(IORMW(IORMW(0, rxthd, RX_THD), IF thd = "EMPTY" THEN 0 ELSE 3, CMD_THD),
              speed, BUS_SPEED), IF en THEN 1 ELSE 0, EN)

\* alt_avalon_i2c_master_config_set and _get.
BugConfigSet(ctrl, c) ==
  [ctrl |-> c.speed_mode * 2, SCL_HIGH |-> c.scl_hcnt, SCL_LOW |-> c.scl_lcnt,
   SDA_HOLD |-> c.sda_cnt, address_mode |-> c.addr_mode]
config_set(ctrl, c) ==
  [ctrl |-> IORMW(ctrl, c.speed_mode, BUS_SPEED), SCL_HIGH |-> c.scl_hcnt,
   SCL_LOW |-> c.scl_lcnt, SDA_HOLD |-> c.sda_cnt, address_mode |-> c.addr_mode]
config_get(r) ==
  [addr_mode |-> r.address_mode, speed_mode |-> Field(r.ctrl, BUS_SPEED),
   scl_hcnt |-> r.SCL_HIGH, scl_lcnt |-> r.SCL_LOW, sda_cnt |-> r.SDA_HOLD]

\* alt_avalon_i2c_enable and the two threshold_set functions.
SetEnable(r) == [r EXCEPT !.ctrl = IORMW(@, 1, EN)]
rx_fifo_threshold_set(r, t) == [r EXCEPT !.ctrl = IORMW(@, t, RX_THD)]
tfr_cmd_fifo_threshold_set(r, t) == [r EXCEPT !.ctrl = IORMW(@, t, CMD_THD)]

\* alt_avalon_i2c_init: 100 kHz, 7-bit addresses.
Cfg0 == Counts([addr_mode |-> 0, speed_mode |-> 0, scl_hcnt |-> 0, scl_lcnt |-> 0, sda_cnt |-> 0],
               FS_MIN_HZ)
----------------------------------------------------------------------------
\* When a program may configure the core: not in the middle of a transfer.
Configurable == pc = "idle" /\ ~pending

\* The counts of a speed fit their 16 bits: from 764 Hz on, with 100 MHz.
Fits(s) == FREQ \div (2 * s) + DIFF_LCNT_HCNT < 65536
Matches(s, c) ==
  LET period == c.scl_lcnt + c.scl_hcnt
  IN  s * period <= FREQ /\ FREQ < s * (period + 2)

\* Of a speed whose counts fit, the clock set is not slower than asked for, and
\* faster by less than two ticks of its period, which the two divisions lose; the
\* driver reads it back as 400 kHz at most, and the data are held for less than
\* the low half.  A speed that is refused leaves the configuration as it was.  A
\* slower speed, down to the 1 Hz of the header, gets what its counts are cut to:
\* nothing is said of it here, and BestMatches is what the header says.
SpeedMatches ==
  Configurable => \A s \in Hz :
    LET c == speed_set(Cfg0, s)
    IN  /\ InRange(s) /\ Fits(s) =>
             Matches(s, c) /\ speed_get(c) <= FS_MAX_HZ /\ c.sda_cnt < c.scl_lcnt
        /\ ~InRange(s) => Matches(FS_MIN_HZ, c)

\* The header: what is computed "best matches the speed requested" (378-380), from
\* 1 Hz (288) to 400 kHz.  The least this says is that asking for a slower clock
\* does not give a faster one.
BestMatches ==
  Configurable => \A r, s \in Hz :
    InRange(r) /\ InRange(s) /\ r < s =>
      speed_get(speed_set(Cfg0, r)) <= speed_get(speed_set(Cfg0, s))

\* A new configuration leaves the enable bit and both thresholds as the driver
\* and its interrupt left them, and what config_get reads is what config_set
\* wrote, also when the next transfer has enabled the core and set its
\* thresholds: the fields of CTRL do not touch each other.
FieldsApart ==
  Configurable => \A s \in {FS_MIN_HZ, FS_MAX_HZ}, m, old \in 0 .. 1, t, u \in {0, 3} :
    LET c == [speed_set(Cfg0, s) EXCEPT !.addr_mode = m]
        after == config_set(Ctrl(old, u), c)
        later == SetEnable(tfr_cmd_fifo_threshold_set(rx_fifo_threshold_set(after, u), t))
    IN  /\ config_get(after) = c /\ config_get(later) = c
        /\ after.ctrl \in {Ctrl(0, u), Ctrl(1, u)}

\* A configuration set between two transfers is the one the core has: the clock
\* of every speed whose counts fit, and each field of CTRL for itself.  The
\* read-modify-writes of CTRL are single steps here: a program that configures the
\* core while an interrupt transfer is pending is not looked at.
ConfigurationHolds == SpeedMatches /\ FieldsApart
=============================================================================
