----------------------------- MODULE MCStartup -----------------------------
\* A USB device with both control channels, and an MLB device with one channel: for a sound and
\* a character device, one of a type that fits no driver, and one that names the wrong layer.
EXTENDS Startup

MCDevices == {"usb", "mlb"}
MCChannels == [d \in MCDevices |-> IF d = "usb" THEN {"ep8f", "ep0f"} ELSE {"ca10"}]
MCInterface == [d \in MCDevices |-> IF d = "usb" THEN "usb" ELSE "mlb_dim2"]
Drv(kind, aim, phy, channel, valid) ==
  [kind |-> kind, aim |-> aim, phy |-> phy, channel |-> channel, valid |-> valid]
MCDrivers ==
  << Drv("Alsa", "mic", "Mlb", "ca10", TRUE), Drv("V4l2", "cam", "Mlb", "ca10", FALSE),
     Drv("Cdev", "data", "Mlb", "ca10", TRUE), Drv("Cdev", "other", "Usb", "ca10", TRUE) >>
=============================================================================
