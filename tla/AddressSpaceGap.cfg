SPECIFICATION FairSpec
CONSTANTS
  Vpn = {524288, 524289, 524318, 524319, 524320, 786430, 786431, 786432}
  FirstVpn = 524288
  StackVpn = 786431
  MAXPAGES = 32
PROPERTY AccessEnds
